---------------------------- MODULE BitChordSpec ----------------------------
(***************************************************************************)
(* What a BitChord promises (spec sections 3.3 and 4.1): a fixed set of N  *)
(* bit positions, each on or off, and operations on it; ret is the value   *)
(* the last call returned (NONE for a call that returns nothing), op the  *)
(* call and its bit or word argument (0 if it has none).  Words           *)
(* are only a view: word w is bits 32w..32w+31, as a set of offsets.      *)
(* Unflatten is given the (numBits, words) an encoding carries.           *)
(***************************************************************************)
EXTENDS Integers, Sequences, FiniteSets

CONSTANTS N, Indices, WordInputs, Encodings, NONE

VARIABLES bits, ret, op

Positions == 0..(N - 1)
WordView(w) == {i - 32 * w : i \in {j \in bits : j \div 32 = w}}

\* Returned values: [bool |-> b] for a bool, [word |-> w] for a word.
Bool(b) == [bool |-> b]

\* A truth value as Python code tests it: AreAnyBitsSet returns True or None.
Truthy(b) == IF b THEN {Bool(TRUE)} ELSE {Bool(FALSE), NONE}

Query(v) == ret' = v /\ UNCHANGED bits
Assign(S, v) == bits' = S /\ ret' = v
Call(name, arg) == op' = <<name, arg>>

IsBitSet(i)      == Query(Bool(i \in bits))
SetBit(i, v)     == Assign(IF v THEN bits \cup {i} ELSE bits \ {i}, NONE)
ToggleBit(i)     == Assign(IF i \in bits THEN bits \ {i} ELSE bits \cup {i}, NONE)
GetAndSetBit(i)  == Assign(bits \cup {i}, Bool(i \in bits))
GetAndClearBit(i) == Assign(bits \ {i}, Bool(i \in bits))
GetAndToggleBit(i) ==
    Assign(IF i \in bits THEN bits \ {i} ELSE bits \cup {i}, Bool(i \in bits))
ClearAllBits     == Assign({}, NONE)
SetAllBits       == Assign(Positions, NONE)
ToggleAllBits    == Assign(Positions \ bits, NONE)
SetWord(w, v)    ==
    Assign({i \in Positions : IF i \div 32 = w THEN (i % 32) \in v ELSE i \in bits},
           NONE)
GetWord(w)       == Query([word |-> WordView(w)])
AreAnyBitsSet    == bits' = bits /\ ret' \in Truthy(bits # {})
AreAllBitsSet    == Query(Bool(bits = Positions))

\* Words beyond the encoding's count are zero; words beyond ours are
\* dropped; the tail is masked.
Unflatten(e) ==
    Assign({i \in Positions : i \div 32 < Len(e.words)
                              /\ (i % 32) \in e.words[i \div 32 + 1]}, NONE)

Init == bits = {} /\ ret = NONE /\ op = <<"BitChord", N>>

Next ==
    \/ \E i \in Indices :
         \/ IsBitSet(i) /\ Call("IsBitSet", i)
         \/ ToggleBit(i) /\ Call("ToggleBit", i)
         \/ SetBit(i, FALSE) /\ Call("ClearBit", i)
         \/ \E v \in BOOLEAN : SetBit(i, v) /\ Call(IF v THEN "SetBit" ELSE "SetBitFalse", i)
         \/ GetAndSetBit(i) /\ Call("GetAndSetBit", i)
         \/ GetAndClearBit(i) /\ Call("GetAndClearBit", i)
         \/ GetAndToggleBit(i) /\ Call("GetAndToggleBit", i)
    \/ ClearAllBits /\ Call("ClearAllBits", 0)
    \/ SetAllBits /\ Call("SetAllBits", 0)
    \/ ToggleAllBits /\ Call("ToggleAllBits", 0)
    \/ \E p \in WordInputs : SetWord(p[1], p[2]) /\ Call("SetWord", p[1])
    \/ \E p \in WordInputs : GetWord(p[1]) /\ Call("GetWord", p[1])
    \/ AreAnyBitsSet /\ Call("AreAnyBitsSet", 0)
    \/ AreAllBitsSet /\ Call("AreAllBitsSet", 0)
    \/ \E e \in Encodings : Unflatten(e) /\ Call("Unflatten", e.nb)

Spec == Init /\ [][Next]_<<bits, ret, op>>

====
