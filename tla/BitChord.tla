------------------------------- MODULE BitChord -------------------------------
(***************************************************************************)
(* BitChord of src/lang/python3/bit_chord.py: NumBits bits kept in an      *)
(* array of 32-bit words.  A word is modelled by the set of its bit        *)
(* offsets that are 1 (x | (1<<b) is union, x & ~(1<<b) removal, x ^ ALL   *)
(* complement), which keeps 32-bit values out of TLC's integers.  ret is   *)
(* what the last call returned: [bool |-> b] for a bool, [word |-> w] for  *)
(* a word, NONE for None, Raised when the call raised.                     *)
(***************************************************************************)
EXTENDS Integers, Sequences, SequencesExt, FiniteSetsExt

CONSTANTS
    NumBits,     \* the constructor's NumBits
    Indices,     \* whichBit arguments callers pass
    WordInputs,  \* <<whichWord, newWordValue>> arguments of SetWord / GetWord
    Encodings,   \* [nb, words] of the flattened BitChords given to Unflatten
    NONE,
    Raised       \* what a call that raised struct.error returns

NUM_BITS_PER_WORD      == 32
WORD_WITH_ALL_BITS_SET == 0..(NUM_BITS_PER_WORD - 1)

\* __bitCountToWordCount (lines 142-143)
bitCountToWordCount(n) == (n + (NUM_BITS_PER_WORD - 1)) \div NUM_BITS_PER_WORD

NumWords == bitCountToWordCount(NumBits)
WordIdx  == 0..(NumWords - 1)

VARIABLES
    words,  \* self._words
    ret,    \* what the last call returned
    op      \* the last call and its bit or word argument (0 if none)
vars == <<words, ret, op>>

\* Mutation: the bit offset is not reduced modulo the word size.
getWhichBitWithinWordNoMod(b) == b

\* __getWhichWord, __getWhichBitWithinWord (lines 130-134)
getWhichWord(b)          == b \div NUM_BITS_PER_WORD
getWhichBitWithinWord(b) == b % NUM_BITS_PER_WORD

\* IsBitSet (lines 29-30)
BitIsSet(w, b) == getWhichBitWithinWord(b) \in w[getWhichWord(b)]

\* SetBit (lines 32-38); ClearBit is SetBit(b, False) (lines 40-41).
WithBit(w, b, v) ==
    [w EXCEPT ![getWhichWord(b)] =
        IF v THEN @ \cup {getWhichBitWithinWord(b)}
        ELSE @ \ {getWhichBitWithinWord(b)}]

\* Mutation: the unused tail is left as it is.
clearUnusedBitsNot(w) == w

\* __clearUnusedBits (lines 136-140): ClearBit(i) for i in
\* range(NumBits, NumWords*32) when NumBits is not a multiple of 32.
clearUnusedBits(w) ==
    IF NumBits % NUM_BITS_PER_WORD > 0
    THEN [i \in WordIdx |-> {j \in w[i] : i * NUM_BITS_PER_WORD + j < NumBits}]
    ELSE w

\* Mutation: a word is packed big-endian (">L").
WordBytesBE(s) == [k \in 1..4 |-> SumSet({2 ^ (j - 8 * (4 - k)) : j \in {x \in s : x \div 8 = 4 - k}})]

\* struct.pack("<L", x) of a word and of an integer.
ByteOf(s, k) == SumSet({2 ^ (j - 8 * k) : j \in {x \in s : x \div 8 = k}})
WordBytes(s) == [k \in 1..4 |-> ByteOf(s, k - 1)]
LE32(n)      == [k \in 1..4 |-> (n \div (256 ^ (k - 1))) % 256]

\* struct.unpack("<L", bs) of four bytes, as a word and as an integer.
BitsOfByte(x) == {j \in 0..7 : (x \div (2 ^ j)) % 2 = 1}
WordOfBytes(bs) == UNION {{8 * k + j : j \in BitsOfByte(bs[k + 1])} : k \in 0..3}
FromLE32(bs) == bs[1] + 256 * bs[2] + 65536 * bs[3] + 16777216 * bs[4]

\* Flatten (lines 115-118) of a BitChord of nb bits whose words are ws.
FlattenOf(nb, ws) == LE32(nb) \o FlattenSeq([i \in DOMAIN ws |-> WordBytes(ws[i])])

FlattenBytes(w) == FlattenOf(NumBits, [i \in 1..NumWords |-> w[i - 1]])

\* FlattenedSize (lines 112-113): 4 + (32/8) * numWords.  Python 3's "/"
\* makes it a float, which compares equal to the integer it stands for.
FlattenedSize == 4 + (NUM_BITS_PER_WORD \div 8) * NumWords

\* TypeCode (lines 106-107): the type code Message.PutFlat files it under.
B_BITCHORD_TYPE == 1112818504
TypeCode == B_BITCHORD_TYPE

\* Mutation: a word the stream cuts short is read as zero, not raised on.
UnflattenResultLenient(w, bs) ==
    LET numEncodedWords == bitCountToWordCount(FromLE32(SubSeq(bs, 1, 4)))
        readable        == (Len(bs) - 4) \div 4
        copied == [i \in WordIdx |->
                     IF i < numEncodedWords /\ i < readable
                     THEN WordOfBytes(SubSeq(bs, 5 + 4 * i, 8 + 4 * i)) ELSE {}]
    IN IF Len(bs) < 4 THEN [words |-> w, raised |-> TRUE]
       ELSE [words |-> clearUnusedBits(copied), raised |-> FALSE]

\* Unflatten (lines 120-128) of the byte string bs into words w: the
\* resulting words and whether struct.unpack raised on a short read.  The
\* exception leaves the words copied so far in place, unmasked.
UnflattenResult(w, bs) ==
    LET numEncodedWords == bitCountToWordCount(FromLE32(SubSeq(bs, 1, 4)))
        readable        == (Len(bs) - 4) \div 4
        copied == [i \in WordIdx |->
                     IF i < numEncodedWords /\ i < readable
                     THEN WordOfBytes(SubSeq(bs, 5 + 4 * i, 8 + 4 * i)) ELSE {}]
    IN IF Len(bs) < 4 THEN [words |-> w, raised |-> TRUE]
       ELSE IF readable < numEncodedWords THEN [words |-> copied, raised |-> TRUE]
       ELSE [words |-> clearUnusedBits(copied), raised |-> FALSE]

-----------------------------------------------------------------------------
(* Operations.  One action per public method.                              *)

Bool(b) == [bool |-> b]

Query(v)      == ret' = v /\ UNCHANGED words
Call(name, arg) == op' = <<name, arg>>
Assign(w, v)  == words' = w /\ ret' = v

IsBitSet(b)        == Query(Bool(BitIsSet(words, b)))
SetBit(b, v)       == Assign(WithBit(words, b, v), NONE)
ClearBit(b)        == Assign(WithBit(words, b, FALSE), NONE)
\* ToggleBit (lines 57-58)
ToggleBit(b)       == Assign(WithBit(words, b, ~BitIsSet(words, b)), NONE)
\* GetAndClearBit, GetAndSetBit, GetAndToggleBit (lines 85-98)
GetAndClearBit(b)  == Assign(WithBit(words, b, FALSE), Bool(BitIsSet(words, b)))
GetAndSetBit(b)    == Assign(WithBit(words, b, TRUE), Bool(BitIsSet(words, b)))
GetAndToggleBit(b) ==
    Assign(WithBit(words, b, ~BitIsSet(words, b)), Bool(BitIsSet(words, b)))

\* ClearAllBits (lines 43-45)
ClearAllBits == Assign([i \in WordIdx |-> {}], NONE)

\* SetAllBits (lines 47-50)
SetAllBits == Assign(clearUnusedBits([i \in WordIdx |-> WORD_WITH_ALL_BITS_SET]), NONE)

\* ToggleAllBits (lines 52-55): x ^ 0xFFFFFFFF
ToggleAllBits ==
    Assign(clearUnusedBits([i \in WordIdx |-> WORD_WITH_ALL_BITS_SET \ words[i]]), NONE)

\* SetWord, GetWord (lines 60-64)
SetWord(w, v) == Assign([words EXCEPT ![w] = v], NONE)
GetWord(w)    == Query([word |-> words[w]])

\* AreAnyBitsSet (lines 66-69): True, or None when it falls off the end.
AreAnyBitsSet == Query(IF \E i \in WordIdx : words[i] # {} THEN Bool(TRUE) ELSE NONE)

\* Mutation: the last-word loop stops one bit early.
AllBitsSetOffByOne(w) ==
    IF NumBits % NUM_BITS_PER_WORD = 0
    THEN \A i \in WordIdx : w[i] = WORD_WITH_ALL_BITS_SET
    ELSE /\ \A i \in 0..(NumWords - 2) : w[i] = WORD_WITH_ALL_BITS_SET
         /\ \A j \in ((NumWords - 1) * NUM_BITS_PER_WORD)..(NumBits - 2) : BitIsSet(w, j)

\* AreAllBitsSet (lines 71-83)
AllBitsSet(w) ==
    IF NumBits % NUM_BITS_PER_WORD = 0
    THEN \A i \in WordIdx : w[i] = WORD_WITH_ALL_BITS_SET
    ELSE /\ \A i \in 0..(NumWords - 2) : w[i] = WORD_WITH_ALL_BITS_SET
         /\ \A j \in ((NumWords - 1) * NUM_BITS_PER_WORD)..(NumBits - 1) : BitIsSet(w, j)

AreAllBitsSet == Query(Bool(AllBitsSet(words)))

\* Unflatten (lines 120-128) of an encoding; a short read raises.
Unflatten(e) ==
    LET r == UnflattenResult(words, FlattenOf(e.nb, e.words))
    IN Assign(r.words, IF r.raised THEN Raised ELSE NONE)

-----------------------------------------------------------------------------

\* The constructor (lines 24-27): all words zero.
Init == words = [i \in WordIdx |-> {}] /\ ret = NONE /\ op = <<"BitChord", NumBits>>

Next ==
    \/ \E b \in Indices :
         \/ IsBitSet(b) /\ Call("IsBitSet", b)
         \/ ClearBit(b) /\ Call("ClearBit", b)
         \/ ToggleBit(b) /\ Call("ToggleBit", b)
         \/ \E v \in BOOLEAN : SetBit(b, v) /\ Call(IF v THEN "SetBit" ELSE "SetBitFalse", b)
         \/ GetAndSetBit(b) /\ Call("GetAndSetBit", b)
         \/ GetAndClearBit(b) /\ Call("GetAndClearBit", b)
         \/ GetAndToggleBit(b) /\ Call("GetAndToggleBit", b)
    \/ ClearAllBits /\ Call("ClearAllBits", 0)
    \/ SetAllBits /\ Call("SetAllBits", 0)
    \/ ToggleAllBits /\ Call("ToggleAllBits", 0)
    \/ \E p \in WordInputs : SetWord(p[1], p[2]) /\ Call("SetWord", p[1])
    \/ \E p \in WordInputs : GetWord(p[1]) /\ Call("GetWord", p[1])
    \/ AreAnyBitsSet /\ Call("AreAnyBitsSet", 0)
    \/ AreAllBitsSet /\ Call("AreAllBitsSet", 0)
    \/ \E e \in Encodings : Unflatten(e) /\ Call("Unflatten", e.nb)

Spec == Init /\ [][Next]_vars

-----------------------------------------------------------------------------
(* Properties.                                                             *)

TypeOK ==
    /\ words \in [WordIdx -> SUBSET WORD_WITH_ALL_BITS_SET]
    /\ op \in STRING \X Nat
    /\ ret \in {NONE, Raised} \cup [bool : BOOLEAN]
              \cup [word : SUBSET WORD_WITH_ALL_BITS_SET]

\* Spec 3.3 and 8.5: the bits at index NumBits and beyond in the last word
\* are zero after every public call (SetAllBits, ToggleAllBits and
\* Unflatten mask them with __clearUnusedBits).
TailClear ==
    \A i \in WordIdx : \A j \in words[i] : i * NUM_BITS_PER_WORD + j < NumBits

\* Flatten writes exactly FlattenedSize bytes (the size callers reserve
\* before writing), and Unflatten of them into a BitChord of the same size
\* gives back the same words, without raising (lines 112-128).
RoundTrip ==
    /\ Len(FlattenBytes(words)) = FlattenedSize
    /\ UnflattenResult([i \in WordIdx |-> {}], FlattenBytes(words))
         = [words |-> words, raised |-> FALSE]

\* The bits a BitChord holds, as the abstract specification sees them.
Bits == {b \in 0..(NumBits - 1) : BitIsSet(words, b)}

Abs == INSTANCE BitChordSpec WITH N <- NumBits, bits <- Bits

\* Every call does to the set of bits, and returns, what BitChordSpec says
\* (spec 4.1): GetAnd* return the prior bit, AreAllBitsSet looks only at
\* the real bits of the last word, Unflatten pads or drops words.
Refines == Abs!Spec

====
