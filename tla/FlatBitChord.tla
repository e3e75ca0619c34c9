---------------------------- MODULE FlatBitChord ----------------------------
(***************************************************************************)
(* A BitChord (src/lang/python3/bit_chord.py) carried in a Python 3        *)
(* Message (src/lang/python3/message.py) by Message.PutFlat and            *)
(* Message.GetFlat.  The sender flattens its BitChord into a field of the  *)
(* Message; the Message is then replaced by what Unflatten makes of its    *)
(* flattened buffer, whole or cut short in transit (a receiver that        *)
(* ignores the exception keeps the fields read before it); GetFlat         *)
(* unflattens an item of the field into the receiver's BitChord.  Both     *)
(* BitChords have NumBits bits.                                            *)
(***************************************************************************)
EXTENDS Integers, Sequences

CONSTANTS
    NumBits,     \* BitChord(NumBits), sender and receiver
    Indices,     \* bits the sender sets or clears
    Names,       \* field names
    Whats,       \* what codes of the Message
    PutInputs,   \* Put<Type> calls of other kinds under the same names
    FlatCounts,  \* lengths of the lists given to PutFlat (1: one object)
    GetIndices,  \* index arguments of GetFlat
    NONE,
    Raised

VARIABLES
    snd,       \* the sender's BitChord (its words)
    msg,       \* the Message
    rcv,       \* the receiver's BitChord (its words)
    got,       \* what the last call returned: NONE, or for GetFlat [name, res]
               \* with res "obj", "default" or Raised
    putWords   \* per name, the words of the BitChord last flattened there (history)
vars == <<snd, msg, rcv, got, putWords>>

BC == INSTANCE BitChord WITH words <- snd, ret <- NONE, op <- NONE,
                             WordInputs <- {}, Encodings <- {}
M  == INSTANCE MessageCodec

NewBitChord == [i \in BC!WordIdx |-> {}]

\* SetBit and ClearBit on the sender's BitChord.
SetBit(b, v) ==
    /\ snd' = BC!WithBit(snd, b, v)
    /\ got' = NONE
    /\ UNCHANGED <<msg, rcv, putWords>>

\* msg.PutFlat(name, bc), or msg.PutFlat(name, [bc, ...]) with k entries:
\* bc.Flatten() once per entry, filed under bc.TypeCode().
PutFlat(name, k) ==
    /\ msg' = M!PutFlat(msg, name, BC!TypeCode, [i \in 1..k |-> BC!FlattenBytes(snd)])
    /\ putWords' = IF k = 0 THEN putWords ELSE [putWords EXCEPT ![name] = snd]
    /\ got' = NONE
    /\ UNCHANGED <<snd, rcv>>

\* A Put<Type> of another kind under a name GetFlat may ask for.
Put(name, in) == M!Put(name, in) /\ got' = NONE /\ UNCHANGED <<snd, rcv, putWords>>

\* msg.SetFromFlattenedBuffer of the first k bytes of its own flattened form.
Transmit(k) ==
    M!SetFromFlattenedBuffer(k) /\ got' = NONE /\ UNCHANGED <<snd, rcv, putWords>>

\* msg.GetFlat(name, BitChord(NumBits), None, index) (lines 494-500):
\* GetFieldItem under obj.TypeCode(); when an item is found, obj.Unflatten
\* of it, which may raise after overwriting some of obj's words.  (An obj
\* with earlier contents ends the same: Unflatten clears it before the
\* first word, or raises before touching it.)
GetFlat(name, index) ==
    LET obj  == NewBitChord
        blob == M!GetFieldItem(msg, name, BC!TypeCode, NONE, index)
        r    == BC!UnflattenResult(obj, blob.raw)
    IN /\ IF blob = NONE
          THEN rcv' = obj /\ got' = [name |-> name, res |-> "default"]
          ELSE rcv' = r.words
               /\ got' = [name |-> name, res |-> IF r.raised THEN Raised ELSE "obj"]
       /\ UNCHANGED <<snd, msg, putWords>>

Init ==
    /\ snd = NewBitChord /\ rcv = NewBitChord
    /\ M!Init
    /\ got = NONE
    /\ putWords = [n \in Names |-> NONE]

Next ==
    \/ \E b \in Indices, v \in BOOLEAN : SetBit(b, v)
    \/ \E name \in Names, k \in FlatCounts : PutFlat(name, k)
    \/ \E name \in Names, in \in PutInputs : Put(name, in)
    \/ \E k \in 0..Len(M!GetFlattenedBuffer(msg)) : Transmit(k)
    \/ \E name \in Names, index \in GetIndices : GetFlat(name, index)

Spec == Init /\ [][Next]_vars

-----------------------------------------------------------------------------
(* Properties.                                                             *)

\* A GetFlat that returns its object (no exception) has put into it exactly
\* the bits of the BitChord last flattened under that name, also when the
\* Message was rebuilt from a cut buffer: Message.Unflatten keeps a bytes
\* item cut short when it is the last thing read, and keeps the fields read
\* before it raises, so only BitChord.Unflatten's own length reads stand
\* between a cut item and a BitChord with missing words.
GetFlatIntact == got # NONE /\ got.res = "obj" => rcv = putWords[got.name]

=============================================================================
