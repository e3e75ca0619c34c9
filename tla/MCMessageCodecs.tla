--------------------------- MODULE MCMessageCodecs ---------------------------
(***************************************************************************)
(* Both Message classes in one state space: a behaviour runs either the    *)
(* Python 3 class (msg3), the Python 2 class with the zlib envelope        *)
(* (msg2), or a BitChord carried in a Python 3 Message by PutFlat and      *)
(* GetFlat (the f* variables); the others stay Idle.  The Python 2 build   *)
(* is one with 4-byte C longs, which reads INT64 fields with              *)
(* struct.unpack("<q").                                                   *)
(***************************************************************************)
EXTENDS MCCodecInputs

CONSTANTS NONE, Raised

VARIABLES msg3, msg2, fsnd, fmsg, frcv, fgot, fput

Idle == [idle |-> TRUE]

Py3 == INSTANCE MessageCodec
       WITH msg <- msg3, Whats <- MCWhats, Names <- MCNames, PutInputs <- MCPutInputs

Py2 == INSTANCE ZlibEnvelope
       WITH msg <- msg2, Whats <- MC2Whats, Names <- MC2Names, PutInputs <- MC2PutInputs,
            HashOrder <- MC2HashOrder, LongIs64Bits <- FALSE

Flat == INSTANCE FlatBitChord
        WITH snd <- fsnd, msg <- fmsg, rcv <- frcv, got <- fgot, putWords <- fput,
             NumBits <- MCFlatBits, Indices <- MCFlatIndices, Names <- MCFlatNames,
             Whats <- MC2Whats, PutInputs <- MCFlatPutInputs,
             FlatCounts <- MCFlatCounts, GetIndices <- MCGetIndices

flatVars == <<fsnd, fmsg, frcv, fgot, fput>>
vars == <<msg3, msg2, flatVars>>

FlatIdle == fsnd = Idle /\ fmsg = Idle /\ frcv = Idle /\ fgot = Idle /\ fput = Idle

Init ==
    \/ Py3!Init /\ msg2 = Idle /\ FlatIdle
    \/ Py2!Init /\ msg3 = Idle /\ FlatIdle
    \/ Flat!Init /\ msg3 = Idle /\ msg2 = Idle

Next ==
    \/ msg3 # Idle /\ Py3!Next /\ UNCHANGED <<msg2, flatVars>>
    \/ msg2 # Idle /\ Py2!Next /\ UNCHANGED <<msg3, flatVars>>
    \/ fmsg # Idle /\ Flat!Next /\ UNCHANGED <<msg3, msg2>>

Spec == Init /\ [][Next]_vars

-----------------------------------------------------------------------------
(* Properties: those of each class, on the behaviours that run it.         *)

\* Python 3: FlattenedSize() equals the bytes Flatten() writes (spec 4.2.3).
SizeMatches3 == msg3 # Idle => Py3!SizeMatches

\* Python 3: Unflatten(Flatten(m)) is m, fields in insertion order (spec 8.1).
RoundTrip3 == msg3 # Idle => Py3!RoundTrip

\* Python 2: FlattenedSize() equals the bytes Flatten() writes (spec 4.2.3).
SizeMatches2 == msg2 # Idle => Py2!SizeMatches

\* Python 2: Unflatten(Flatten(m)) is m as a dict (spec 8.1 up to order).
RoundTrip2 == msg2 # Idle => Py2!RoundTrip

\* Python 2 zlib envelope: InflateMessage(DeflateMessage(m)) is m (spec 4.3).
EnvelopeRoundTrip == msg2 # Idle => Py2!EnvelopeRoundTrip

\* PutFlat / GetFlat: a GetFlat that returns its BitChord without raising
\* gives back the bits last put under that name, whatever cut the Message
\* travelled through (FlatBitChord!GetFlatIntact).
GetFlatIntact == fmsg # Idle => Flat!GetFlatIntact
=============================================================================
