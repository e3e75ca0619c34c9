\* Both Message classes and the zlib envelope: size law and round trips;
\* a BitChord carried by PutFlat / GetFlat.
CONSTANTS NONE = NONE  Raised = Raised
SPECIFICATION Spec
INVARIANTS
    SizeMatches3
    RoundTrip3
    SizeMatches2
    RoundTrip2
    EnvelopeRoundTrip
    GetFlatIntact
