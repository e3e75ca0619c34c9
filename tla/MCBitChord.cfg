\* BitChord(40) under callers that pass in-range bits and words.
CONSTANTS
    NONE = NONE  Raised = Raised
    NumBits <- MCNumBits
    Indices <- MCIndices
    WordInputs <- MCWordInputs
    Encodings <- MCEncodings
SPECIFICATION Spec
INVARIANTS
    TypeOK
    TailClear
    RoundTrip
PROPERTY
    Refines
