\* Inputs the class does not reject: a bit index between NumBits and the end
\* of the last word, a SetWord value with bits above NumBits, and an
\* encoding cut short in its word array.  Each of them alone dirties the
\* tail (checked one at a time by narrowing the constants below).
CONSTANTS
    NONE = NONE  Raised = Raised
    NumBits <- MCNumBits
    Indices <- MCIndicesTail
    WordInputs <- MCWordInputsTail
    Encodings <- MCEncodingsTruncated
SPECIFICATION Spec
INVARIANT TailClear
