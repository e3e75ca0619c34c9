\* A flattened Message cut at any byte before its end.
CONSTANTS
    Whats <- MCWhats
    Names <- MCNames
    PutInputs <- MCPutInputs
SPECIFICATION Spec
INVARIANT TruncationDetected
