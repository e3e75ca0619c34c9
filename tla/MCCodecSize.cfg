\* A non-ASCII field name, and a str item under an unknown type code (as the
\* file's own test stub puts): each makes FlattenedSize disagree with the
\* bytes Flatten writes.
CONSTANTS
    Whats <- MCWhats
    Names <- MCNamesNonAscii
    PutInputs <- MCPutInputsStrData
SPECIFICATION Spec
INVARIANT SizeMatches
