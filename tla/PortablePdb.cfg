\* Three files, complete and cut off, two calls.  The model stops after MaxCalls
\* calls.
SPECIFICATION Spec
CONSTANTS
    Files <- MCFiles
    Cuts <- MCCuts
    Contents <- MCContents
    kStringBufferSize = 4
    kUInt32 = 2147483647
    MaxCalls = 2
CHECK_DEADLOCK FALSE
INVARIANTS
    NoLimitIsLeft
    IndicesAreExact
    ParsedHasAllDocuments
    CompleteFileIsParsed
