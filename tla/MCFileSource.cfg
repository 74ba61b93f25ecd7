SPECIFICATION FairSpec
CONSTANTS
    Bytes <- MCBytes
    MaxFile = 4
    Framers <- MCFramers
    Policies <- MCPolicies
    ReadChunk = 3
    Capacity = 2
    MaxRecordSize = 3
    MaxLoops = 2
    MaxStarts = 2
    MaxIoErrors = 1
    ResetsBatch = TRUE
    PollAfterReadError = FALSE
INVARIANTS
    FileInv
    RecordsAreThoseOfTheFile
PROPERTIES
    EveryRecordComesOut
    PollReturns
CHECK_DEADLOCK FALSE
