SPECIFICATION VirtualSpec
CONSTANTS
    Bytes <- MCBytes
    MaxFile = 3
    Framers <- OneByte
    Policies <- MCPolicies
    ReadChunk = 3
    Capacity = 3
    MaxRecordSize = 1
    MaxLoops = 1
    MaxStarts = 2
    MaxIoErrors = 0
    ResetsBatch = FALSE
    PollAfterReadError = FALSE
    FaultPolicies <- MCFaultPolicies
    CallerCapacity = 2
    CallerRecordSize = 1
    Modes <- MCModes
    MaxClock = 1
    MaxAdvances = 8
INVARIANTS
    RecordsAreThoseOfTheFile
CHECK_DEADLOCK FALSE
