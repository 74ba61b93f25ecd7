SPECIFICATION Spec
CONSTANTS
    Configs <- MCConfigs
    BatchSizes <- MCBatchSizes
    Capacity = 2
    MaxFrameSize = 2
    HeaderSize = 1
    SequenceSize = 1
    SequenceModulus = 4
    None = None
    MaxStarts = 2
    MaxPolls = 3
INVARIANTS
    NetInv
    SequencesShowGaps
PROPERTY
    ImplementsLedger
CHECK_DEADLOCK FALSE
