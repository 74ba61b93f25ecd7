SPECIFICATION FairSpec
CONSTANTS
    NsPerSecond = 12
    NsPerMicro = 2
    WordBase = 4
    UnitNs <- Units
    Defaults <- Numbers
    Unlimited = 9
    None = None
    Commands <- OneSource
    Edu <- Stops
    MaxDrops = 2
    MaxTicks = 2
    MaxRuns = 2
INVARIANTS
    SimInv
    PacketsAccountedFor
    ReadInOrder
    TimelineObserved
    RatesExact
    CaptureReplayed
PROPERTY
    CallsReturn
CHECK_DEADLOCK FALSE
