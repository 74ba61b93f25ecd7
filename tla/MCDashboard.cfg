SPECIFICATION DashFairSpec
CONSTANTS
    NsPerSecond = 12
    NsPerMicro = 2
    WordBase = 4
    UnitNs <- Units
    Defaults <- Numbers
    Unlimited = 9
    None = None
    Commands <- Session
    Edu <- NoStops
    HistCap = 3
    LogCap = 3
    SinkCap = 3
    MaxSpeed = 4
    MaxDrops = 2
    MaxTicks = 3
    MaxRuns = 2
INVARIANTS
    SessionInv
    NoticesShown
    SamplesAddUp
PROPERTY
    AutoEnds
CHECK_DEADLOCK FALSE
