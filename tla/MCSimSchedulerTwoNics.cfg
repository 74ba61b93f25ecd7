SPECIFICATION Spec
CONSTANTS
    NsPerSecond = 12
    NsPerMicro = 2
    WordBase = 4
    UnitNs <- Units
    Defaults <- Numbers
    Unlimited = 9
    None = None
    Commands <- TwoSources
    Edu <- NoStops
    MaxDrops = 4
    MaxTicks = 2
    MaxRuns = 1
INVARIANT PacketsAccountedFor
CHECK_DEADLOCK FALSE
