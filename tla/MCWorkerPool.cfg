CONSTANTS
    NumWorkers = 3
    MaxRuns = 2
SPECIFICATION FairSpec
INVARIANTS
    PoolInv
    OkMeansComplete
PROPERTY
    FailureStopsPool
