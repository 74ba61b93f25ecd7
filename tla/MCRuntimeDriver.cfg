CONSTANTS
    s1 = s1
    s2 = s2
    SlotCount = 1
    NumFrames = 3
    Kinds = {"msg", "bad"}
    PollMax = 2
    Sinks = {s1, s2}
    RouteSinks <- TwoSinks
    Configs <- Retrying
    NoSink = NoSink
    Unlimited = Unlimited
    RetryMod = 3
    Faulty = TRUE
    FailedReinit = TRUE
    Calls = {"validate", "initialize", "run", "shutdown_pipeline", "cleanup"}
    MaxRuns = 1
SPECIFICATION FairSpec
INVARIANTS
    DriverInv
    DrainingMeansDone
PROPERTIES
    BudgetHeedsShutdown
    RunCompletes
