CONSTANTS
    s1 = s1
    s2 = s2
    SlotCount = 1
    NumFrames = 3
    Kinds = {"msg", "skip", "bad", "oversized"}
    PollMax = 2
    Sinks = {s1, s2}
    RouteSinks <- TwoSinks
    Configs <- AllStrategies
    NoSink = NoSink
    Unlimited = Unlimited
    RetryMod = 3
    Faulty = TRUE
    FailedReinit = FALSE
SPECIFICATION PipelineSpec
INVARIANTS
    PipelineInv
    FramesAccountedFor
    PerSinkOrder
    RefusedOnlyWhenFull
