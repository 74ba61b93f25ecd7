-------------------------- MODULE MCRuntimeDriver --------------------------
(* RuntimeDriver for TLC: a source of three frames and two sinks of one    *)
(* slot, so that the third frame meets a full sink.                        *)
EXTENDS RuntimeDriver

CONSTANTS s1, s2

TwoSinks == <<s1, s2>>

Settings(strategies, budgets) ==
    [backpressure : strategies, backpressureRetries : budgets, overflowSink : {NoSink},
     batchSize : {2}, placement : {"round_robin"}]

Retrying == Settings({"Block"}, {1, RetryMod - 1, Unlimited})
Endless == Settings({"Block"}, {Unlimited})
=============================================================================
