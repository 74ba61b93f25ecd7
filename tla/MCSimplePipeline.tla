-------------------------- MODULE MCSimplePipeline --------------------------
(* SimplePipeline for TLC: two sinks of one slot each, so that every       *)
(* strategy meets a full sink, and frames of every kind.                   *)
EXTENDS SimplePipeline

CONSTANTS s1, s2

TwoSinks == <<s1, s2>>

Settings(strategies, budgets, overflow, size, placements) ==
    [backpressure : strategies, backpressureRetries : budgets, overflowSink : overflow,
     batchSize : {size}, placement : placements]

(* Every way the pipeline treats a full sink.                              *)
AllStrategies ==
    Settings({"Block"}, {1, Unlimited}, {NoSink}, 2, {"round_robin", "hash"})
      \cup Settings({"Spin"}, {Unlimited}, {NoSink}, 2, {"fixed"})
      \cup Settings({"AdaptiveBatching"}, {0}, {NoSink}, 2, {"round_robin"})
      \cup Settings({"DropNewest", "DropOldest"}, {1}, {NoSink}, 2, {"hash"})
      \cup Settings({"Overflow"}, {1}, {NoSink, s2}, 2, {"round_robin", "hash"})

(* Batches smaller than what the source returns; not among the above.      *)
SmallBatch == Settings({"Block"}, {1}, {NoSink}, 1, {"round_robin"})
=============================================================================
