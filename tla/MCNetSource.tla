---------------------------- MODULE MCNetSource ----------------------------
(* NetSource for TLC: batches larger than the adapter's, frames larger     *)
(* than a slot, payloads with and without a sequence number, sequence      *)
(* numbers that wrap, and configurations that are refused.                 *)
EXTENDS NetSource

Config(batch, payload, idle, drop) ==
    [batchSize |-> batch, payloadSize |-> payload, idleRate |-> idle, dropRate |-> drop]

MCConfigs ==
    { Config(3, 2, 0, 0), Config(2, 2, 50, 50), Config(1, 0, 0, 50), Config(3, 1, 1, 0),
      Config(0, 2, 0, 0), Config(1, 2, 100, 0), Config(1, 2, 0, -1) }

MCBatchSizes == {0, 3}
=============================================================================
