-------------------------- MODULE MCVirtualStorage --------------------------
(* VirtualStorage for TLC: files of up to three records of one byte, which *)
(* is the timestamp as well, a batch of the caller that is too small, and  *)
(* every replay mode.                                                      *)
EXTENDS VirtualStorage

OneByte == {[kind |-> "fixed", recordLen |-> 1]}
MCBytes == {0, 2}
MCPolicies == {"Stop", "Loop"}
MCFaultPolicies == {{"drop"}, {"corrupt", "spike"}}

MCModes ==
    { [name |-> "FullSpeed"], [name |-> "SingleStep"],
      [name |-> "TimeScaled", num |-> 3, den |-> 2],
      [name |-> "Burst", count |-> 1, gap |-> 2],
      [name |-> "Burst", count |-> 0, gap |-> 2] }
=============================================================================
