---------------------------- MODULE MCFileSource ----------------------------
EXTENDS FileSource

(* Records of two bytes; one-byte and two-byte prefixes with at most one   *)
(* byte of payload; records up to a 1, one byte longer than a slot at most;*)
(* and a closure that breaks the contract of Frame.                        *)
MCFramers ==
    { [kind |-> "fixed", recordLen |-> 2],
      [kind |-> "prefixed", width |-> 1, maxPayload |-> 1],
      [kind |-> "prefixed", width |-> 2, maxPayload |-> 1],
      [kind |-> "delimited", byte |-> 1, maxLen |-> 4],
      [kind |-> "custom"] }

MCBytes == 0 .. 2
MCPolicies == {"Stop", "Loop", "Follow"}
=============================================================================
