------------------------------- MODULE Faults -------------------------------
(***************************************************************************)
(* FaultInjector of simulator/src/fault.rs: what may become of a packet or *)
(* a record.  A policy is the set of the faults whose rate is not zero;    *)
(* which packets a fault hits is left open, so the state of the generator  *)
(* is left out.                                                            *)
(***************************************************************************)

(* A fault drops the packet, or leaves it with any of the others.          *)
Fates(kinds) ==
    (IF "drop" \in kinds THEN {{"drop"}} ELSE {}) \cup SUBSET (kinds \ {"drop"})
=============================================================================
