---------------------------- MODULE PacketLedger ----------------------------
(***************************************************************************)
(* What a packet source promises whoever drives it, however it batches:    *)
(* packets come into being one after the other, and each of them is either *)
(* handed over, in order, or entered in the account of drops ("FlyBy never *)
(* silently drops", crates/flyby-net/src/source.rs).                       *)
(***************************************************************************)
EXTENDS Naturals, Sequences

VARIABLES
    made,      \* packets so far
    taken,     \* the numbers of those that were handed over, in order
    refused    \* how many were accounted as dropped

ledger == <<made, taken, refused>>

Init == made = 0 /\ taken = <<>> /\ refused = 0

HandOver == made' = made + 1 /\ taken' = Append(taken, made) /\ UNCHANGED refused

Refuse == made' = made + 1 /\ refused' = refused + 1 /\ UNCHANGED taken

Next == HandOver \/ Refuse

Spec == Init /\ [][Next]_ledger
=============================================================================
