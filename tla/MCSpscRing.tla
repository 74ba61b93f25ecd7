---------------------------- MODULE MCSpscRing -----------------------------
(* SpscRing for TLC: a ring of two slots whose counters wrap at four, the  *)
(* smallest word the capacity allows, and enough messages to wrap both.    *)
EXTENDS SpscRing
=============================================================================
