---------------------------- MODULE MCWorkerPool ----------------------------
(* WorkerPool for TLC: three workers, so that one fails while another is   *)
(* running and a third is not spawned yet.                                 *)
EXTENDS WorkerPool
=============================================================================
