----------------------------- MODULE WorkerPool -----------------------------
(***************************************************************************)
(* WorkerPoolScheduler of crates/flyby/src/runtime/scheduler.rs: the       *)
(* caller of run_factory spawns one thread per worker, joins them in order *)
(* and returns the first error.  A worker that fails sets the shutdown     *)
(* flag that the others look at before every step.                         *)
(*                                                                         *)
(* A worker's pipeline is seen through the results of factory, init,       *)
(* step_outcome and shutdown; each of them returns (RuntimeDriver shows    *)
(* when step_outcome does).  Steps that end in Progress, Idle or           *)
(* BackPressured change nothing here.                                      *)
(***************************************************************************)
EXTENDS Naturals, Sequences

CONSTANTS
    NumWorkers,   \* config.workers
    MaxRuns       \* bound: calls of run_factory on the same scheduler

ASSUME WorkersAssumption == NumWorkers \in Nat \ {0} /\ MaxRuns \in Nat

Workers == 1 .. NumWorkers

VARIABLES
    shutdown,    \* the shared AtomicBool
    errors,      \* the errors pushed under the mutex: the workers, in order
    wpc,         \* where every worker thread is
    ended,       \* how the worker's loop ended
    open,        \* has the worker's pipeline been initialized and not shut down?
    mpc,         \* where run_factory is
    next,        \* the worker run_factory spawns or joins next
    result,      \* what the last run_factory returned
    calls,       \* run_factory calls so far
    requested,   \* history: has anyone called request_shutdown?
    stale        \* history: was the flag set before the call of run_factory began?

vars == <<shutdown, errors, wpc, ended, open, mpc, next, result, calls, requested,
          stale>>

(* A thread that does not exist: not spawned yet, or it has returned.      *)
Gone(w) == wpc[w] \in {"none", "gone"}

Init ==
    /\ shutdown = FALSE /\ errors = <<>>
    /\ wpc = [w \in Workers |-> "none"] /\ ended = [w \in Workers |-> "no"]
    /\ open = [w \in Workers |-> FALSE]
    /\ mpc = "idle" /\ next = 1 /\ result = "none" /\ calls = 0
    /\ requested = FALSE /\ stale = FALSE

-----------------------------------------------------------------------------
(* run_factory.  The flag keeps its value from one call to the next.  A    *)
(* call while threads of an earlier one are still there is left out.       *)
RunFactory ==
    /\ mpc = "idle" /\ calls < MaxRuns
    /\ \A w \in Workers : Gone(w)
    /\ mpc' = "spawn" /\ next' = 1 /\ calls' = calls + 1
    /\ result' = "none" /\ errors' = <<>>
    /\ wpc' = [w \in Workers |-> "none"] /\ ended' = [w \in Workers |-> "no"]
    /\ open' = [w \in Workers |-> FALSE]
    /\ stale' = shutdown
    /\ UNCHANGED <<shutdown, requested>>

Spawn ==
    /\ mpc = "spawn"
    /\ wpc' = [wpc EXCEPT ![next] = "factory"]
    /\ IF next = NumWorkers
         THEN mpc' = "join" /\ next' = 1
         ELSE next' = next + 1 /\ UNCHANGED mpc
    /\ UNCHANGED <<shutdown, errors, ended, open, result, calls, requested, stale>>

(* The operating system refuses a thread: run_factory returns at once, and *)
(* the handles of the threads it has spawned are dropped.                  *)
SpawnFails ==
    /\ mpc = "spawn"
    /\ mpc' = "idle" /\ result' = "SpawnErr"
    /\ UNCHANGED <<shutdown, errors, wpc, ended, open, next, calls, requested, stale>>

(* Mutant: the thread is not waited for.                                   *)
JoinDoesNotWait ==
    /\ mpc = "join"
    /\ IF next = NumWorkers
         THEN mpc' = "collect" /\ UNCHANGED next
         ELSE next' = next + 1 /\ UNCHANGED mpc
    /\ UNCHANGED <<shutdown, errors, wpc, ended, open, result, calls, requested, stale>>

(* join returns for a thread that ended and for one that panicked alike.   *)
Join ==
    /\ mpc = "join"
    /\ wpc[next] = "gone"
    /\ IF next = NumWorkers
         THEN mpc' = "collect" /\ UNCHANGED next
         ELSE next' = next + 1 /\ UNCHANGED mpc
    /\ UNCHANGED <<shutdown, errors, wpc, ended, open, result, calls, requested, stale>>

Collect ==
    /\ mpc = "collect"
    /\ mpc' = "idle" /\ result' = IF errors = <<>> THEN "Ok" ELSE "Err"
    /\ UNCHANGED <<shutdown, errors, wpc, ended, open, next, calls, requested, stale>>

(* request_shutdown, or a store through shutdown_handle(), on any thread.  *)
RequestShutdown ==
    /\ shutdown' = TRUE /\ requested' = TRUE
    /\ UNCHANGED <<errors, wpc, ended, open, mpc, next, result, calls, stale>>

-----------------------------------------------------------------------------
(* A worker thread                                                         *)

Goto(w, from, to) == wpc[w] = from /\ wpc' = [wpc EXCEPT ![w] = to]

(* A call of the pipeline or of the factory fails: the rest of the closure *)
(* is skipped, pipeline.shutdown() included.                               *)
Fails(w, from) ==
    /\ Goto(w, from, "record")
    /\ ended' = [ended EXCEPT ![w] = "error"]
    /\ UNCHANGED open

Factory(w) ==
    /\ \/ Goto(w, "factory", "init") /\ UNCHANGED <<ended, open>>
       \/ Fails(w, "factory")
    /\ UNCHANGED <<shutdown, errors, mpc, next, result, calls, requested, stale>>

InitPipeline(w) ==
    /\ \/ Goto(w, "init", "run") /\ open' = [open EXCEPT ![w] = TRUE] /\ UNCHANGED ended
       \/ Fails(w, "init")
    /\ UNCHANGED <<shutdown, errors, mpc, next, result, calls, requested, stale>>

(* run_single_thread leaves its loop because of the flag ...               *)
Stops(w) ==
    /\ shutdown
    /\ Goto(w, "run", "close")
    /\ ended' = [ended EXCEPT ![w] = "stopped"]
    /\ UNCHANGED <<shutdown, errors, open, mpc, next, result, calls, requested, stale>>

(* ... or after a step that ends in Exhausted or in an error; the flag was *)
(* read before the step and may have been set since.                       *)
Step(w) ==
    /\ \/ Goto(w, "run", "close") /\ ended' = [ended EXCEPT ![w] = "exhausted"] /\ UNCHANGED open
       \/ Fails(w, "run")
    /\ UNCHANGED <<shutdown, errors, mpc, next, result, calls, requested, stale>>

(* pipeline.shutdown().                                                    *)
Close(w) ==
    /\ open' = [open EXCEPT ![w] = FALSE]
    /\ \/ Goto(w, "close", "gone") /\ UNCHANGED ended
       \/ Goto(w, "close", "record") /\ ended' = [ended EXCEPT ![w] = "error"]
    /\ UNCHANGED <<shutdown, errors, mpc, next, result, calls, requested, stale>>

(* Mutant: the error is lost.                                              *)
RecordNothing(w) ==
    /\ Goto(w, "record", "flag")
    /\ UNCHANGED <<shutdown, errors, ended, open, mpc, next, result, calls, requested, stale>>

(* The worker pushes its error under the mutex, then sets the flag.        *)
Record(w) ==
    /\ Goto(w, "record", "flag")
    /\ errors' = Append(errors, w)
    /\ UNCHANGED <<shutdown, ended, open, mpc, next, result, calls, requested, stale>>

(* Mutant: the other workers are not told.                                 *)
SetFlagForgotten(w) ==
    /\ Goto(w, "flag", "gone")
    /\ UNCHANGED <<shutdown, errors, ended, open, mpc, next, result, calls, requested, stale>>

SetFlag(w) ==
    /\ Goto(w, "flag", "gone")
    /\ shutdown' = TRUE
    /\ UNCHANGED <<errors, ended, open, mpc, next, result, calls, requested, stale>>

(* A call into user code panics: the thread ends, and nobody is told.      *)
Panics(w) ==
    /\ wpc[w] \in {"factory", "init", "run", "close"}
    /\ wpc' = [wpc EXCEPT ![w] = "gone"]
    /\ ended' = [ended EXCEPT ![w] = "panic"]
    /\ UNCHANGED <<shutdown, errors, open, mpc, next, result, calls, requested, stale>>

-----------------------------------------------------------------------------
MainNext == Spawn \/ SpawnFails \/ Join \/ Collect

(* What a worker does of itself; that its source ends is not among it.     *)
WorkerGoesOn(w) ==
    Factory(w) \/ InitPipeline(w) \/ Stops(w) \/ Close(w) \/ Record(w) \/ SetFlag(w)

Next ==
    \/ RunFactory \/ MainNext \/ RequestShutdown
    \/ \E w \in Workers : WorkerGoesOn(w) \/ Step(w) \/ Panics(w)

Spec == Init /\ [][Next]_vars

(* Every thread is scheduled; no source need ever end.                     *)
FairSpec == Spec /\ WF_vars(MainNext) /\ \A w \in Workers : WF_vars(WorkerGoesOn(w))

-----------------------------------------------------------------------------
(* Properties                                                              *)

(* The types of the shared state, the threads and the caller.              *)
TypeOK ==
    /\ shutdown \in BOOLEAN /\ requested \in BOOLEAN /\ stale \in BOOLEAN
    /\ errors \in Seq(Workers)
    /\ wpc \in [Workers -> {"none", "factory", "init", "run", "close", "record", "flag", "gone"}]
    /\ ended \in [Workers -> {"no", "exhausted", "stopped", "error", "panic"}]
    /\ open \in [Workers -> BOOLEAN]
    /\ mpc \in {"idle", "spawn", "join", "collect"} /\ next \in Workers
    /\ result \in {"none", "Ok", "Err", "SpawnErr"} /\ calls \in 0 .. MaxRuns

(* How far a worker is and how its loop has ended, with what is left of it *)
(* when its thread is gone: a closed pipeline, or an error in the list.    *)
WorkerAccount(w) ==
    /\ wpc[w] \in {"none", "factory", "init", "run"} => ended[w] = "no"
    /\ wpc[w] = "close" => ended[w] \in {"exhausted", "stopped"}
    /\ wpc[w] \in {"record", "flag"} => ended[w] = "error"
    /\ wpc[w] = "gone" => ended[w] # "no"
    /\ wpc[w] = "gone" /\ ended[w] \in {"exhausted", "stopped"} => ~open[w]
    /\ wpc[w] \in {"flag", "gone"} /\ ended[w] = "error" => errors # <<>>
    /\ ended[w] = "stopped" => shutdown

(* The threads run_factory has not spawned are not there, and those it has *)
(* joined are gone; it looks at the errors when no thread can add one, and *)
(* unless a spawn failed no thread outlives it.                            *)
CallerAccount ==
    /\ mpc # "idle" => result = "none"
    /\ mpc = "spawn" => \A w \in Workers : w >= next => wpc[w] = "none"
    /\ mpc = "join" => \A w \in Workers : w < next => wpc[w] = "gone"
    /\ mpc = "collect" \/ result \in {"Ok", "Err"} => \A w \in Workers : wpc[w] = "gone"
    /\ result = "Ok" => errors = <<>>

(* Whoever set the flag: the owner, an earlier call, or a worker that has  *)
(* pushed its error before.                                                *)
FlagExplained == shutdown => requested \/ stale \/ errors # <<>>

(* The inductive invariant: the caller, its workers and the flag between   *)
(* any two of their steps.                                                 *)
PoolInv ==
    /\ TypeOK
    /\ \A w \in Workers : WorkerAccount(w)
    /\ CallerAccount
    /\ FlagExplained

(* run_factory answers Ok only when every worker ran its source to the end *)
(* and closed its pipeline, or somebody asked for a shutdown ("runs until  *)
(* exhausted/shutdown", crates/flyby/src/runtime/scheduler.rs), or an      *)
(* earlier call has left the flag set; only a worker that panicked escapes *)
(* it.                                                                     *)
OkMeansComplete ==
    result = "Ok" => \A w \in Workers :
        \/ ended[w] = "panic"
        \/ /\ ended[w] \in {"exhausted", "stopped"} /\ ~open[w]
           /\ ended[w] = "stopped" => requested \/ stale

(* "callers use run_factory which joins internally"                        *)
(* (crates/flyby/src/runtime/scheduler.rs): whatever run_factory returned, *)
(* its threads are gone.                                                   *)
NoThreadOutlivesCall == mpc = "idle" => \A w \in Workers : Gone(w)

(* One failing worker stops the pool: run_factory returns and every thread *)
(* ends although the sources of the others never do.                       *)
FailureStopsPool ==
    \A w \in Workers :
        wpc[w] = "record" ~> mpc = "idle" /\ \A v \in Workers : Gone(v)
=============================================================================
