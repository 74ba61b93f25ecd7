--------------------------- MODULE RuntimeDriver ---------------------------
(***************************************************************************)
(* Runtime of crates/flyby/src/runtime/driver.rs: it owns a pipeline and   *)
(* takes it through the phases                                             *)
(*   Built, Validated, Initialized, Running, Draining, Shutdown, CleanedUp *)
(* One thread calls the methods of Runtime; any thread may set the shared  *)
(* shutdown flag at any time, and the consumers of the sinks run beside.   *)
(*                                                                         *)
(* The pipeline is the one of SimplePipeline.  run() is split at each look *)
(* at the flag and wherever the pipeline's own step is split.              *)
(***************************************************************************)
EXTENDS SimplePipeline

CONSTANTS
    Calls,      \* methods of Runtime the owner uses
    MaxRuns     \* bound: times the owner calls run()

ASSUME DriverAssumption ==
    /\ Calls \subseteq {"validate", "initialize", "run", "shutdown_pipeline", "cleanup"}
    /\ MaxRuns \in Nat

VARIABLES
    phase,        \* RuntimePhase, by its ordinal
    shutdown,     \* the shared AtomicBool
    dpc,          \* "user": no run() in progress; otherwise where run() is
    runs,         \* run() calls so far
    runResult     \* result of the last run()

driverVars == <<phase, shutdown, dpc, runs, runResult>>
vars == <<pipelineVars, driverVars>>

(* RuntimePhase::as_u8.                                                    *)
Built == 0
Validated == 1
Initialized == 2
Running == 3
Draining == 4
Shutdown == 5
CleanedUp == 6

(* Runtime::build, around a pipeline whose sinks are not yet registered.   *)
Init ==
    /\ PipelineInit
    /\ phase = Built /\ shutdown = FALSE
    /\ dpc = "user" /\ runs = 0 /\ runResult = "none"

-----------------------------------------------------------------------------
(* Methods other than run                                                  *)

(* pipeline_mut().register_sink(...)                                       *)
Register(s) ==
    /\ dpc = "user" /\ RegisterSink(s)
    /\ UNCHANGED driverVars

Validate ==
    /\ dpc = "user" /\ pc = "idle" /\ "validate" \in Calls
    /\ phase' = Validated
    /\ UNCHANGED <<pipelineVars, shutdown, dpc, runs, runResult>>

(* initialize: validates first when nobody has; the phase advances only    *)
(* when the pipeline's init succeeds.                                      *)
PhaseValidated == IF phase < Validated THEN Validated ELSE phase

Initialize ==
    /\ dpc = "user" /\ "initialize" \in Calls
    /\ \/ InitCall /\ phase' = Initialized
       \/ InitFails /\ phase' = PhaseValidated
    /\ UNCHANGED <<shutdown, dpc, runs, runResult>>

(* shutdown_pipeline enters the phase before it knows whether the pipeline *)
(* shuts down well.                                                        *)
ShutdownPipeline ==
    /\ dpc = "user" /\ "shutdown_pipeline" \in Calls
    /\ ShutdownCall /\ phase' = Shutdown
    /\ UNCHANGED <<shutdown, dpc, runs, runResult>>

Cleanup ==
    /\ dpc = "user" /\ pc = "idle" /\ "cleanup" \in Calls
    /\ phase' = CleanedUp
    /\ UNCHANGED <<pipelineVars, shutdown, dpc, runs, runResult>>

(* request_shutdown, or a store through shutdown_handle(), on any thread.  *)
RequestShutdown ==
    /\ ~shutdown /\ shutdown' = TRUE
    /\ UNCHANGED <<pipelineVars, phase, dpc, runs, runResult>>

-----------------------------------------------------------------------------
(* run                                                                     *)

(* run returns r to the owner.                                             *)
RunReturns(r) == dpc' = "user" /\ runResult' = r

(* The start of run: initialize unless the phase says it has been done.    *)
RunBegin ==
    /\ dpc = "user" /\ pc = "idle" /\ "run" \in Calls
    /\ runs < MaxRuns /\ runs' = runs + 1
    /\ \/ /\ phase < Initialized
          /\ InitFails /\ phase' = PhaseValidated
          /\ RunReturns("Err")
       \/ /\ phase < Initialized
          /\ InitCall /\ phase' = Running
          /\ dpc' = "loop" /\ runResult' = "none"
       \/ /\ phase >= Initialized
          /\ UNCHANGED pipelineVars /\ phase' = Running
          /\ dpc' = "loop" /\ runResult' = "none"
    /\ UNCHANGED shutdown

(* Mutant: the loop does not look at the flag.                             *)
LoopHeadIgnoresFlag ==
    /\ dpc = "loop" /\ dpc' = "step" /\ StepBegin
    /\ UNCHANGED <<phase, shutdown, runs, runResult>>

(* The head of the loop: leave if the flag is set, else begin a step.      *)
LoopHead ==
    /\ dpc = "loop"
    /\ \/ shutdown /\ dpc' = "stop" /\ UNCHANGED pipelineVars
       \/ ~shutdown /\ dpc' = "step" /\ StepBegin
    /\ UNCHANGED <<phase, shutdown, runs, runResult>>

(* The pipeline's step_outcome goes on.                                    *)
StepGoesOn ==
    /\ dpc = "step" /\ StepContinues
    /\ UNCHANGED driverVars

(* step_outcome has returned.  An error leaves run at once, without a      *)
(* change of phase and without shutting the pipeline down.                 *)
StepReturned ==
    /\ dpc = "step" /\ pc = "idle"
    /\ \/ /\ outcome \in {"Err", "LifecycleErr"}
          /\ RunReturns("Err") /\ UNCHANGED phase
       \/ /\ outcome = "Exhausted"
          /\ phase' = Draining /\ dpc' = "stop" /\ UNCHANGED runResult
       \/ /\ outcome \in {"Progress", "Idle", "BackPressured"}
          /\ dpc' = "loop" /\ UNCHANGED <<phase, runResult>>
    /\ UNCHANGED <<pipelineVars, shutdown, runs>>

(* The end of run: shutdown_pipeline and, when it succeeds, cleanup.       *)
RunEnd ==
    /\ dpc = "stop"
    /\ ShutdownCall
    /\ phase' = IF outcome' = "Ok" THEN CleanedUp ELSE Shutdown
    /\ RunReturns(outcome')
    /\ UNCHANGED <<shutdown, runs>>

-----------------------------------------------------------------------------
Consume(s) == ConsumerPop(s) /\ UNCHANGED driverVars

RunContinues == LoopHead \/ StepGoesOn \/ StepReturned \/ RunEnd

Next ==
    \/ \E s \in Sinks : Register(s) \/ Consume(s)
    \/ Validate \/ Initialize \/ ShutdownPipeline \/ Cleanup \/ RequestShutdown
    \/ RunBegin \/ RunContinues

Spec == Init /\ [][Next]_vars

(* The thread inside run is scheduled again and again.                     *)
FairSpec == Spec /\ WF_vars(RunContinues)

(* What the surroundings may promise: consumers keep reading, a source     *)
(* with frames left delivers them sooner or later however often it is      *)
(* idle, and a finite source that is polled past its end notices.          *)
Delivers == dpc = "step" /\ PollDelivers /\ UNCHANGED driverVars
NoticesEnd == dpc = "step" /\ PollEmpty /\ exhausted' /\ UNCHANGED driverVars

GoodSurroundings ==
    /\ \A s \in Sinks : WF_vars(Consume(s))
    /\ SF_vars(Delivers) /\ SF_vars(NoticesEnd)

-----------------------------------------------------------------------------
(* Properties                                                              *)

(* The types of the Runtime and of the pipeline it owns.                   *)
DriverTypeOK ==
    /\ TypeOK
    /\ phase \in Built .. CleanedUp /\ shutdown \in BOOLEAN
    /\ dpc \in {"user", "loop", "step", "stop"}
    /\ runs \in 0 .. MaxRuns /\ runResult \in {"none", "Ok", "Err"}

(* run() works on a pipeline that has been initialized: "validate -> init  *)
(* -> run" (docs/src/runtime.md).  It relies on the phase alone to know.   *)
RunStartsInitialized == dpc \in {"loop", "step"} => initialized

(* A Runtime in phase Shutdown holds no initialized pipeline whichever way *)
(* it got there, an error of the pipeline's shutdown included.             *)
StoppedMeansReleased == phase = Shutdown => ~initialized

(* A step is in progress only inside run(), and only a run() that is about *)
(* to end is in phase Draining.  The end of the source is not noticed      *)
(* before its last frame.                                                  *)
StepInsideRun ==
    /\ dpc # "step" => pc = "idle"
    /\ phase = Draining => dpc = "stop"
    /\ exhausted => nextFrame = NumFrames + 1

(* A step answers Exhausted, and Draining is entered, only when every      *)
(* frame the source had was accepted, dropped on purpose or filtered out:  *)
(* exhaustion of the source never overtakes the frames of the last batch.  *)
DrainingMeansDone ==
    phase = Draining \/ (dpc = "step" /\ pc = "idle" /\ outcome = "Exhausted") =>
        \A f \in Frames : Settled(f)

(* run() returns once a shutdown is requested, although no consumer may    *)
(* ever read again: "until success, retry budget, or shutdown"             *)
(* (crates/flyby/src/runtime/backpressure.rs).                             *)
ShutdownHeeded == shutdown /\ dpc # "user" ~> dpc = "user"

(* The same when a step gives up after a number of retries.  The largest   *)
(* budget of the type is as good as none: the u32 that counts the retries  *)
(* never exceeds it.                                                       *)
BudgetHeedsShutdown ==
    config.backpressureRetries \in 0 .. RetryMod - 2 => ShutdownHeeded

(* With every sink of the placement registered, a strategy that retries    *)
(* gets every good frame through while the consumers keep reading: neither *)
(* the re-routing of a frame under back-pressure nor an idle source        *)
(* starves a frame.                                                        *)
EveryFrameSettled ==
    \A f \in Frames :
        dpc = "loop" /\ registered = Sinks ~> shutdown \/ Settled(f) \/ runResult = "Err"

(* run() of a finite source settles every frame and returns by itself.     *)
RunCompletes ==
    GoodSurroundings => EveryFrameSettled /\ (dpc # "user" ~> dpc = "user")

(* The phase, the call in progress and the pipeline.                       *)
DriverInv == DriverTypeOK /\ StoppedMeansReleased /\ StepInsideRun
=============================================================================
