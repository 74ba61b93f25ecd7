--------------------------- MODULE SimplePipeline ---------------------------
(***************************************************************************)
(* The pipeline of crates/flyby/src/pipeline.rs: source -> decode ->       *)
(* preprocess -> place -> sink, with the batch of pending frames and the   *)
(* back-pressure strategies.                                               *)
(*                                                                         *)
(* The pipeline runs on one thread.  The consumers of the sinks run beside *)
(* it, so step_outcome is split where the pipeline looks at a sink: every  *)
(* attempt to write, to the target or to the overflow sink, is an action   *)
(* of its own, and consumers may make room between two attempts.           *)
(*                                                                         *)
(* Frames are the numbers 1 .. NumFrames in source order.  What the stages *)
(* make of a frame is its kind, chosen once:                               *)
(*   "msg"        decodes to a message every sink accepts when it has room *)
(*   "skip"       the decoder or the preprocessor answers None, or the     *)
(*                placement routes the message to SinkId::NONE             *)
(*   "bad"        the decoder or the preprocessor fails                    *)
(*   "oversized", "misencoded"   the sink refuses the message for good     *)
(* Frames are numbered as the source hands them over: what a source loses  *)
(* in a failing poll never becomes a frame of the pipeline.                *)
(* The counter backpressure_events is written and never read by the        *)
(* pipeline; it is left out.                                               *)
(***************************************************************************)
EXTENDS SharedMemorySink, FiniteSets

CONSTANTS
    NumFrames,     \* frames the source will deliver after an init
    Kinds,         \* kinds of frames that occur
    PollMax,       \* most frames one poll of the source returns
    Sinks,         \* sink ids that may be registered
    RouteSinks,    \* the sink list of the placement
    Configs,       \* the configurations to run under
    Unlimited,     \* backpressure_retries: None
    RetryMod,      \* the u32 retry counter wraps here (2^32 in the code)
    NoSink,        \* overflow_sink: None
    Faulty,        \* may stages fail in init, shutdown and poll?
    FailedReinit   \* may an init fail on a pipeline that is initialized?

(* What the caller fixes when it builds a pipeline: the fields of          *)
(* RuntimeConfig the pipeline reads, and the kind of placement.            *)
Config ==
    [backpressure : {"Block", "Spin", "DropNewest", "DropOldest", "Overflow", "AdaptiveBatching"},
     backpressureRetries : 0 .. RetryMod - 1 \cup {Unlimited},
     overflowSink : Sinks \cup {NoSink},
     batchSize : Nat \ {0},
     placement : {"fixed", "round_robin", "hash"}]

ASSUME PipelineAssumption ==
    /\ NumFrames \in Nat /\ PollMax \in Nat \ {0} /\ RetryMod \in Nat \ {0}
    /\ IsFiniteSet(Sinks)
    /\ RouteSinks \in Seq(Sinks) /\ RouteSinks # <<>>
    /\ Configs \subseteq Config
    /\ Unlimited \notin Nat /\ NoSink \notin Sinks
    /\ Faulty \in BOOLEAN /\ FailedReinit \in BOOLEAN

Frames == 1 .. NumFrames

VARIABLES
    config,       \* the pipeline's configuration
    kind,         \* kind of every frame
    nextFrame,    \* the next frame the source delivers
    exhausted,    \* does the source report is_exhausted?
    pending, pendingIdx, initialized,
    messagesOut, messagesDropped,
    rrNext,       \* RoundRobinPlacement.next, modulo the number of sinks
    registered,   \* ids of the registered sinks
    sinks,        \* state of every sink
    pc,           \* where step_outcome is
    refilled,     \* has this step polled the source?
    target, retries,   \* locals of write_with_backpressure
    outcome,      \* result of the last call
    accepted,     \* history since init: frames each sink has accepted, in order
    dropped,      \* history since init: frames dropped on purpose
    skipped       \* history since init: frames filtered out

inputs    == <<config, kind>>
source    == <<nextFrame, exhausted>>
batch     == <<pending, pendingIdx>>
lifecycle == <<initialized, registered>>
counters  == <<messagesOut, messagesDropped>>
callState == <<refilled, target, retries>>
fates     == <<accepted, dropped, skipped>>

pipelineVars == <<inputs, source, batch, lifecycle, counters, rrNext, sinks, pc, callState,
                  outcome, fates>>

(* SimplePipeline::new.                                                    *)
PipelineInit ==
    /\ config \in Configs
    /\ kind \in [Frames -> Kinds]
    /\ nextFrame = 1 /\ exhausted = FALSE
    /\ pending = <<>> /\ pendingIdx = 0 /\ initialized = FALSE
    /\ messagesOut = 0 /\ messagesDropped = 0
    /\ rrNext = 0
    /\ registered = {} /\ sinks = [s \in Sinks |-> NewSink]
    /\ pc = "idle" /\ refilled = FALSE /\ target = NoSink /\ retries = 0
    /\ outcome = "none"
    /\ accepted = [s \in Sinks |-> <<>>] /\ dropped = {} /\ skipped = {}

-----------------------------------------------------------------------------
(* Lifecycle                                                               *)

(* Pipeline::register_sink refuses a pipeline that is initialized and an   *)
(* id that is taken.                                                       *)
RegisterSink(s) ==
    /\ pc = "idle"
    /\ IF initialized \/ s \in registered
         THEN outcome' = "Err" /\ UNCHANGED registered
         ELSE outcome' = "Ok" /\ registered' = registered \cup {s}
    /\ UNCHANGED <<inputs, source, batch, counters, callState, fates, initialized, rrNext,
                   sinks, pc>>

(* Mutant: frames of the earlier session stay pending.                     *)
InitCallKeepsPending ==
    /\ pc = "idle"
    /\ registered # {}
    /\ nextFrame' = 1 /\ exhausted' = FALSE
    /\ sinks' = [s \in Sinks |-> IF s \in registered THEN ResetRing(sinks[s]) ELSE sinks[s]]
    /\ messagesOut' = 0 /\ messagesDropped' = 0
    /\ initialized' = TRUE
    /\ outcome' = "Ok"
    /\ accepted' = [s \in Sinks |-> <<>>] /\ dropped' = {} /\ skipped' = {}
    /\ UNCHANGED <<inputs, batch, callState, rrNext, registered, pc>>

(* Lifecycle::init.  The source starts again at its first frame, and each  *)
(* sink discards what its consumers have not read.                         *)
InitCall ==
    /\ pc = "idle"
    /\ registered # {}
    /\ nextFrame' = 1 /\ exhausted' = FALSE
    /\ sinks' = [s \in Sinks |-> IF s \in registered THEN ResetRing(sinks[s]) ELSE sinks[s]]
    /\ pending' = <<>> /\ pendingIdx' = 0
    /\ messagesOut' = 0 /\ messagesDropped' = 0
    /\ initialized' = TRUE
    /\ outcome' = "Ok"
    /\ accepted' = [s \in Sinks |-> <<>>] /\ dropped' = {} /\ skipped' = {}
    /\ UNCHANGED <<inputs, callState, rrNext, registered, pc>>

(* Lifecycle::init fails: no sink is registered, or the source fails, or   *)
(* one of the sinks does: the sinks visited before it, in the order of a   *)
(* hash map, are reset; nothing else of the pipeline has changed.          *)
InitFails ==
    /\ pc = "idle"
    /\ initialized => FailedReinit
    /\ outcome' = "Err"
    /\ \/ /\ registered = {} \/ Faulty
          /\ UNCHANGED <<nextFrame, exhausted, sinks>>
       \/ \E visited \in SUBSET registered :
            /\ Faulty /\ visited # registered
            /\ nextFrame' = 1 /\ exhausted' = FALSE
            /\ sinks' = [s \in Sinks |-> IF s \in visited THEN ResetRing(sinks[s]) ELSE sinks[s]]
    /\ UNCHANGED <<inputs, batch, lifecycle, counters, callState, fates, rrNext, pc>>

(* Mutant: the first error ends the shutdown.                              *)
ShutdownCallEndsAtError ==
    /\ pc = "idle"
    /\ \/ outcome' = "Ok" /\ initialized' = FALSE /\ pending' = <<>>
       \/ Faulty /\ outcome' = "Err" /\ UNCHANGED <<initialized, pending>>
    /\ sinks' = [s \in Sinks |-> IF s \in registered THEN AfterShutdown(sinks[s]) ELSE sinks[s]]
    /\ UNCHANGED <<inputs, source, counters, callState, fates, pendingIdx, rrNext, registered, pc>>

(* Lifecycle::shutdown: every sink and the source are shut down whether or *)
(* not one of them fails, and the frames still pending are discarded.  The *)
(* first error is returned.                                                *)
ShutdownCall ==
    /\ pc = "idle"
    /\ outcome' \in IF Faulty THEN {"Ok", "Err"} ELSE {"Ok"}
    /\ sinks' = [s \in Sinks |-> IF s \in registered THEN AfterShutdown(sinks[s]) ELSE sinks[s]]
    /\ initialized' = FALSE
    /\ pending' = <<>>
    /\ UNCHANGED <<inputs, source, counters, callState, fates, pendingIdx, rrNext, registered,
                   pc>>

-----------------------------------------------------------------------------
(* step_outcome                                                            *)

(* Return r from step_outcome.                                             *)
Return(r) == pc' = "idle" /\ outcome' = r

(* ensure_init, at the start of every step.                                *)
StepBegin ==
    /\ pc = "idle"
    /\ IF initialized
         THEN pc' = "drain" /\ UNCHANGED outcome
         ELSE Return("LifecycleErr")
    /\ refilled' = FALSE
    /\ UNCHANGED <<inputs, source, batch, lifecycle, counters, fates, rrNext, sinks, target,
                   retries>>

(* The frame at pending_idx.                                               *)
CurrentFrame == pending[pendingIdx + 1]
HavePending == pendingIdx < Len(pending)

(* Placement::route.  A HashPlacement sends a frame to the same sink every *)
(* time it is asked.  DropAllPlacement makes every frame one to skip.      *)
Route(f) ==
    LET key == CASE config.placement = "fixed"       -> 0
                 [] config.placement = "round_robin" -> rrNext
                 [] config.placement = "hash"        -> f
    IN  RouteSinks[(key % Len(RouteSinks)) + 1]

(* RoundRobinPlacement advances its cursor on every call of route.         *)
AfterRoute == IF config.placement = "round_robin" THEN (rrNext + 1) % Len(RouteSinks) ELSE rrNext

(* process_one_frame, up to the write: decode, preprocess, route.          *)
ProcessFrame ==
    /\ pc = "drain" /\ HavePending
    /\ \/ /\ kind[CurrentFrame] = "skip"
          /\ pendingIdx' = pendingIdx + 1
          /\ skipped' = skipped \cup {CurrentFrame}
          /\ UNCHANGED <<pc, outcome, rrNext, target, retries>>
       \/ /\ kind[CurrentFrame] = "bad"
          /\ Return("Err")
          /\ UNCHANGED <<pendingIdx, skipped, rrNext, target, retries>>
       \/ /\ kind[CurrentFrame] \notin {"skip", "bad"}
          /\ pc' = "write"
          /\ target' = Route(CurrentFrame)
          /\ rrNext' = AfterRoute
          /\ retries' = 0
          /\ UNCHANGED <<pendingIdx, skipped, outcome>>
    /\ UNCHANGED <<inputs, source, lifecycle, counters, pending, sinks, refilled, accepted,
                   dropped>>

(* Mutant: the end of the source is noticed before the pending frames are  *)
(* used up.                                                                *)
ExhaustedTooEarly ==
    /\ pc = "drain" /\ ~refilled
    /\ exhausted
    /\ Return("Exhausted")
    /\ UNCHANGED <<inputs, source, batch, lifecycle, counters, callState, fates, rrNext, sinks>>

(* The pending frames are used up and the source is at its end.            *)
DrainedExhausted ==
    /\ pc = "drain" /\ ~HavePending /\ ~refilled
    /\ exhausted
    /\ Return("Exhausted")
    /\ UNCHANGED <<inputs, source, batch, lifecycle, counters, callState, fates, rrNext, sinks>>

(* The frames a poll that returns n frames leaves in pending: at most      *)
(* batch_size of them.                                                     *)
Truncated(n) ==
    [i \in 1 .. (IF n > config.batchSize THEN config.batchSize ELSE n) |-> nextFrame + i - 1]

(* refill_pending, once per step.  A source may notice its end with the    *)
(* last frame, with an empty poll after it, or never (a network source).   *)
RefillPending(n) ==
    /\ pc = "drain" /\ ~HavePending /\ ~refilled
    /\ ~exhausted
    /\ nextFrame + n <= NumFrames + 1
    /\ pending' = Truncated(n) /\ pendingIdx' = 0
    /\ nextFrame' = nextFrame + n
    /\ exhausted' \in {FALSE, nextFrame + n > NumFrames}
    /\ UNCHANGED <<inputs, lifecycle, counters, fates, rrNext, sinks, target, retries>>

PollDelivers ==
    /\ \E n \in 1 .. PollMax : RefillPending(n)
    /\ refilled' = TRUE
    /\ UNCHANGED <<pc, outcome>>

PollEmpty ==
    /\ RefillPending(0)
    /\ Return(IF exhausted' THEN "Exhausted" ELSE "Idle")
    /\ UNCHANGED refilled

(* poll_frames fails: no frame is delivered.                               *)
PollFails ==
    /\ Faulty
    /\ RefillPending(0) /\ exhausted' = exhausted
    /\ Return("Err")
    /\ UNCHANGED refilled

(* The second loop of step_outcome found only frames to skip.              *)
DrainedIdle ==
    /\ pc = "drain" /\ ~HavePending /\ refilled
    /\ Return("Idle")
    /\ UNCHANGED <<inputs, source, batch, lifecycle, counters, callState, fates, rrNext, sinks>>

-----------------------------------------------------------------------------
(* write_with_backpressure: one turn of its loop                           *)

(* Mutant: the frame stays pending although it was written.                *)
AcceptKeepsPending(s) ==
    /\ sinks' = [sinks EXCEPT ![s] = Written(@, CurrentFrame)]
    /\ accepted' = [accepted EXCEPT ![s] = Append(@, CurrentFrame)]
    /\ messagesOut' = messagesOut + 1
    /\ Return("Progress")
    /\ UNCHANGED <<messagesDropped, dropped, retries, pendingIdx>>

(* A sink accepts the current frame.                                       *)
Accept(s) ==
    /\ sinks' = [sinks EXCEPT ![s] = Written(@, CurrentFrame)]
    /\ accepted' = [accepted EXCEPT ![s] = Append(@, CurrentFrame)]
    /\ messagesOut' = messagesOut + 1
    /\ pendingIdx' = pendingIdx + 1
    /\ Return("Progress")
    /\ UNCHANGED <<messagesDropped, dropped, retries>>

(* The current frame is dropped and counted.                               *)
Drop ==
    /\ messagesDropped' = messagesDropped + 1
    /\ dropped' = dropped \cup {CurrentFrame}
    /\ pendingIdx' = pendingIdx + 1
    /\ Return("Progress")
    /\ UNCHANGED <<sinks, accepted, messagesOut, retries>>

(* Mutant: the step moves on past the frame it could not write.            *)
GiveUpAdvances(r) ==
    /\ Return(r)
    /\ pendingIdx' = pendingIdx + 1
    /\ UNCHANGED <<counters, sinks, accepted, dropped, retries>>

(* The step returns without having got rid of the current frame.           *)
GiveUp(r) ==
    /\ Return(r)
    /\ UNCHANGED <<counters, sinks, accepted, dropped, pendingIdx, retries>>

(* The counter of retries is a u32, which wraps in a release build.        *)
NextRetries == (retries + 1) % RetryMod

(* The loop goes round: yield, then try again.                             *)
Retry ==
    /\ retries' = NextRetries
    /\ UNCHANGED <<counters, sinks, accepted, dropped, pendingIdx, pc, outcome>>

(* The refused message goes to the overflow sink next: a second write.     *)
TryOverflow ==
    /\ pc' = "overflow"
    /\ UNCHANGED <<counters, sinks, accepted, dropped, pendingIdx, retries, outcome>>

(* Mutant: the overflow sink is never tried.                               *)
BackPressureOnlyDrops == Drop

(* The target answered BackPressure: what the strategy makes of it.        *)
BackPressure ==
    CASE config.backpressure \in {"DropNewest", "DropOldest"} -> Drop
      [] config.backpressure = "Overflow" ->
           IF config.overflowSink \in {NoSink, target} THEN Drop ELSE TryOverflow
      [] config.backpressure \in {"Block", "Spin", "AdaptiveBatching"} ->
           IF config.backpressureRetries # Unlimited /\ NextRetries > config.backpressureRetries
             THEN GiveUp("BackPressured")
             ELSE Retry

(* What the write of the current frame to sink s answers.                  *)
WriteAnswer(s) ==
    IF s \in registered THEN WriteResult(sinks[s], kind[CurrentFrame]) ELSE "Placement"

(* The write to the target, at the head of the loop.                       *)
WriteAttempt ==
    /\ pc = "write"
    /\ CASE WriteAnswer(target) = "Ok"           -> Accept(target)
         [] WriteAnswer(target) = "BackPressure" -> BackPressure
         [] OTHER                                -> GiveUp("Err")
    /\ UNCHANGED <<inputs, source, lifecycle, pending, rrNext, refilled, target, skipped>>

(* The write to the overflow sink.                                         *)
OverflowAttempt ==
    /\ pc = "overflow"
    /\ CASE WriteAnswer(config.overflowSink) = "Ok"           -> Accept(config.overflowSink)
         [] WriteAnswer(config.overflowSink) = "BackPressure" -> Drop
         [] OTHER                                             -> GiveUp("Err")
    /\ UNCHANGED <<inputs, source, lifecycle, pending, rrNext, refilled, target, skipped>>

-----------------------------------------------------------------------------
(* A consumer of sink s pops a message.                                    *)
ConsumerPop(s) ==
    /\ sinks[s].ring # <<>>
    /\ sinks' = [sinks EXCEPT ![s] = Popped(@)]
    /\ UNCHANGED <<inputs, source, batch, lifecycle, counters, callState, fates, rrNext, pc,
                   outcome>>

(* One step of a step_outcome call in progress.                            *)
StepContinues ==
    ProcessFrame \/ WriteAttempt \/ OverflowAttempt
      \/ DrainedExhausted \/ DrainedIdle \/ PollDelivers \/ PollEmpty \/ PollFails

(* The pipeline in the hands of an arbitrary caller.                       *)
PipelineNext ==
    \/ \E s \in Sinks : RegisterSink(s)
    \/ InitCall \/ InitFails \/ ShutdownCall \/ StepBegin
    \/ StepContinues
    \/ \E s \in Sinks : ConsumerPop(s)

PipelineSpec == PipelineInit /\ [][PipelineNext]_pipelineVars

-----------------------------------------------------------------------------
(* Properties                                                              *)

(* The batch: the cursor stays inside it while the pipeline is in use.     *)
BatchOK ==
    /\ nextFrame \in 1 .. NumFrames + 1 /\ exhausted \in BOOLEAN
    /\ pending \in Seq(Frames) /\ Len(pending) <= config.batchSize
    /\ pendingIdx \in Nat /\ initialized \in BOOLEAN
    /\ IF initialized THEN pendingIdx <= Len(pending) ELSE pending = <<>>

(* The step in progress: it works on an initialized pipeline.              *)
CallOK ==
    /\ pc \in {"idle", "drain", "write", "overflow"} /\ refilled \in BOOLEAN
    /\ pc # "idle" => initialized
    /\ pc \in {"write", "overflow"} => HavePending
    /\ rrNext \in 0 .. Len(RouteSinks) - 1
    /\ target \in Sinks \cup {NoSink} /\ retries \in 0 .. RetryMod - 1
    /\ outcome \in {"none", "Ok", "Err", "LifecycleErr", "Progress", "Idle", "BackPressured",
                    "Exhausted"}

(* The sinks: no ring holds more than its slots.                           *)
SinksOK ==
    /\ registered \subseteq Sinks
    /\ sinks \in [Sinks -> [ring : Seq(Frames), written : Nat]]
    /\ \A s \in Sinks : Len(sinks[s].ring) <= SlotCount

HistoryOK ==
    /\ messagesOut \in Nat /\ messagesDropped \in Nat
    /\ accepted \in [Sinks -> Seq(Frames)]
    /\ dropped \subseteq Frames /\ skipped \subseteq Frames

(* The types of the pipeline's fields.                                     *)
TypeOK ==
    /\ config \in Configs /\ kind \in [Frames -> Kinds]
    /\ BatchOK /\ CallOK /\ SinksOK /\ HistoryOK

(* The places of the frames that wait in the pending batch, and of those   *)
(* sink s has accepted; all deliveries, by sink and place.                 *)
Waiting == pendingIdx + 1 .. Len(pending)
Places(s) == 1 .. Len(accepted[s])
Deliveries == {d \in Sinks \X Frames : d[2] \in Places(d[1])}

(* Has the pipeline dealt with frame f?                                    *)
Settled(f) ==
    \/ f \in dropped \cup skipped
    \/ \E s \in Sinks : \E i \in Places(s) : accepted[s][i] = f

(* Where a frame is: how often it is waiting in the pending batch, was     *)
(* accepted by a sink, was dropped, was filtered out.                      *)
Fates(f) ==
    Cardinality({i \in Waiting : pending[i] = f})
      + Cardinality({d \in Deliveries : accepted[d[1]][d[2]] = f})
      + (IF f \in dropped THEN 1 ELSE 0)
      + (IF f \in skipped THEN 1 ELSE 0)

(* No frame the source has handed over is lost or handled twice: it is     *)
(* still pending, or exactly one sink accepted it exactly once, or it was  *)
(* dropped and counted, or it was filtered out.  This survives every       *)
(* error, give-up and retry of a step.                                     *)
FramesAccountedFor ==
    initialized => \A f \in Frames : Fates(f) = IF f < nextFrame THEN 1 ELSE 0

(* Every sink accepts frames in the order of the source, although a frame  *)
(* under back-pressure is routed again on each step.                       *)
PerSinkOrder ==
    \A s \in Sinks : \A i, j \in Places(s) :
        i < j => accepted[s][i] < accepted[s][j]

(* messages_out, messages_dropped and the sinks' own written() counters    *)
(* agree with what happened since init.                                    *)
CountersAgree ==
    initialized =>
        /\ messagesOut = Cardinality(Deliveries)
        /\ \A s \in registered : sinks[s].written = Len(accepted[s])
        /\ messagesDropped = Cardinality(dropped)

(* A message leaves a sink only through its consumer while the pipeline is *)
(* in use: what is in a ring is the end of what the sink accepted.         *)
RingHoldsLatest ==
    initialized => \A s \in registered :
        LET a == accepted[s]  r == sinks[s].ring
        IN  Len(r) <= Len(a) /\ r = SubSeq(a, Len(a) - Len(r) + 1, Len(a))

(* The batch holds frames in source order, and what was dealt with since   *)
(* init comes before everything that still waits.                          *)
BatchInOrder ==
    /\ \A i \in 1 .. Len(pending) :
         pending[i] < nextFrame /\ \A j \in 1 .. i - 1 : pending[j] < pending[i]
    /\ initialized => \A f \in Frames :
         Settled(f) => f < nextFrame /\ \A i \in Waiting : f < pending[i]

(* No frame is dealt with twice, within a sink, by two sinks or in two     *)
(* ways; a sink has accepted its i-th message no sooner than frame i.      *)
OneFate ==
    /\ dropped \cap skipped = {}
    /\ \A s \in Sinks : \A i \in Places(s) :
         /\ i <= accepted[s][i]
         /\ accepted[s][i] \notin dropped \cup skipped
         /\ \A t \in Sinks : \A j \in Places(t) :
              accepted[s][i] = accepted[t][j] => s = t /\ i = j

(* Every frame the source has handed over is dealt with or waits.          *)
NoneForgotten ==
    initialized => \A f \in Frames :
        f < nextFrame => Settled(f) \/ \E i \in Waiting : pending[i] = f

(* No poll returns more than the batch of the pipeline takes.              *)
PollsFit == \A c \in Configs : PollMax <= c.batchSize

(* The sinks the placement may route frame f to.  A round robin routes a   *)
(* frame again, elsewhere, on every step that meets back-pressure.         *)
Routed(f) ==
    IF config.placement = "round_robin"
      THEN {RouteSinks[i] : i \in DOMAIN RouteSinks}
      ELSE {Route(f)}

(* Since init sink s has accepted a ring full of frames that precede f.    *)
HadFilled(s, f) == Len(accepted[s]) >= SlotCount /\ accepted[s][SlotCount] < f

(* Frame f may be dropped: the strategy drops, and its sink had been       *)
(* filled, and so had the overflow sink if there is one.                   *)
MayDrop(f) ==
    /\ config.backpressure \in {"DropNewest", "DropOldest", "Overflow"}
    /\ \E s \in Routed(f) : HadFilled(s, f)
    /\ config.backpressure = "Overflow" /\ config.overflowSink # NoSink =>
         HadFilled(config.overflowSink, f)

(* Frame f may go to sink s, where the placement does not route it.        *)
MayDivert(f, s) ==
    /\ config.backpressure = "Overflow" /\ s = config.overflowSink
    /\ \E t \in Routed(f) : HadFilled(t, f)

(* No message is refused for room that was there all along: a frame is     *)
(* dropped, or delivered to another sink than its own, only where the      *)
(* strategy says so and the sinks in question had each been filled with    *)
(* earlier frames of the same session.  Consumers pop between the write to *)
(* the target and the one to the overflow sink, and init empties the rings *)
(* of an earlier session.                                                  *)
RefusedOnlyWhenFull ==
    initialized => \A f \in Frames :
        /\ f \in dropped => MayDrop(f)
        /\ \A s \in Sinks \ Routed(f) :
             (\E i \in Places(s) : accepted[s][i] = f) => MayDivert(f, s)

(* The bookkeeping: types, counters, rings, and the order of the frames.   *)
PipelineInv == TypeOK /\ CountersAgree /\ RingHoldsLatest /\ BatchInOrder /\ OneFate
=============================================================================
