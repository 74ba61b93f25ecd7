--------------------------- MODULE RuntimeProofs ----------------------------
(***************************************************************************)
(* The pipeline is correct for every number of frames, sinks and slots,    *)
(* every placement and every strategy, and Runtime takes it through its    *)
(* phases correctly, for every number of run() calls and every order of    *)
(* its methods.                                                            *)
(*                                                                         *)
(* A step of the driver is a step of the pipeline in the hands of some     *)
(* caller, or leaves the pipeline alone.  So what is shown of the pipeline *)
(* first holds of the one a Runtime owns.                                  *)
(***************************************************************************)
EXTENDS RuntimeDriver, SequenceTheorems, FiniteSetTheorems, TLAPS

(* A sink without room.                                                    *)
Full(s) == Len(sinks[s].ring) = SlotCount

(* The fields of the configuration the steps look at.                      *)
LEMMA ConfigFields ==
    ASSUME TypeOK
    PROVE  /\ config.batchSize \in Nat \ {0}
           /\ config.overflowSink \in Sinks \cup {NoSink}
           /\ config.backpressure \in {"Block", "Spin", "DropNewest", "DropOldest", "Overflow",
                                       "AdaptiveBatching"}
           /\ config.placement \in {"fixed", "round_robin", "hash"}
  BY PipelineAssumption DEF TypeOK, Config

(* The placement routes to a sink, and its cursor stays in its list.       *)
LEMMA RouteType ==
    ASSUME TypeOK, NEW f \in Frames
    PROVE  Route(f) \in Sinks /\ AfterRoute \in 0 .. Len(RouteSinks) - 1
  <1> DEFINE n == Len(RouteSinks)
  <1>1. n \in Nat /\ n # 0
    BY PipelineAssumption, LenProperties, EmptySeq
  <1>2. ASSUME NEW k \in Nat PROVE k % n \in 0 .. n - 1
    BY <1>1
  <1>3. \A k \in Nat : RouteSinks[(k % n) + 1] \in Sinks
    <2> SUFFICES ASSUME NEW k \in Nat PROVE RouteSinks[(k % n) + 1] \in Sinks
      OBVIOUS
    <2>1. (k % n) + 1 \in 1 .. n
      BY <1>1, <1>2
    <2> QED BY <2>1, PipelineAssumption, ElementOfSeq
  <1>4. f \in Nat /\ rrNext \in Nat /\ rrNext \in 0 .. n - 1
    BY <1>1 DEF Frames, TypeOK, CallOK
  <1> HIDE DEF n
  <1>5. Route(f) \in Sinks
    <2> DEFINE key == CASE config.placement = "fixed"       -> 0
                        [] config.placement = "round_robin" -> rrNext
                        [] config.placement = "hash"        -> f
    <2>1. key \in Nat
      BY <1>4, ConfigFields
    <2>2. Route(f) = RouteSinks[(key % n) + 1]
      BY DEF Route, n
    <2> QED BY <1>3, <2>1, <2>2
  <1>6. AfterRoute \in 0 .. n - 1
    <2>1. (rrNext + 1) % n \in 0 .. n - 1
      BY <1>2, <1>4
    <2> QED BY <1>4, <2>1 DEF AfterRoute, n
  <1> QED BY <1>5, <1>6 DEF n

(* The frame at the cursor.                                                *)
LEMMA CurrentFrameType ==
    ASSUME TypeOK, HavePending
    PROVE  CurrentFrame \in Frames /\ CurrentFrame = pending[pendingIdx + 1]
           /\ pendingIdx + 1 \in 1 .. Len(pending) /\ pendingIdx + 1 \in Waiting
  BY LenProperties, ElementOfSeq DEF TypeOK, BatchOK, HavePending, CurrentFrame, Waiting

(* What a poll of n frames leaves in the batch.                            *)
LEMMA TruncatedFields ==
    ASSUME TypeOK, NEW n \in Nat, nextFrame + n <= NumFrames + 1
    PROVE  /\ Truncated(n) \in Seq(Frames)
           /\ Len(Truncated(n)) <= config.batchSize /\ Len(Truncated(n)) <= n
           /\ n <= config.batchSize => Len(Truncated(n)) = n
           /\ \A i \in 1 .. Len(Truncated(n)) : Truncated(n)[i] = nextFrame + i - 1
  <1>1. config.batchSize \in Nat
    BY ConfigFields
  <1>2. PICK k \in Nat : k = (IF n > config.batchSize THEN config.batchSize ELSE n)
    BY <1>1
  <1>3. Truncated(n) = [i \in 1 .. k |-> nextFrame + i - 1]
    BY <1>2 DEF Truncated
  <1>4. ASSUME NEW i \in 1 .. k PROVE nextFrame + i - 1 \in Frames
    BY <1>1, <1>2, PipelineAssumption DEF TypeOK, BatchOK, Frames
  <1> QED BY <1>1, <1>2, <1>3, <1>4

-----------------------------------------------------------------------------
(* The write                                                               *)

(* What an attempt to write leaves alone.                                  *)
AttemptFrame == UNCHANGED <<config, kind, nextFrame, exhausted, initialized, registered, pending,
                            rrNext, refilled, target, skipped>>

(* What a sink answers tells whether it has room.                          *)
LEMMA Answers ==
    ASSUME NEW s
    PROVE  /\ WriteAnswer(s) = "Ok" => s \in registered /\ ~Full(s)
           /\ WriteAnswer(s) = "BackPressure" => s \in registered /\ Full(s)
  BY DEF WriteAnswer, WriteResult, Full

(* What the write to the target comes to.                                  *)
LEMMA WriteCases ==
    ASSUME TypeOK, WriteAttempt
    PROVE  /\ pc = "write" /\ AttemptFrame
           /\ \/ target \in registered /\ ~Full(target) /\ Accept(target)
              \/ /\ Drop /\ target \in registered /\ Full(target)
                 /\ config.backpressure \in {"DropNewest", "DropOldest", "Overflow"}
                 /\ config.backpressure = "Overflow" =>
                      config.overflowSink \in {NoSink, target}
              \/ /\ TryOverflow /\ target \in registered /\ Full(target)
                 /\ config.backpressure = "Overflow"
                 /\ config.overflowSink \notin {NoSink, target}
              \/ GiveUp("Err") \/ GiveUp("BackPressured") \/ Retry
  <1>1. pc = "write" /\ AttemptFrame
    BY DEF WriteAttempt, AttemptFrame, inputs, source, lifecycle
  <1>2. CASE WriteAnswer(target) = "Ok"
    BY <1>1, <1>2, Answers DEF WriteAttempt
  <1>3. CASE WriteAnswer(target) = "BackPressure"
    <2>1. BackPressure /\ target \in registered /\ Full(target)
      BY <1>3, Answers DEF WriteAttempt
    <2>2. CASE config.backpressure \in {"DropNewest", "DropOldest"}
      BY <1>1, <2>1, <2>2 DEF BackPressure
    <2>3. CASE config.backpressure = "Overflow"
      BY <1>1, <2>1, <2>3 DEF BackPressure
    <2>4. CASE config.backpressure \in {"Block", "Spin", "AdaptiveBatching"}
      BY <1>1, <2>1, <2>4 DEF BackPressure
    <2> QED BY <2>2, <2>3, <2>4, ConfigFields
  <1>4. CASE WriteAnswer(target) \notin {"Ok", "BackPressure"}
    BY <1>1, <1>4 DEF WriteAttempt
  <1> QED BY <1>2, <1>3, <1>4

(* What the write to the overflow sink comes to.                           *)
LEMMA OverflowCases ==
    ASSUME TypeOK, OverflowAttempt
    PROVE  LET o == config.overflowSink
           IN  /\ pc = "overflow" /\ AttemptFrame
               /\ \/ o \in registered /\ ~Full(o) /\ Accept(o)
                  \/ o \in registered /\ Full(o) /\ Drop
                  \/ GiveUp("Err")
  <1> DEFINE o == config.overflowSink
  <1>1. pc = "overflow" /\ AttemptFrame
    BY DEF OverflowAttempt, AttemptFrame, inputs, source, lifecycle
  <1>2. \/ WriteAnswer(o) = "Ok" /\ Accept(o)
        \/ WriteAnswer(o) = "BackPressure" /\ Drop
        \/ GiveUp("Err")
    BY DEF OverflowAttempt
  <1> QED BY <1>1, <1>2, Answers

(* Either write.                                                           *)
Attempt == WriteAttempt \/ OverflowAttempt

(* What the invariants need to know of a write.                            *)
LEMMA AttemptCases ==
    ASSUME TypeOK, Attempt
    PROVE  /\ pc \in {"write", "overflow"} /\ AttemptFrame
           /\ \/ \E s \in registered : ~Full(s) /\ Accept(s)
              \/ Drop \/ TryOverflow \/ GiveUp("Err") \/ GiveUp("BackPressured") \/ Retry
  BY WriteCases, OverflowCases DEF Attempt

-----------------------------------------------------------------------------
(* The types                                                               *)

(* The types hold initially.                                               *)
LEMMA TypesInit == PipelineInit => TypeOK
  <1> SUFFICES ASSUME PipelineInit PROVE TypeOK
    OBVIOUS
  <1>1. <<>> \in Seq(Frames) /\ Len(<<>>) = 0
    BY EmptySeq
  <1>2. NumFrames \in Nat /\ RetryMod \in Nat \ {0} /\ SlotCount \in Nat
    BY PipelineAssumption, SlotAssumption
  <1>3. config.batchSize \in Nat
    BY PipelineAssumption DEF PipelineInit, Config
  <1>4. Len(RouteSinks) \in Nat \ {0}
    BY PipelineAssumption, LenProperties, EmptySeq
  <1>5. NewSink \in [ring : Seq(Frames), written : Nat] /\ NewSink.ring = <<>>
    BY <1>1 DEF NewSink
  <1>6. BatchOK
    <2>1. exhausted \in BOOLEAN /\ initialized \in BOOLEAN /\ ~initialized
      BY Zenon DEF PipelineInit
    <2>2. nextFrame \in 1 .. NumFrames + 1 /\ pendingIdx \in Nat
      BY <1>2 DEF PipelineInit
    <2>3. pending = <<>> /\ pending \in Seq(Frames) /\ Len(pending) <= config.batchSize
      BY <1>1, <1>3 DEF PipelineInit
    <2> QED BY <2>1, <2>2, <2>3, Zenon DEF BatchOK
  <1>7. CallOK
    <2>1. refilled \in BOOLEAN
      BY Zenon DEF PipelineInit
    <2>2. rrNext \in 0 .. Len(RouteSinks) - 1 /\ retries \in 0 .. RetryMod - 1
      BY <1>2, <1>4 DEF PipelineInit
    <2> QED BY <2>1, <2>2 DEF PipelineInit, CallOK
  <1>8. SinksOK
    BY <1>1, <1>2, <1>5 DEF PipelineInit, SinksOK
  <1>9. HistoryOK
    BY <1>1 DEF PipelineInit, HistoryOK
  <1> QED BY <1>6, <1>7, <1>8, <1>9 DEF PipelineInit, TypeOK

(* The operations of a sink yield a sink.                                  *)
LEMMA SinkOperations ==
    ASSUME NEW k \in [ring : Seq(Frames), written : Nat], Len(k.ring) <= SlotCount
    PROVE  /\ AfterShutdown(k) = k
           /\ ResetRing(k) \in [ring : Seq(Frames), written : Nat]
           /\ ResetRing(k).ring = <<>> /\ ResetRing(k).written = 0 /\ Len(ResetRing(k).ring) = 0
           /\ k.ring # <<>> =>
                /\ Popped(k) \in [ring : Seq(Frames), written : Nat]
                /\ Popped(k).ring = Tail(k.ring) /\ Popped(k).written = k.written
                /\ Len(Popped(k).ring) = Len(k.ring) - 1
           /\ \A f \in Frames :
                /\ Written(k, f) \in [ring : Seq(Frames), written : Nat]
                /\ Written(k, f).ring = Append(k.ring, f)
                /\ Written(k, f).written = k.written + 1
                /\ Len(Written(k, f).ring) = Len(k.ring) + 1
  <1>1. k.ring \in Seq(Frames) /\ k.written \in Nat /\ Len(k.ring) \in Nat
    BY LenProperties
  <1>2. AfterShutdown(k) = k
    BY DEF AfterShutdown
  <1>3. /\ ResetRing(k) \in [ring : Seq(Frames), written : Nat]
        /\ ResetRing(k).ring = <<>> /\ ResetRing(k).written = 0 /\ Len(ResetRing(k).ring) = 0
    BY EmptySeq DEF ResetRing
  <1>4. ASSUME k.ring # <<>>
        PROVE  /\ Popped(k) \in [ring : Seq(Frames), written : Nat]
               /\ Popped(k).ring = Tail(k.ring) /\ Popped(k).written = k.written
               /\ Len(Popped(k).ring) = Len(k.ring) - 1
    <2>1. Tail(k.ring) \in Seq(Frames) /\ Len(Tail(k.ring)) = Len(k.ring) - 1
      BY <1>1, <1>4, HeadTailProperties
    <2> QED BY <1>1, <2>1 DEF Popped
  <1>5. ASSUME NEW f \in Frames
        PROVE  /\ Written(k, f) \in [ring : Seq(Frames), written : Nat]
               /\ Written(k, f).ring = Append(k.ring, f)
               /\ Written(k, f).written = k.written + 1
               /\ Len(Written(k, f).ring) = Len(k.ring) + 1
    <2>1. Append(k.ring, f) \in Seq(Frames) /\ Len(Append(k.ring, f)) = Len(k.ring) + 1
      BY <1>1, AppendProperties
    <2> QED BY <1>1, <2>1 DEF Written
  <1> QED BY <1>2, <1>3, <1>4, <1>5

(* A part of the state that a step leaves alone keeps its type.            *)
LEMMA PartsKept ==
    /\ BatchOK /\ UNCHANGED <<config, nextFrame, exhausted, pending, pendingIdx, initialized>>
         => BatchOK'
    /\ CallOK /\ UNCHANGED <<pc, refilled, initialized, pending, pendingIdx, rrNext, target,
                             retries, outcome>>
         => CallOK'
    /\ SinksOK /\ UNCHANGED <<registered, sinks>> => SinksOK'
    /\ HistoryOK /\ UNCHANGED <<messagesOut, messagesDropped, accepted, dropped, skipped>>
         => HistoryOK'
  BY DEF BatchOK, CallOK, SinksOK, HistoryOK, HavePending

(* A step that resets the rings of some sinks.                             *)
LEMMA ResetKeepsTypes ==
    ASSUME SinksOK, NEW V \in SUBSET Sinks, registered' = registered,
           sinks' = [s \in Sinks |-> IF s \in V THEN ResetRing(sinks[s]) ELSE sinks[s]]
    PROVE  SinksOK'
  <1>1. ASSUME NEW s \in Sinks
        PROVE  /\ sinks'[s] \in [ring : Seq(Frames), written : Nat]
               /\ Len(sinks'[s].ring) <= SlotCount
    <2>1. sinks[s] \in [ring : Seq(Frames), written : Nat] /\ Len(sinks[s].ring) <= SlotCount
      BY DEF SinksOK
    <2>2. CASE s \in V
      BY <2>1, <2>2, SinkOperations, SlotAssumption
    <2>3. CASE s \notin V
      BY <2>1, <2>3
    <2> QED BY <2>2, <2>3
  <1>2. sinks' \in [Sinks -> [ring : Seq(Frames), written : Nat]]
    BY <1>1
  <1> QED BY <1>1, <1>2 DEF SinksOK

(* Shutting the sinks down does not change them.                           *)
LEMMA ShutdownKeepsSinks ==
    ASSUME SinksOK, ShutdownCall
    PROVE  sinks' = sinks
  <1>1. ASSUME NEW s \in Sinks PROVE AfterShutdown(sinks[s]) = sinks[s]
    BY DEF AfterShutdown
  <1>2. sinks' = [s \in Sinks |-> sinks[s]]
    BY <1>1 DEF ShutdownCall
  <1> QED BY <1>2 DEF SinksOK

(* The lifecycle calls keep the types.                                     *)
LEMMA LifecycleTypes ==
    ASSUME TypeOK, (\E s \in Sinks : RegisterSink(s)) \/ InitCall \/ InitFails \/ ShutdownCall
    PROVE  TypeOK'
  <1>0. UNCHANGED <<config, kind>> => config' \in Configs /\ kind' \in [Frames -> Kinds]
    BY DEF TypeOK
  <1>1. ASSUME NEW s \in Sinks, RegisterSink(s) PROVE TypeOK'
    <2>1. UNCHANGED <<config, kind, nextFrame, exhausted, pending, pendingIdx, initialized, sinks,
                      messagesOut, messagesDropped, accepted, dropped, skipped>>
      BY <1>1 DEF RegisterSink, inputs, source, batch, counters, fates
    <2>2. CallOK'
      BY <1>1 DEF RegisterSink, TypeOK, CallOK, HavePending, batch, callState
    <2>3. SinksOK'
      BY <1>1, <2>1 DEF RegisterSink, TypeOK, SinksOK
    <2> QED BY <1>0, <2>1, <2>2, <2>3, PartsKept DEF TypeOK
  <1>2. CASE InitCall
    <2>1. UNCHANGED <<config, kind>>
      BY <1>2 DEF InitCall, inputs
    <2>2. BatchOK'
      <3>1. exhausted' \in BOOLEAN /\ initialized' \in BOOLEAN /\ initialized'
        BY <1>2, Zenon DEF InitCall
      <3>2. nextFrame' \in 1 .. NumFrames + 1 /\ pendingIdx' \in Nat
        BY <1>2, PipelineAssumption DEF InitCall
      <3>3. config'.batchSize \in Nat
        BY <2>1, ConfigFields
      <3>4. /\ pending' \in Seq(Frames) /\ Len(pending') <= config'.batchSize
            /\ pendingIdx' <= Len(pending')
        BY <1>2, <3>3, EmptySeq DEF InitCall
      <3> QED BY <3>1, <3>2, <3>4, Zenon DEF BatchOK
    <2>3. CallOK'
      BY <1>2 DEF InitCall, TypeOK, CallOK, callState
    <2>4. SinksOK'
      <3>1. registered \in SUBSET Sinks /\ SinksOK
        BY DEF TypeOK, SinksOK
      <3> QED BY <1>2, <3>1, ResetKeepsTypes DEF InitCall
    <2>5. HistoryOK'
      BY <1>2, EmptySeq DEF InitCall, HistoryOK
    <2> QED BY <1>0, <2>1, <2>2, <2>3, <2>4, <2>5 DEF TypeOK
  <1>3. CASE InitFails
    <2>1. UNCHANGED <<config, kind, pending, pendingIdx, initialized, registered, messagesOut,
                      messagesDropped, refilled, target, retries, accepted, dropped, skipped,
                      rrNext, pc>>
      BY <1>3 DEF InitFails, inputs, batch, lifecycle, counters, callState, fates
    <2>2. BatchOK'
      <3>1. exhausted' \in BOOLEAN
        BY <1>3, Zenon DEF InitFails, TypeOK, BatchOK
      <3>2. nextFrame' \in 1 .. NumFrames + 1
        BY <1>3, PipelineAssumption DEF InitFails, TypeOK, BatchOK
      <3> QED BY <2>1, <3>1, <3>2 DEF TypeOK, BatchOK
    <2>3. CallOK'
      <3>1. outcome' = "Err"
        BY <1>3 DEF InitFails
      <3> QED BY <2>1, <3>1 DEF TypeOK, CallOK, HavePending
    <2>4. SinksOK'
      <3>1. registered \in SUBSET Sinks /\ SinksOK
        BY DEF TypeOK, SinksOK
      <3>2. CASE UNCHANGED sinks
        BY <2>1, <3>1, <3>2, PartsKept
      <3>3. ASSUME NEW V \in SUBSET registered,
                   sinks' = [s \in Sinks |-> IF s \in V THEN ResetRing(sinks[s]) ELSE sinks[s]]
            PROVE  SinksOK'
        <4>1. V \in SUBSET Sinks
          BY <3>1
        <4> QED BY <2>1, <3>1, <3>3, <4>1, ResetKeepsTypes
      <3> QED BY <1>3, <3>2, <3>3 DEF InitFails
    <2> QED BY <1>0, <2>1, <2>2, <2>3, <2>4, PartsKept DEF TypeOK
  <1>4. CASE ShutdownCall
    <2>1. UNCHANGED <<config, kind, nextFrame, exhausted, pendingIdx, registered, messagesOut,
                      messagesDropped, refilled, target, retries, accepted, dropped, skipped,
                      rrNext, pc>> /\ pc = "idle" /\ ~initialized' /\ initialized' \in BOOLEAN
                      /\ pending' = <<>>
      BY <1>4, Zenon DEF ShutdownCall, inputs, source, counters, callState, fates
    <2>2. sinks' = sinks
      BY <1>4, ShutdownKeepsSinks DEF TypeOK
    <2>3. BatchOK'
      BY <2>1, EmptySeq, ConfigFields DEF TypeOK, BatchOK
    <2>4. CallOK'
      <3>1. outcome' \in {"Ok", "Err"}
        BY <1>4 DEF ShutdownCall
      <3> QED BY <2>1, <3>1 DEF TypeOK, CallOK
    <2> QED BY <1>0, <2>1, <2>2, <2>3, <2>4, PartsKept DEF TypeOK
  <1> QED BY <1>1, <1>2, <1>3, <1>4

(* What a poll of the source comes to, whether it delivers, is empty or    *)
(* fails.                                                                  *)
LEMMA PollEffects ==
    ASSUME TypeOK, PollDelivers \/ PollEmpty \/ PollFails
    PROVE  /\ pc = "drain" /\ ~HavePending
           /\ UNCHANGED <<config, kind, initialized, registered, messagesOut, messagesDropped,
                          accepted, dropped, skipped, rrNext, sinks, target, retries>>
           /\ pc' \in {"drain", "idle"} /\ refilled' \in BOOLEAN
           /\ outcome' \in {outcome, "Exhausted", "Idle", "Err"}
           /\ pendingIdx' = 0 /\ exhausted' \in BOOLEAN
           /\ \E n \in Nat :
                /\ n <= PollMax /\ nextFrame + n <= NumFrames + 1
                /\ pending' = Truncated(n) /\ nextFrame' = nextFrame + n
  <1>1. ASSUME NEW n \in Nat, n <= PollMax, RefillPending(n)
        PROVE  /\ pc = "drain" /\ ~HavePending
               /\ UNCHANGED <<config, kind, initialized, registered, messagesOut, messagesDropped,
                              accepted, dropped, skipped, rrNext, sinks, target, retries>>
               /\ pendingIdx' = 0 /\ exhausted' \in BOOLEAN
               /\ n <= PollMax /\ nextFrame + n <= NumFrames + 1
               /\ pending' = Truncated(n) /\ nextFrame' = nextFrame + n
    <2>1. exhausted' \in BOOLEAN
      <3>1. exhausted' \in {FALSE, nextFrame + n > NumFrames}
        BY <1>1 DEF RefillPending
      <3>2. (nextFrame + n > NumFrames) \in BOOLEAN
        OBVIOUS
      <3> QED BY <3>1, <3>2, Zenon
    <2> QED BY <1>1, <2>1 DEF RefillPending, inputs, lifecycle, counters, fates
  <1>2. 0 \in Nat /\ 0 <= PollMax /\ \A n \in 1 .. PollMax : n \in Nat /\ n <= PollMax
    BY PipelineAssumption
  <1>3. CASE PollDelivers
    <2>1. PICK n \in 1 .. PollMax : RefillPending(n)
      BY <1>3 DEF PollDelivers
    <2>2. UNCHANGED <<pc, outcome>> /\ refilled' \in BOOLEAN
      BY <1>3, Zenon DEF PollDelivers
    <2> QED BY <1>1, <1>2, <2>1, <2>2
  <1>4. CASE PollEmpty
    <2>1. RefillPending(0) /\ pc' = "idle" /\ outcome' \in {"Exhausted", "Idle"}
      BY <1>4 DEF PollEmpty, Return
    <2>2. refilled' \in BOOLEAN
      BY <1>4 DEF PollEmpty, TypeOK, CallOK
    <2> QED BY <1>1, <1>2, <2>1, <2>2
  <1>5. CASE PollFails
    <2>1. RefillPending(0) /\ pc' = "idle" /\ outcome' = "Err"
      BY <1>5 DEF PollFails, Return
    <2>2. refilled' \in BOOLEAN
      BY <1>5 DEF PollFails, TypeOK, CallOK
    <2> QED BY <1>1, <1>2, <2>1, <2>2
  <1> QED BY <1>3, <1>4, <1>5

(* The steps of step_outcome keep the types.                               *)
LEMMA StepTypes ==
    ASSUME TypeOK, StepBegin \/ StepContinues
    PROVE  TypeOK'
  <1>0. UNCHANGED <<config, kind>> => config' \in Configs /\ kind' \in [Frames -> Kinds]
    BY DEF TypeOK
  <1>1. CASE StepBegin \/ DrainedExhausted \/ DrainedIdle
    <2>1. UNCHANGED <<config, kind, nextFrame, exhausted, pending, pendingIdx, initialized,
                      registered, messagesOut, messagesDropped, accepted, dropped, skipped,
                      rrNext, sinks, target, retries>>
      BY <1>1 DEF StepBegin, DrainedExhausted, DrainedIdle, inputs, source, batch, lifecycle,
                  counters, callState, fates
    <2>2. /\ pc' \in {"idle", "drain"}
          /\ pc' # "idle" => initialized
          /\ outcome' \in {outcome, "LifecycleErr", "Exhausted", "Idle"}
      BY <1>1 DEF StepBegin, DrainedExhausted, DrainedIdle, Return, TypeOK, CallOK, BatchOK
    <2>3. refilled' \in BOOLEAN
      BY <1>1, Zenon DEF StepBegin, DrainedExhausted, DrainedIdle, callState, TypeOK, CallOK
    <2>4. CallOK'
      BY <2>1, <2>2, <2>3 DEF TypeOK, CallOK
    <2> QED BY <1>0, <2>1, <2>4, PartsKept DEF TypeOK
  <1>2. CASE ProcessFrame
    <2>1. /\ UNCHANGED <<config, kind, nextFrame, exhausted, pending, initialized, registered,
                         messagesOut, messagesDropped, accepted, dropped, sinks, refilled>>
          /\ pc = "drain" /\ HavePending
      BY <1>2 DEF ProcessFrame, inputs, source, lifecycle, counters
    <2>2. CurrentFrame \in Frames /\ pendingIdx + 1 \in 1 .. Len(pending) /\ initialized
      BY <2>1, CurrentFrameType DEF TypeOK, CallOK
    <2>3. BatchOK'
      <3>1. pendingIdx' \in {pendingIdx, pendingIdx + 1}
        BY <1>2 DEF ProcessFrame
      <3> QED BY <2>1, <2>2, <3>1 DEF TypeOK, BatchOK
    <2>4. CallOK'
      <3>1. Route(CurrentFrame) \in Sinks /\ AfterRoute \in 0 .. Len(RouteSinks) - 1
        BY <2>2, RouteType
      <3>2. 0 \in 0 .. RetryMod - 1
        BY PipelineAssumption
      <3> QED BY <1>2, <2>1, <2>2, <3>1, <3>2 DEF ProcessFrame, Return, TypeOK, CallOK, HavePending
    <2>5. HistoryOK'
      BY <1>2, <2>1, <2>2 DEF ProcessFrame, TypeOK, HistoryOK
    <2> QED BY <1>0, <2>1, <2>3, <2>4, <2>5, PartsKept DEF TypeOK
  <1>3. CASE Attempt
    <2>1. /\ UNCHANGED <<config, kind, nextFrame, exhausted, initialized, registered, pending,
                         rrNext, refilled, target, skipped>>
          /\ pc \in {"write", "overflow"} /\ HavePending /\ initialized
      BY <1>3, AttemptCases DEF AttemptFrame, TypeOK, CallOK
    <2>2. CurrentFrame \in Frames /\ pendingIdx + 1 \in 1 .. Len(pending)
      BY <2>1, CurrentFrameType
    <2>3. ASSUME pendingIdx' \in {pendingIdx, pendingIdx + 1} PROVE BatchOK'
      BY <2>1, <2>2, <2>3 DEF TypeOK, BatchOK
    <2>4. ASSUME pc' = "idle", outcome' \in {"Progress", "Err", "BackPressured"}, retries' = retries
          PROVE  CallOK'
      BY <2>1, <2>4 DEF TypeOK, CallOK
    <2>5. ASSUME NEW s \in registered, ~Full(s), Accept(s) PROVE TypeOK'
      <3>1. BatchOK' /\ CallOK'
        BY <2>3, <2>4, <2>5 DEF Accept, Return
      <3>2. s \in Sinks /\ SinksOK /\ HistoryOK
        BY DEF TypeOK, SinksOK
      <3>3. HistoryOK'
        <4>1. Append(accepted[s], CurrentFrame) \in Seq(Frames)
          BY <2>2, <3>2, AppendProperties DEF HistoryOK
        <4> QED BY <2>1, <2>5, <3>2, <4>1 DEF Accept, HistoryOK
      <3>4. SinksOK'
        <4> DEFINE w == Written(sinks[s], CurrentFrame)
        <4>1. /\ w \in [ring : Seq(Frames), written : Nat]
              /\ Len(w.ring) = Len(sinks[s].ring) + 1
              /\ Len(sinks[s].ring) <= SlotCount /\ Len(sinks[s].ring) \in Nat
          BY <2>2, <3>2, SinkOperations, LenProperties DEF SinksOK
        <4>2. Len(w.ring) <= SlotCount
          BY <2>5, <4>1, SlotAssumption DEF Full
        <4>3. sinks' = [sinks EXCEPT ![s] = w]
          BY <2>5 DEF Accept
        <4> HIDE DEF w
        <4> QED BY <2>1, <3>2, <4>1, <4>2, <4>3 DEF SinksOK
      <3> QED BY <1>0, <2>1, <3>1, <3>3, <3>4 DEF TypeOK
    <2>6. CASE Drop
      <3>1. BatchOK' /\ CallOK'
        BY <2>3, <2>4, <2>6 DEF Drop, Return
      <3>2. HistoryOK' /\ SinksOK'
        BY <2>1, <2>2, <2>6 DEF Drop, TypeOK, HistoryOK, SinksOK
      <3> QED BY <1>0, <2>1, <3>1, <3>2 DEF TypeOK
    <2>7. CASE GiveUp("Err") \/ GiveUp("BackPressured")
      <3>1. BatchOK' /\ CallOK'
        BY <2>3, <2>4, <2>7 DEF GiveUp, Return
      <3>2. HistoryOK' /\ SinksOK'
        BY <2>1, <2>7, PartsKept DEF GiveUp, TypeOK, counters
      <3> QED BY <1>0, <2>1, <3>1, <3>2 DEF TypeOK
    <2>8. CASE Retry
      <3>1. BatchOK'
        BY <2>3, <2>8 DEF Retry
      <3>2. NextRetries \in 0 .. RetryMod - 1
        BY PipelineAssumption DEF NextRetries, TypeOK, CallOK
      <3>3. CallOK'
        BY <2>1, <2>8, <3>2 DEF Retry, TypeOK, CallOK, HavePending
      <3>4. HistoryOK' /\ SinksOK'
        BY <2>1, <2>8, PartsKept DEF Retry, TypeOK, counters
      <3> QED BY <1>0, <2>1, <3>1, <3>3, <3>4 DEF TypeOK
    <2>9. CASE TryOverflow
      <3>1. BatchOK'
        BY <2>3, <2>9 DEF TryOverflow
      <3>2. CallOK'
        BY <2>1, <2>9 DEF TryOverflow, TypeOK, CallOK, HavePending
      <3>3. HistoryOK' /\ SinksOK'
        BY <2>1, <2>9, PartsKept DEF TryOverflow, TypeOK, counters
      <3> QED BY <1>0, <2>1, <3>1, <3>2, <3>3 DEF TypeOK
    <2> QED BY <1>3, <2>5, <2>6, <2>7, <2>8, <2>9, AttemptCases
  <1>4. CASE PollDelivers \/ PollEmpty \/ PollFails
    <2>1. /\ pc = "drain" /\ ~HavePending
          /\ UNCHANGED <<config, kind, initialized, registered, messagesOut, messagesDropped,
                         accepted, dropped, skipped, rrNext, sinks, target, retries>>
          /\ pc' \in {"drain", "idle"} /\ refilled' \in BOOLEAN
          /\ outcome' \in {outcome, "Exhausted", "Idle", "Err"}
          /\ pendingIdx' = 0 /\ exhausted' \in BOOLEAN /\ initialized
      BY <1>4, PollEffects DEF TypeOK, CallOK
    <2>2. PICK n \in Nat : /\ n <= PollMax /\ nextFrame + n <= NumFrames + 1
                           /\ pending' = Truncated(n) /\ nextFrame' = nextFrame + n
      BY <1>4, PollEffects
    <2>3. BatchOK'
      <3>1. nextFrame' \in 1 .. NumFrames + 1
        BY <2>2, PipelineAssumption DEF TypeOK, BatchOK
      <3>2. pending' \in Seq(Frames) /\ Len(pending') <= config'.batchSize
        BY <2>1, <2>2, TruncatedFields
      <3>3. pendingIdx' \in Nat /\ pendingIdx' <= Len(pending')
        BY <2>1, <3>2, LenProperties
      <3> QED BY <2>1, <3>1, <3>2, <3>3, Zenon DEF TypeOK, BatchOK
    <2>4. CallOK'
      BY <2>1 DEF TypeOK, CallOK
    <2> QED BY <1>0, <2>1, <2>3, <2>4, PartsKept DEF TypeOK
  <1> QED BY <1>1, <1>2, <1>3, <1>4 DEF StepContinues, Attempt

(* A consumer that takes a message changes the ring of its sink only.      *)
LEMMA ConsumerTypes ==
    ASSUME TypeOK, NEW s \in Sinks, ConsumerPop(s)
    PROVE  TypeOK'
  <1>1. UNCHANGED <<config, kind, nextFrame, exhausted, pending, pendingIdx, initialized,
                    registered, messagesOut, messagesDropped, refilled, target, retries, accepted,
                    dropped, skipped, rrNext, pc, outcome>>
    BY DEF ConsumerPop, inputs, source, batch, lifecycle, counters, callState, fates
  <1> DEFINE w == Popped(sinks[s])
  <1>2. sinks' = [sinks EXCEPT ![s] = w]
    BY DEF ConsumerPop
  <1>3. /\ w \in [ring : Seq(Frames), written : Nat]
        /\ Len(w.ring) = Len(sinks[s].ring) - 1 /\ Len(sinks[s].ring) <= SlotCount
        /\ Len(sinks[s].ring) \in Nat
    BY SinkOperations, LenProperties DEF ConsumerPop, TypeOK, SinksOK
  <1>4. Len(w.ring) <= SlotCount
    BY <1>3, SlotAssumption
  <1> HIDE DEF w
  <1>5. SinksOK'
    BY <1>1, <1>2, <1>3, <1>4 DEF TypeOK, SinksOK
  <1> QED BY <1>1, <1>5, PartsKept DEF TypeOK

(* Every step keeps the types.                                             *)
LEMMA TypesNext == TypeOK /\ [PipelineNext]_pipelineVars => TypeOK'
  <1>1. ASSUME TypeOK, UNCHANGED pipelineVars PROVE TypeOK'
    BY <1>1, PartsKept DEF pipelineVars, inputs, source, batch, lifecycle, counters, callState,
                           fates, TypeOK
  <1> QED BY <1>1, LifecycleTypes, StepTypes, ConsumerTypes DEF PipelineNext

(* The fields of the pipeline keep their types, the cursor stays in the    *)
(* batch, a step never works on a pipeline that is not initialized and no  *)
(* sink holds more messages than it has slots, whatever the caller does.   *)
THEOREM TypesHold == PipelineSpec => []TypeOK
  BY TypesInit, TypesNext, PTL DEF PipelineSpec

-----------------------------------------------------------------------------
(* What a step does to the frames                                          *)

(* A session begins; there is no session (any more); a poll; one frame is  *)
(* filtered out, dropped, or accepted by sink s; nothing happens to any.   *)
Begins ==
    /\ initialized' /\ nextFrame' = 1 /\ pending' = <<>> /\ pendingIdx' = 0
    /\ accepted' = [s \in Sinks |-> <<>>] /\ dropped' = {} /\ skipped' = {}

Ends == ~initialized' /\ pending' = <<>> /\ UNCHANGED <<accepted, dropped, skipped>>

Polls(n) ==
    /\ n <= PollMax /\ nextFrame + n <= NumFrames + 1
    /\ ~HavePending /\ pending' = Truncated(n) /\ pendingIdx' = 0 /\ nextFrame' = nextFrame + n
    /\ UNCHANGED <<config, initialized, accepted, dropped, skipped>>

Advances ==
    /\ HavePending /\ initialized /\ pendingIdx' = pendingIdx + 1
    /\ UNCHANGED <<nextFrame, pending, initialized>>

Skips == Advances /\ skipped' = skipped \cup {CurrentFrame} /\ UNCHANGED <<accepted, dropped>>

Drops == Advances /\ dropped' = dropped \cup {CurrentFrame} /\ UNCHANGED <<accepted, skipped>>

Accepts(s) ==
    /\ Advances /\ accepted' = [accepted EXCEPT ![s] = Append(@, CurrentFrame)]
    /\ UNCHANGED <<dropped, skipped>>

Rests == UNCHANGED <<nextFrame, pending, pendingIdx, initialized, accepted, dropped, skipped>>

FrameStep ==
    \/ Begins \/ Ends \/ (\E n \in Nat : Polls(n)) \/ Skips \/ Drops
    \/ (\E s \in Sinks : Accepts(s)) \/ Rests

(* A failing init sends the source of an initialized pipeline back to its  *)
(* first frame; every other step is one of the above.                      *)
LEMMA StepContinuesMoves ==
    ASSUME TypeOK, StepContinues
    PROVE  FrameStep
  <1>1. CASE ProcessFrame
    <2>1. initialized /\ HavePending
      BY <1>1 DEF ProcessFrame, TypeOK, CallOK
    <2>2. UNCHANGED <<nextFrame, pending, initialized, accepted, dropped>>
      BY <1>1 DEF ProcessFrame, source, lifecycle
    <2>3. \/ pendingIdx' = pendingIdx + 1 /\ skipped' = skipped \cup {CurrentFrame}
          \/ UNCHANGED <<pendingIdx, skipped>>
      BY <1>1 DEF ProcessFrame
    <2> QED BY <2>1, <2>2, <2>3 DEF FrameStep, Advances, Skips, Rests
  <1>2. CASE Attempt
    <2>1. UNCHANGED <<nextFrame, pending, initialized, skipped>> /\ HavePending /\ initialized
      BY <1>2, AttemptCases DEF AttemptFrame, TypeOK, CallOK
    <2>2. ASSUME NEW s \in registered, Accept(s) PROVE \E t \in Sinks : Accepts(t)
      BY <2>1, <2>2 DEF Accept, Accepts, Advances, TypeOK, SinksOK
    <2>3. ASSUME Drop PROVE Drops
      BY <2>1, <2>3 DEF Drop, Drops, Advances
    <2>4. ASSUME TryOverflow \/ GiveUp("Err") \/ GiveUp("BackPressured") \/ Retry PROVE Rests
      BY <2>1, <2>4 DEF TryOverflow, GiveUp, Retry, Rests
    <2> QED BY <1>2, <2>2, <2>3, <2>4, AttemptCases DEF FrameStep
  <1>3. CASE DrainedExhausted \/ DrainedIdle
    BY <1>3 DEF DrainedExhausted, DrainedIdle, source, batch, lifecycle, fates, FrameStep, Rests
  <1>4. CASE PollDelivers \/ PollEmpty \/ PollFails
    BY <1>4, PollEffects DEF FrameStep, Polls
  <1> QED BY <1>1, <1>2, <1>3, <1>4 DEF StepContinues, Attempt

(* A step moves frames in one of the listed ways, or an init fails on an   *)
(* initialized pipeline.                                                   *)
LEMMA FrameMoves ==
    ASSUME TypeOK, [PipelineNext]_pipelineVars
    PROVE  FrameStep \/ (InitFails /\ initialized)
  <1>1. ASSUME NEW s \in Sinks, RegisterSink(s) PROVE Rests
    BY <1>1 DEF RegisterSink, source, batch, fates, Rests
  <1>2. ASSUME NEW s \in Sinks, ConsumerPop(s) PROVE Rests
    BY <1>2 DEF ConsumerPop, source, batch, lifecycle, fates, Rests
  <1>3. CASE InitCall
    BY <1>3 DEF InitCall, FrameStep, Begins
  <1>4. CASE InitFails
    BY <1>4 DEF InitFails, batch, lifecycle, fates, FrameStep, Ends, TypeOK, BatchOK
  <1>5. CASE ShutdownCall
    BY <1>5 DEF ShutdownCall, fates, FrameStep, Ends
  <1>6. CASE StepBegin \/ UNCHANGED pipelineVars
    BY <1>6 DEF StepBegin, pipelineVars, source, batch, lifecycle, fates, FrameStep, Rests
  <1>7. CASE StepContinues
    BY <1>7, StepContinuesMoves
  <1> QED BY <1>1, <1>2, <1>3, <1>4, <1>5, <1>6, <1>7 DEF PipelineNext, FrameStep

-----------------------------------------------------------------------------
(* Order and uniqueness                                                    *)

(* The frame at the cursor has not been dealt with before, and comes after *)
(* all that have.                                                          *)
LEMMA CurrentIsFresh ==
    ASSUME TypeOK, BatchInOrder, Advances
    PROVE  /\ CurrentFrame \in Frames /\ CurrentFrame < nextFrame
           /\ \A f \in Frames : Settled(f) => f < CurrentFrame
           /\ \A i \in Waiting : i # pendingIdx + 1 => CurrentFrame < pending[i]
           /\ Waiting' \subseteq Waiting /\ pendingIdx + 1 \notin Waiting'
           /\ Waiting \subseteq Waiting' \cup {pendingIdx + 1}
  <1>1. /\ CurrentFrame \in Frames /\ CurrentFrame = pending[pendingIdx + 1]
        /\ pendingIdx + 1 \in 1 .. Len(pending) /\ pendingIdx + 1 \in Waiting
    BY CurrentFrameType DEF Advances
  <1>2. pendingIdx \in Nat /\ Len(pending) \in Nat
    BY LenProperties DEF TypeOK, BatchOK
  <1>3. Waiting = pendingIdx + 1 .. Len(pending) /\ Waiting' = pendingIdx + 2 .. Len(pending)
    BY <1>2 DEF Advances, Waiting
  <1>4. CurrentFrame < nextFrame /\ \A f \in Frames : Settled(f) => f < CurrentFrame
    BY <1>1 DEF BatchInOrder, Advances
  <1>5. \A i \in Waiting : i # pendingIdx + 1 => CurrentFrame < pending[i]
    <2> SUFFICES ASSUME NEW i \in Waiting, i # pendingIdx + 1
                 PROVE  pending[pendingIdx + 1] < pending[i]
      BY <1>1
    <2>1. i \in 1 .. Len(pending) /\ pendingIdx + 1 \in 1 .. i - 1
      BY <1>2, <1>3
    <2> QED BY <2>1 DEF BatchInOrder
  <1> QED BY <1>1, <1>2, <1>3, <1>4, <1>5

(* What a sink has accepted is in range, and is settled.                   *)
LEMMA AcceptedAreSettled ==
    ASSUME TypeOK, NEW s \in Sinks
    PROVE  /\ accepted[s] \in Seq(Frames) /\ Len(accepted[s]) \in Nat
           /\ \A i \in Places(s) : accepted[s][i] \in Frames /\ Settled(accepted[s][i])
  <1>1. accepted[s] \in Seq(Frames) /\ Len(accepted[s]) \in Nat
    BY LenProperties DEF TypeOK, HistoryOK
  <1>2. \A i \in Places(s) : accepted[s][i] \in Frames
    BY <1>1, ElementOfSeq DEF Places
  <1> QED BY <1>1, <1>2 DEF Settled

(* The elements of the histories after an acceptance.                      *)
LEMMA AcceptedElements ==
    ASSUME TypeOK, NEW s \in Sinks, Accepts(s)
    PROVE  /\ \A t \in Sinks : t # s => accepted'[t] = accepted[t] /\ Places(t)' = Places(t)
           /\ Places(s)' = 1 .. Len(accepted[s]) + 1
           /\ Len(accepted'[s]) = Len(accepted[s]) + 1
           /\ \A i \in Places(s) : accepted'[s][i] = accepted[s][i]
           /\ accepted'[s][Len(accepted[s]) + 1] = CurrentFrame
  <1>1. CurrentFrame \in Frames
    BY CurrentFrameType DEF Accepts, Advances
  <1>2. accepted[s] \in Seq(Frames) /\ accepted \in [Sinks -> Seq(Frames)]
    BY DEF TypeOK, HistoryOK
  <1>3. accepted'[s] = Append(accepted[s], CurrentFrame)
        /\ \A t \in Sinks : t # s => accepted'[t] = accepted[t]
    BY <1>2 DEF Accepts
  <1>4. Len(accepted'[s]) = Len(accepted[s]) + 1
        /\ (\A i \in 1 .. Len(accepted[s]) : accepted'[s][i] = accepted[s][i])
        /\ accepted'[s][Len(accepted[s]) + 1] = CurrentFrame
    BY <1>1, <1>2, <1>3, AppendProperties
  <1> QED BY <1>3, <1>4 DEF Places

(* The frames dealt with after a step are those from before and the one at *)
(* the cursor.                                                             *)
LEMMA SettledGrows ==
    ASSUME TypeOK, Skips \/ Drops \/ (\E s \in Sinks : Accepts(s)), NEW f \in Frames
    PROVE  Settled(f)' <=> Settled(f) \/ f = CurrentFrame
  <1>1. CASE Skips \/ Drops
    BY <1>1 DEF Skips, Drops, Settled, Places
  <1>2. ASSUME NEW s \in Sinks, Accepts(s)
        PROVE  Settled(f)' <=> Settled(f) \/ f = CurrentFrame
    <2>1. UNCHANGED <<dropped, skipped>>
      BY <1>2 DEF Accepts
    <2>2. Len(accepted[s]) \in Nat
      BY AcceptedAreSettled
    <2>3. ASSUME NEW t \in Sinks, NEW i \in Places(t)', accepted'[t][i] = f
          PROVE  f = CurrentFrame \/ \E j \in Places(t) : accepted[t][j] = f
      <3>1. CASE t # s
        BY <1>2, <2>3, <3>1, AcceptedElements
      <3>2. CASE t = s /\ i \in Places(s)
        BY <1>2, <2>3, <3>2, AcceptedElements
      <3>3. CASE t = s /\ i \notin Places(s)
        <4>1. i = Len(accepted[s]) + 1
          BY <1>2, <2>2, <2>3, <3>3, AcceptedElements DEF Places
        <4> QED BY <1>2, <2>3, <3>3, <4>1, AcceptedElements
      <3> QED BY <3>1, <3>2, <3>3
    <2>4. ASSUME NEW t \in Sinks, NEW i \in Places(t)
          PROVE  i \in Places(t)' /\ accepted'[t][i] = accepted[t][i]
      <3>1. CASE t # s
        BY <1>2, <3>1, AcceptedElements
      <3>2. CASE t = s
        BY <1>2, <2>2, <3>2, AcceptedElements DEF Places
      <3> QED BY <3>1, <3>2
    <2>5. Len(accepted[s]) + 1 \in Places(s)' /\ accepted'[s][Len(accepted[s]) + 1] = CurrentFrame
      BY <1>2, <2>2, AcceptedElements
    <2> QED BY <2>1, <2>3, <2>4, <2>5 DEF Settled
  <1> QED BY <1>1, <1>2

(* The order of the batch and of the frames dealt with is kept.            *)
LEMMA BatchInOrderKept ==
    ASSUME TypeOK, TypeOK', BatchInOrder, FrameStep
    PROVE  BatchInOrder'
  <1>1. CASE Begins
    <2>1. Len(pending') = 0 /\ \A s \in Sinks : Len(accepted'[s]) = 0
      BY <1>1, EmptySeq DEF Begins
    <2>2. \A f \in Frames : ~Settled(f)'
      BY <1>1, <2>1 DEF Begins, Settled, Places
    <2> QED BY <2>1, <2>2 DEF BatchInOrder
  <1>2. CASE Ends
    BY <1>2, EmptySeq DEF Ends, BatchInOrder
  <1>3. ASSUME NEW n \in Nat, Polls(n) PROVE BatchInOrder'
    <2>1. \A f \in Frames : Settled(f)' <=> Settled(f)
      BY <1>3 DEF Polls, Settled, Places
    <2>2. /\ nextFrame \in Nat /\ Len(pending') \in Nat /\ Len(pending') <= n
          /\ \A i \in 1 .. Len(pending') : pending'[i] = nextFrame + i - 1
      BY <1>3, TruncatedFields, LenProperties DEF Polls, TypeOK, BatchOK
    <2>3. ASSUME NEW i \in 1 .. Len(pending')
          PROVE  pending'[i] < nextFrame' /\ \A j \in 1 .. i - 1 : pending'[j] < pending'[i]
      <3>1. i \in Nat /\ i <= n /\ nextFrame' = nextFrame + n /\ pending'[i] = nextFrame + i - 1
        BY <1>3, <2>2 DEF Polls
      <3>2. ASSUME NEW j \in 1 .. i - 1 PROVE pending'[j] < pending'[i]
        <4>1. j \in 1 .. Len(pending') /\ j < i
          BY <2>2
        <4> QED BY <2>2, <3>1, <4>1
      <3> QED BY <2>2, <3>1, <3>2
    <2>4. ASSUME initialized', NEW f \in Frames, Settled(f)
          PROVE  f < nextFrame' /\ \A i \in Waiting' : f < pending'[i]
      <3>1. f < nextFrame /\ f \in Nat
        BY <1>3, <2>4 DEF Polls, BatchInOrder, Frames
      <3>2. Waiting' = 1 .. Len(pending')
        BY <1>3 DEF Polls, Waiting
      <3> QED BY <1>3, <2>2, <3>1, <3>2 DEF Polls
    <2> QED BY <2>1, <2>3, <2>4 DEF BatchInOrder
  <1>4. CASE Skips \/ Drops \/ (\E s \in Sinks : Accepts(s))
    <2>1. Advances
      BY <1>4 DEF Skips, Drops, Accepts
    <2>2. \A f \in Frames : Settled(f)' <=> Settled(f) \/ f = CurrentFrame
      BY <1>4, SettledGrows
    <2>3. UNCHANGED <<nextFrame, pending, initialized>>
      BY <2>1 DEF Advances
    <2>4. ASSUME NEW f \in Frames, Settled(f)', initialized'
          PROVE  f < nextFrame' /\ \A i \in Waiting' : f < pending'[i]
      <3>1. CASE Settled(f)
        BY <2>1, <2>3, <2>4, <3>1, CurrentIsFresh DEF BatchInOrder
      <3>2. CASE f = CurrentFrame
        BY <2>1, <2>3, <3>2, CurrentIsFresh
      <3> QED BY <2>2, <2>4, <3>1, <3>2
    <2> QED BY <2>3, <2>4 DEF BatchInOrder
  <1>5. CASE Rests
    BY <1>5 DEF Rests, BatchInOrder, Settled, Places, Waiting
  <1> QED BY <1>1, <1>2, <1>3, <1>4, <1>5 DEF FrameStep

(* No frame gets a second fate, and every sink keeps the source's order.   *)
LEMMA FatesKept ==
    ASSUME TypeOK, TypeOK', BatchInOrder, OneFate, PerSinkOrder, FrameStep
    PROVE  OneFate' /\ PerSinkOrder'
  <1>1. CASE Begins
    <2>1. \A s \in Sinks : Places(s)' = {}
      BY <1>1, EmptySeq DEF Begins, Places
    <2> QED BY <1>1, <2>1 DEF Begins, OneFate, PerSinkOrder
  <1>2. CASE Ends \/ Rests \/ \E n \in Nat : Polls(n)
    <2>1. UNCHANGED <<accepted, dropped, skipped>>
      BY <1>2 DEF Ends, Rests, Polls
    <2> QED BY <2>1 DEF OneFate, PerSinkOrder, Places
  <1>3. CASE Skips \/ Drops
    <2>1. Advances /\ UNCHANGED accepted
      BY <1>3 DEF Skips, Drops
    <2>2. CurrentFrame \in Frames /\ ~Settled(CurrentFrame)
      BY <2>1, CurrentIsFresh DEF Frames
    <2>3. /\ CurrentFrame \notin dropped \cup skipped
          /\ \A s \in Sinks : \A i \in Places(s) : accepted[s][i] # CurrentFrame
      BY <2>2 DEF Settled
    <2>4. dropped' \cup skipped' = dropped \cup skipped \cup {CurrentFrame}
          /\ dropped' \cap skipped' = {}
      BY <1>3, <2>3 DEF Skips, Drops, OneFate
    <2>5. \A s \in Sinks : Places(s)' = Places(s)
      BY <2>1 DEF Places
    <2>6. ASSUME NEW s \in Sinks, NEW i \in Places(s)
          PROVE  /\ i <= accepted[s][i]
                 /\ accepted[s][i] \notin dropped' \cup skipped'
                 /\ \A t \in Sinks : \A j \in Places(t) :
                      accepted[s][i] = accepted[t][j] => s = t /\ i = j
      BY <2>3, <2>4 DEF OneFate
    <2> QED BY <2>1, <2>4, <2>5, <2>6 DEF OneFate, PerSinkOrder
  <1>4. ASSUME NEW s \in Sinks, Accepts(s) PROVE OneFate' /\ PerSinkOrder'
    <2> DEFINE n == Len(accepted[s])
    <2>1. Advances /\ UNCHANGED <<dropped, skipped>>
      BY <1>4 DEF Accepts
    <2>2. /\ CurrentFrame \in Nat /\ CurrentFrame # 0 /\ ~Settled(CurrentFrame)
          /\ \A f \in Frames : Settled(f) => f < CurrentFrame
      BY <2>1, CurrentIsFresh DEF Frames
    <2>3. n \in Nat /\ Places(s) = 1 .. n
      BY AcceptedAreSettled DEF Places
    <2>4. ASSUME NEW t \in Sinks, NEW i \in Places(t)
          PROVE  /\ accepted[t][i] \in Nat /\ accepted[t][i] < CurrentFrame
                 /\ i <= accepted[t][i] /\ accepted[t][i] \notin dropped \cup skipped
      BY <2>2, AcceptedAreSettled DEF OneFate, Frames
    <2>5. ASSUME NEW t \in Sinks, NEW i \in Places(t)'
          PROVE  \/ i \in Places(t) /\ accepted'[t][i] = accepted[t][i]
                 \/ t = s /\ i = n + 1 /\ accepted'[t][i] = CurrentFrame
      <3>1. CASE t # s
        BY <1>4, <2>5, <3>1, AcceptedElements
      <3>2. CASE t = s
        <4>1. i \in 1 .. n + 1
          BY <1>4, <2>5, <3>2, AcceptedElements
        <4>2. i \in Places(s) \/ i = n + 1
          BY <2>3, <4>1
        <4> QED BY <1>4, <3>2, <4>2, AcceptedElements
      <3> QED BY <3>1, <3>2
    <2>6. n + 1 <= CurrentFrame
      <3>1. CASE n = 0
        BY <2>2, <3>1
      <3>2. CASE n # 0
        <4>1. n \in Places(s)
          BY <2>3, <3>2
        <4>2. /\ accepted[s][n] \in Nat /\ accepted[s][n] < CurrentFrame
              /\ n <= accepted[s][n]
          BY <2>4, <4>1
        <4> HIDE DEF n
        <4> QED BY <2>2, <2>3, <4>2
      <3> QED BY <3>1, <3>2
    <2> HIDE DEF n
    <2>7. CurrentFrame \notin dropped \cup skipped
      BY <2>2 DEF Settled
    <2>8. ASSUME NEW t \in Sinks, NEW i \in Places(t)'
          PROVE  i <= accepted'[t][i] /\ accepted'[t][i] \notin dropped \cup skipped
      BY <2>4, <2>5, <2>6, <2>7
    <2>9. ASSUME NEW t \in Sinks, NEW i \in Places(t)', NEW u \in Sinks, NEW j \in Places(u)',
                 accepted'[t][i] = accepted'[u][j]
          PROVE  t = u /\ i = j
      <3>1. CASE i \in Places(t) /\ accepted'[t][i] = accepted[t][i]
        <4>1. accepted'[t][i] \in Nat /\ accepted'[t][i] < CurrentFrame
          BY <2>4, <3>1
        <4>2. j \in Places(u) /\ accepted'[u][j] = accepted[u][j]
          BY <2>2, <2>5, <2>9, <4>1
        <4>3. accepted[t][i] = accepted[u][j]
          BY <2>9, <3>1, <4>2, Zenon
        <4> QED BY <3>1, <4>2, <4>3 DEF OneFate
      <3>2. CASE t = s /\ i = n + 1 /\ accepted'[t][i] = CurrentFrame
        <4>1. ~(j \in Places(u) /\ accepted'[u][j] = accepted[u][j])
          BY <2>2, <2>4, <2>9, <3>2
        <4> QED BY <2>5, <3>2, <4>1
      <3> QED BY <2>5, <3>1, <3>2
    <2>10. OneFate'
      BY <2>1, <2>8, <2>9 DEF OneFate
    <2>11. ASSUME NEW t \in Sinks, NEW i \in Places(t)', NEW j \in Places(t)', i < j
           PROVE  accepted'[t][i] < accepted'[t][j]
      <3>1. CASE j \in Places(t) /\ accepted'[t][j] = accepted[t][j]
        <4>1. i \in Places(t)
          BY <2>11, <3>1, AcceptedAreSettled DEF Places
        <4>2. accepted'[t][i] = accepted[t][i]
          <5>1. i # n + 1 \/ t # s
            BY <2>3, <4>1
          <5> QED BY <2>5, <5>1
        <4> QED BY <2>11, <3>1, <4>1, <4>2 DEF PerSinkOrder
      <3>2. CASE t = s /\ j = n + 1 /\ accepted'[t][j] = CurrentFrame
        <4>1. i \in Places(t) /\ accepted'[t][i] = accepted[t][i]
          <5>1. i # n + 1
            BY <2>3, <2>11, <3>2
          <5> QED BY <2>5, <5>1
        <4> QED BY <2>4, <3>2, <4>1
      <3> QED BY <2>5, <3>1, <3>2
    <2>12. PerSinkOrder'
      BY <2>11 DEF PerSinkOrder
    <2> QED BY <2>10, <2>12
  <1> QED BY <1>1, <1>2, <1>3, <1>4 DEF FrameStep

-----------------------------------------------------------------------------
(* Completeness                                                            *)

(* No frame is forgotten by a step, if no poll returns more frames than    *)
(* the batch takes.                                                        *)
LEMMA NoneForgottenKept ==
    ASSUME PollsFit, TypeOK, TypeOK', NoneForgotten, [PipelineNext]_pipelineVars
    PROVE  NoneForgotten'
  <1>1. CASE InitFails
    <2>1. UNCHANGED <<pending, pendingIdx, initialized, accepted, dropped, skipped>>
          /\ (nextFrame' = nextFrame \/ nextFrame' = 1)
      BY <1>1 DEF InitFails, batch, lifecycle, fates
    <2>2. \A f \in Frames : f < nextFrame' => f < nextFrame
      BY <2>1 DEF Frames, TypeOK, BatchOK
    <2> QED BY <2>1, <2>2 DEF NoneForgotten, Settled, Places, Waiting
  <1>2. CASE Begins
    BY <1>2 DEF Begins, NoneForgotten, Frames
  <1>3. CASE Ends
    BY <1>3 DEF Ends, NoneForgotten
  <1>4. ASSUME NEW n \in Nat, Polls(n) PROVE NoneForgotten'
    <2>1. \A f \in Frames : Settled(f)' <=> Settled(f)
      BY <1>4 DEF Polls, Settled, Places
    <2>2. n <= config.batchSize
      BY <1>4, ConfigFields, PipelineAssumption DEF Polls, PollsFit, TypeOK
    <2>3. /\ nextFrame \in Nat /\ Len(pending') = n
          /\ \A i \in 1 .. n : pending'[i] = nextFrame + i - 1
      BY <1>4, <2>2, TruncatedFields DEF Polls, TypeOK, BatchOK
    <2>4. Waiting' = 1 .. n /\ Waiting = {} /\ nextFrame' = nextFrame + n
      <3>1. pendingIdx \in Nat /\ Len(pending) \in Nat
        BY LenProperties DEF TypeOK, BatchOK
      <3> QED BY <1>4, <2>3, <3>1 DEF Polls, Waiting, HavePending
    <2>5. ASSUME initialized', NEW f \in Frames, f < nextFrame'
          PROVE  Settled(f)' \/ \E i \in Waiting' : pending'[i] = f
      <3>1. CASE f < nextFrame
        BY <1>4, <2>1, <2>4, <2>5, <3>1 DEF Polls, NoneForgotten
      <3>2. CASE ~(f < nextFrame)
        <4>1. f - nextFrame + 1 \in 1 .. n /\ nextFrame + (f - nextFrame + 1) - 1 = f
          BY <2>3, <2>4, <2>5, <3>2 DEF Frames
        <4> QED BY <2>3, <2>4, <4>1
      <3> QED BY <3>1, <3>2
    <2> QED BY <2>5 DEF NoneForgotten
  <1>5. CASE Skips \/ Drops \/ (\E s \in Sinks : Accepts(s))
    <2>1. Advances
      BY <1>5 DEF Skips, Drops, Accepts
    <2>2. \A f \in Frames : Settled(f)' <=> Settled(f) \/ f = CurrentFrame
      BY <1>5, SettledGrows
    <2>3. UNCHANGED <<nextFrame, pending, initialized>> /\ initialized
      BY <2>1 DEF Advances
    <2>4. Waiting \subseteq Waiting' \cup {pendingIdx + 1} /\ CurrentFrame = pending[pendingIdx + 1]
      <3>1. pendingIdx \in Nat /\ Len(pending) \in Nat
        BY LenProperties DEF TypeOK, BatchOK
      <3> QED BY <2>1, <3>1 DEF Advances, Waiting, CurrentFrame
    <2> QED BY <2>2, <2>3, <2>4 DEF NoneForgotten
  <1>6. CASE Rests
    BY <1>6 DEF Rests, NoneForgotten, Settled, Places, Waiting
  <1> QED BY <1>1, <1>2, <1>3, <1>4, <1>5, <1>6, FrameMoves DEF FrameStep

-----------------------------------------------------------------------------
(* The counters                                                            *)

(* What was delivered or dropped is finite, so that it can be counted.     *)
LEMMA FiniteHistories ==
    ASSUME TypeOK
    PROVE  IsFiniteSet(Deliveries) /\ IsFiniteSet(dropped)
  <1>1. IsFiniteSet(Frames)
    BY PipelineAssumption, FS_Interval DEF Frames
  <1>2. IsFiniteSet(Sinks \X Frames)
    BY <1>1, PipelineAssumption, FS_Product
  <1>3. Deliveries \in SUBSET (Sinks \X Frames) /\ dropped \in SUBSET Frames
    BY DEF Deliveries, TypeOK, HistoryOK
  <1> QED BY <1>1, <1>2, <1>3, FS_Subset

(* The counters and the sinks' own counts follow the histories.            *)
LEMMA CountersKept ==
    ASSUME TypeOK, TypeOK', BatchInOrder, OneFate', CountersAgree, [PipelineNext]_pipelineVars,
           ~(InitFails /\ initialized)
    PROVE  CountersAgree'
  <1>1. CASE InitCall
    <2>1. messagesOut' = 0 /\ messagesDropped' = 0 /\ dropped' = {} /\ UNCHANGED registered
      BY <1>1 DEF InitCall
    <2>2. \A s \in Sinks : Len(accepted'[s]) = 0
      BY <1>1, EmptySeq DEF InitCall
    <2>3. Deliveries' = {}
      BY <2>2 DEF Deliveries, Places
    <2>4. \A s \in registered : sinks'[s].written = 0 /\ s \in Sinks
      BY <1>1 DEF InitCall, TypeOK, SinksOK, ResetRing
    <2> QED BY <2>1, <2>2, <2>3, <2>4, FS_EmptySet DEF CountersAgree
  <1>2. CASE ~initialized'
    BY <1>2 DEF CountersAgree
  <1>3. CASE Attempt
    <2>1. /\ UNCHANGED <<registered, initialized, skipped>> /\ initialized /\ HavePending
          /\ UNCHANGED <<nextFrame, pending>>
      BY <1>3, AttemptCases DEF AttemptFrame, TypeOK, CallOK
    <2>2. ASSUME NEW s \in registered, Accept(s) PROVE CountersAgree'
      <3> DEFINE n == Len(accepted[s])
      <3>1. s \in Sinks /\ Accepts(s)
        BY <2>1, <2>2 DEF Accept, Accepts, Advances, TypeOK, SinksOK
      <3>2. n \in Nat
        BY <3>1, AcceptedAreSettled
      <3>3. n + 1 \in Frames
        <4>1. n + 1 \in Places(s)'
          BY <3>1, <3>2, AcceptedElements
        <4>2. n + 1 <= accepted'[s][n + 1] /\ accepted'[s][n + 1] = CurrentFrame
          BY <3>1, <4>1, AcceptedElements DEF OneFate
        <4>3. CurrentFrame \in Frames
          BY <2>1, CurrentFrameType
        <4> HIDE DEF n
        <4> QED BY <3>2, <4>2, <4>3, PipelineAssumption DEF Frames
      <3>4. Deliveries' = Deliveries \cup {<<s, n + 1>>} /\ <<s, n + 1>> \notin Deliveries
        <4>1. Places(s)' = Places(s) \cup {n + 1} /\ n + 1 \notin Places(s)
          BY <3>1, <3>2, AcceptedElements DEF Places
        <4>2. \A t \in Sinks : t # s => Places(t)' = Places(t)
          BY <3>1, AcceptedElements
        <4> HIDE DEF n
        <4>3. ASSUME NEW d \in Sinks \X Frames
              PROVE  d[2] \in Places(d[1])' <=> d[2] \in Places(d[1]) \/ d = <<s, n + 1>>
          BY <3>1, <3>3, <4>1, <4>2
        <4> QED BY <3>1, <3>3, <4>1, <4>3 DEF Deliveries
      <3>5. Cardinality(Deliveries') = Cardinality(Deliveries) + 1
        BY <3>4, FiniteHistories, FS_AddElement
      <3>6. ASSUME NEW t \in registered PROVE sinks'[t].written = Len(accepted'[t])
        <4>1. t \in Sinks /\ sinks[t].written = Len(accepted[t])
          BY <2>1 DEF CountersAgree, TypeOK, SinksOK
        <4>2. CASE t = s
          <5>1. sinks'[s].written = sinks[s].written + 1
            BY <2>2, <3>1 DEF Accept, Written, TypeOK, SinksOK
          <5> QED BY <3>1, <4>1, <4>2, <5>1, AcceptedElements
        <4>3. CASE t # s
          <5>1. sinks'[t] = sinks[t]
            BY <2>2, <4>1, <4>3 DEF Accept, TypeOK, SinksOK
          <5> QED BY <3>1, <4>1, <4>3, <5>1, AcceptedElements
        <4> QED BY <4>2, <4>3
      <3>7. messagesOut' = messagesOut + 1 /\ UNCHANGED <<messagesDropped, dropped>>
        BY <2>2 DEF Accept
      <3> HIDE DEF n
      <3> QED BY <2>1, <3>5, <3>6, <3>7 DEF CountersAgree
    <2>3. CASE Drop
      <3>1. Advances
        BY <2>1, <2>3 DEF Drop, Advances
      <3>2. CurrentFrame \notin dropped
        BY <3>1, CurrentIsFresh DEF Settled, Frames
      <3>3. UNCHANGED <<sinks, accepted, messagesOut>>
            /\ messagesDropped' = messagesDropped + 1 /\ dropped' = dropped \cup {CurrentFrame}
        BY <2>3 DEF Drop
      <3>4. Cardinality(dropped') = Cardinality(dropped) + 1
        BY <3>2, <3>3, FiniteHistories, FS_AddElement
      <3>5. Deliveries' = Deliveries
        BY <3>3 DEF Deliveries, Places
      <3> QED BY <2>1, <3>3, <3>4, <3>5 DEF CountersAgree
    <2>4. CASE TryOverflow \/ GiveUp("Err") \/ GiveUp("BackPressured") \/ Retry
      BY <2>1, <2>4 DEF TryOverflow, GiveUp, Retry, counters, CountersAgree, Deliveries, Places
    <2> QED BY <1>3, <2>2, <2>3, <2>4, AttemptCases
  <1>4. ASSUME NEW s \in Sinks, ConsumerPop(s) PROVE CountersAgree'
    <2>1. \A t \in Sinks : sinks'[t].written = sinks[t].written
      BY <1>4 DEF ConsumerPop, Popped, TypeOK, SinksOK
    <2>2. UNCHANGED <<initialized, registered, accepted, dropped, messagesOut, messagesDropped>>
      BY <1>4 DEF ConsumerPop, lifecycle, counters, fates
    <2> QED BY <2>1, <2>2 DEF CountersAgree, Deliveries, Places, TypeOK, SinksOK
  <1>5. CASE initialized' /\ UNCHANGED <<registered, initialized, sinks, messagesOut,
                                         messagesDropped, accepted, dropped>>
    BY <1>5 DEF CountersAgree, Deliveries, Places
  <1>6. ASSUME initialized', NEW s \in Sinks, RegisterSink(s) PROVE CountersAgree'
    <2>1. initialized /\ UNCHANGED <<registered, initialized, sinks, messagesOut,
                                     messagesDropped, accepted, dropped>>
      BY <1>6 DEF RegisterSink, counters, fates
    <2> QED BY <1>5, <1>6, <2>1
  <1>7. ASSUME initialized', ~Attempt,
               \/ StepBegin \/ StepContinues \/ UNCHANGED pipelineVars
        PROVE  CountersAgree'
    <2>1. ASSUME PollDelivers \/ PollEmpty \/ PollFails PROVE CountersAgree'
      BY <1>5, <1>7, <2>1, PollEffects
    <2>2. ASSUME ~(PollDelivers \/ PollEmpty \/ PollFails) PROVE CountersAgree'
      BY <1>5, <1>7, <2>2
         DEF StepBegin, StepContinues, Attempt, ProcessFrame, DrainedExhausted, DrainedIdle,
             pipelineVars, lifecycle, counters, fates
    <2> QED BY <2>1, <2>2
  <1>8. InitFails => ~initialized'
    BY DEF InitFails, lifecycle
  <1>9. ShutdownCall => ~initialized'
    BY DEF ShutdownCall
  <1> QED BY <1>1, <1>2, <1>3, <1>4, <1>6, <1>7, <1>8, <1>9
         DEF PipelineNext, StepContinues, Attempt

-----------------------------------------------------------------------------
(* The rings                                                               *)

(* r is the end of a, element by element.                                  *)
IsEndOf(r, a) ==
    Len(r) <= Len(a) /\ \A i \in 1 .. Len(r) : r[i] = a[Len(a) - Len(r) + i]

(* That a sequence is the end of another, element by element.              *)
LEMMA EndOfSequence ==
    ASSUME NEW r \in Seq(Frames), NEW a \in Seq(Frames), Len(r) <= Len(a)
    PROVE  r = SubSeq(a, Len(a) - Len(r) + 1, Len(a)) <=> IsEndOf(r, a)
  <1> DEFINE m == Len(a) - Len(r) + 1
             e == SubSeq(a, m, Len(a))
  <1>1. Len(r) \in Nat /\ Len(a) \in Nat /\ m \in Int /\ m >= 1
    BY LenProperties
  <1>2. \A i \in m .. Len(a) : a[i] \in Frames
    <2> SUFFICES ASSUME NEW i \in m .. Len(a) PROVE a[i] \in Frames
      OBVIOUS
    <2>1. i \in 1 .. Len(a)
      BY <1>1
    <2> QED BY <2>1, ElementOfSeq
  <1>3. /\ e \in Seq(Frames) /\ Len(e) = IF m <= Len(a) THEN Len(a) - m + 1 ELSE 0
        /\ \A i \in 1 .. Len(a) - m + 1 : e[i] = a[m + i - 1]
    <2> HIDE DEF m
    <2> QED BY <1>1, <1>2, SubSeqProperties
  <1>4. Len(e) = Len(r)
    <2> HIDE DEF e
    <2> QED BY <1>1, <1>3
  <1>5. \A i \in 1 .. Len(r) : e[i] = a[Len(a) - Len(r) + i]
    <2> SUFFICES ASSUME NEW i \in 1 .. Len(r) PROVE e[i] = a[Len(a) - Len(r) + i]
      OBVIOUS
    <2>1. i \in 1 .. Len(a) - m + 1 /\ m + i - 1 = Len(a) - Len(r) + i
      BY <1>1
    <2> HIDE DEF m, e
    <2> QED BY <1>3, <2>1
  <1> HIDE DEF e, m
  <1>6. r = e <=> IsEndOf(r, a)
    <2>1. ASSUME r = e PROVE IsEndOf(r, a)
      BY <1>5, <2>1 DEF IsEndOf
    <2>2. ASSUME IsEndOf(r, a) PROVE r = e
      <3>1. \A i \in 1 .. Len(r) : r[i] = e[i]
        BY <1>5, <2>2 DEF IsEndOf
      <3> QED BY <1>3, <1>4, <3>1, SeqEqual
    <2> QED BY <2>1, <2>2
  <1> QED BY <1>6 DEF e, m

(* The property in terms of elements.                                      *)
RingsEnd == initialized => \A s \in registered : IsEndOf(sinks[s].ring, accepted[s])

(* RingHoldsLatest in the form the proof uses.                             *)
LEMMA RingsByElements == TypeOK => (RingHoldsLatest <=> RingsEnd)
  <1> SUFFICES ASSUME TypeOK PROVE RingHoldsLatest <=> RingsEnd
    OBVIOUS
  <1>1. \A s \in registered : sinks[s].ring \in Seq(Frames) /\ accepted[s] \in Seq(Frames)
    BY DEF TypeOK, SinksOK, HistoryOK
  <1>2. ASSUME NEW s \in registered
        PROVE  IsEndOf(sinks[s].ring, accepted[s]) <=>
                 /\ Len(sinks[s].ring) <= Len(accepted[s])
                 /\ sinks[s].ring = SubSeq(accepted[s],
                                           Len(accepted[s]) - Len(sinks[s].ring) + 1,
                                           Len(accepted[s]))
    <2>1. sinks[s].ring \in Seq(Frames) /\ accepted[s] \in Seq(Frames)
      BY <1>1
    <2>2. CASE Len(sinks[s].ring) <= Len(accepted[s])
      BY <2>1, <2>2, EndOfSequence
    <2>3. CASE ~(Len(sinks[s].ring) <= Len(accepted[s]))
      BY <2>3 DEF IsEndOf
    <2> QED BY <2>2, <2>3
  <1> QED BY <1>2 DEF RingHoldsLatest, RingsEnd

(* Writing and reading keep the end of the history in the ring.            *)
LEMMA EndAfterAppend ==
    ASSUME NEW r \in Seq(Frames), NEW a \in Seq(Frames), NEW f \in Frames, IsEndOf(r, a)
    PROVE  IsEndOf(Append(r, f), Append(a, f))
  <1> DEFINE R == Append(r, f)
             A == Append(a, f)
  <1>1. Len(r) \in Nat /\ Len(a) \in Nat /\ Len(r) <= Len(a)
    BY LenProperties DEF IsEndOf
  <1>2. Len(R) = Len(r) + 1 /\ (\A i \in 1 .. Len(r) : R[i] = r[i]) /\ R[Len(r) + 1] = f
    BY AppendProperties
  <1>3. Len(A) = Len(a) + 1 /\ (\A i \in 1 .. Len(a) : A[i] = a[i]) /\ A[Len(a) + 1] = f
    BY AppendProperties
  <1> HIDE DEF R, A
  <1>4. ASSUME NEW i \in 1 .. Len(R) PROVE R[i] = A[Len(A) - Len(R) + i]
    <2>1. Len(A) - Len(R) + i = Len(a) - Len(r) + i
      BY <1>1, <1>2, <1>3
    <2>2. CASE i \in 1 .. Len(r)
      <3>1. Len(a) - Len(r) + i \in 1 .. Len(a)
        BY <1>1, <2>2
      <3>2. r[i] = a[Len(a) - Len(r) + i]
        BY <2>2 DEF IsEndOf
      <3> QED BY <1>2, <1>3, <2>1, <2>2, <3>1, <3>2
    <2>3. CASE i = Len(r) + 1
      <3>1. Len(a) - Len(r) + i = Len(a) + 1
        BY <1>1, <2>3
      <3> QED BY <1>2, <1>3, <2>1, <2>3, <3>1
    <2> QED BY <1>1, <1>2, <2>2, <2>3
  <1>5. Len(R) <= Len(A)
    BY <1>1, <1>2, <1>3
  <1>6. IsEndOf(R, A)
    BY <1>4, <1>5 DEF IsEndOf
  <1> QED BY <1>6 DEF R, A

(* A consumer takes the oldest message: the rest is still an end.          *)
LEMMA EndAfterTail ==
    ASSUME NEW r \in Seq(Frames), NEW a \in Seq(Frames), IsEndOf(r, a), r # <<>>
    PROVE  IsEndOf(Tail(r), a)
  <1>1. Len(r) \in Nat /\ Len(a) \in Nat /\ Len(r) <= Len(a)
    BY LenProperties DEF IsEndOf
  <1>2. Len(Tail(r)) = Len(r) - 1 /\ \A i \in 1 .. Len(Tail(r)) : Tail(r)[i] = r[i + 1]
    BY HeadTailProperties
  <1> DEFINE t == Tail(r)
  <1> HIDE DEF t
  <1>3. Len(t) = Len(r) - 1 /\ \A i \in 1 .. Len(t) : t[i] = r[i + 1]
    BY <1>2 DEF t
  <1>4. ASSUME NEW i \in 1 .. Len(t) PROVE t[i] = a[Len(a) - Len(t) + i]
    <2>1. i + 1 \in 1 .. Len(r) /\ Len(a) - Len(r) + (i + 1) = Len(a) - Len(t) + i
      BY <1>1, <1>3
    <2>2. r[i + 1] = a[Len(a) - Len(r) + (i + 1)]
      BY <2>1 DEF IsEndOf
    <2> QED BY <1>3, <2>1, <2>2
  <1>5. Len(t) <= Len(a)
    BY <1>1, <1>3
  <1>6. IsEndOf(t, a)
    BY <1>4, <1>5 DEF IsEndOf
  <1> QED BY <1>6 DEF t

(* Every ring still holds the latest messages its sink accepted.           *)
LEMMA RingsKept ==
    ASSUME TypeOK, TypeOK', RingsEnd, [PipelineNext]_pipelineVars, ~(InitFails /\ initialized)
    PROVE  RingsEnd'
  <1>0. \A s \in registered : /\ s \in Sinks /\ sinks[s].ring \in Seq(Frames)
                              /\ accepted[s] \in Seq(Frames)
    BY DEF TypeOK, SinksOK, HistoryOK
  <1>1. CASE InitCall
    <2>1. ASSUME NEW s \in registered
          PROVE  sinks'[s].ring = <<>> /\ accepted'[s] = <<>>
      BY <1>0, <1>1 DEF InitCall, ResetRing
    <2>2. IsEndOf(<<>>, <<>>)
      BY EmptySeq DEF IsEndOf
    <2> QED BY <1>1, <2>1, <2>2 DEF InitCall, RingsEnd
  <1>2. CASE ~initialized'
    BY <1>2 DEF RingsEnd
  <1>3. CASE Attempt
    <2>1. UNCHANGED <<registered, initialized>> /\ initialized /\ HavePending
      BY <1>3, AttemptCases DEF AttemptFrame, TypeOK, CallOK
    <2>2. CurrentFrame \in Frames
      BY <2>1, CurrentFrameType
    <2>3. ASSUME NEW s \in registered, Accept(s), NEW t \in registered
          PROVE  IsEndOf(sinks'[t].ring, accepted'[t])
      <3>1. IsEndOf(sinks[t].ring, accepted[t])
        BY <2>1 DEF RingsEnd
      <3>2. CASE t = s
        <4>1. /\ sinks'[s].ring = Append(sinks[s].ring, CurrentFrame)
              /\ accepted'[s] = Append(accepted[s], CurrentFrame)
          BY <1>0, <2>3 DEF Accept, Written, TypeOK, SinksOK, HistoryOK
        <4> QED BY <1>0, <2>2, <3>1, <3>2, <4>1, EndAfterAppend
      <3>3. CASE t # s
        BY <1>0, <2>3, <3>1, <3>3 DEF Accept, TypeOK, SinksOK, HistoryOK
      <3> QED BY <3>2, <3>3
    <2>4. CASE Drop \/ TryOverflow \/ GiveUp("Err") \/ GiveUp("BackPressured") \/ Retry
      BY <2>1, <2>4 DEF Drop, TryOverflow, GiveUp, Retry, RingsEnd
    <2> QED BY <1>3, <2>1, <2>3, <2>4, AttemptCases DEF RingsEnd
  <1>4. ASSUME NEW s \in Sinks, ConsumerPop(s) PROVE RingsEnd'
    <2>1. UNCHANGED <<initialized, registered, accepted>>
      BY <1>4 DEF ConsumerPop, lifecycle, fates
    <2>2. ASSUME initialized, NEW t \in registered PROVE IsEndOf(sinks'[t].ring, accepted[t])
      <3>1. IsEndOf(sinks[t].ring, accepted[t])
        BY <2>2 DEF RingsEnd
      <3>2. CASE t = s
        <4>1. sinks'[s].ring = Tail(sinks[s].ring) /\ sinks[s].ring # <<>>
          BY <1>4 DEF ConsumerPop, Popped, TypeOK, SinksOK
        <4> QED BY <1>0, <3>1, <3>2, <4>1, EndAfterTail
      <3>3. CASE t # s
        BY <1>0, <1>4, <3>1, <3>3 DEF ConsumerPop, TypeOK, SinksOK
      <3> QED BY <3>2, <3>3
    <2> QED BY <2>1, <2>2 DEF RingsEnd
  <1>5. ASSUME initialized', NEW s \in Sinks, RegisterSink(s) PROVE RingsEnd'
    BY <1>5 DEF RegisterSink, fates, RingsEnd
  <1>6. ASSUME ~Attempt, StepBegin \/ StepContinues \/ UNCHANGED pipelineVars
        PROVE  RingsEnd'
    <2>1. ASSUME PollDelivers \/ PollEmpty \/ PollFails PROVE RingsEnd'
      BY <2>1, PollEffects DEF RingsEnd
    <2>2. ASSUME ~(PollDelivers \/ PollEmpty \/ PollFails) PROVE RingsEnd'
      BY <1>6, <2>2
         DEF StepBegin, StepContinues, Attempt, ProcessFrame, DrainedExhausted, DrainedIdle,
             pipelineVars, lifecycle, fates, RingsEnd
    <2> QED BY <2>1, <2>2
  <1>7. InitFails => ~initialized'
    BY DEF InitFails, lifecycle
  <1>8. ShutdownCall => ~initialized'
    BY DEF ShutdownCall
  <1> QED BY <1>1, <1>2, <1>3, <1>4, <1>5, <1>6, <1>7, <1>8 DEF PipelineNext

-----------------------------------------------------------------------------
(* The theorems                                                            *)

(* The invariants of the pipeline hold initially.                          *)
LEMMA PipelineInvInit == PipelineInit => PipelineInv /\ PerSinkOrder /\ NoneForgotten
  <1> SUFFICES ASSUME PipelineInit PROVE PipelineInv /\ PerSinkOrder /\ NoneForgotten
    OBVIOUS
  <1>1. TypeOK /\ ~initialized
    BY TypesInit DEF PipelineInit
  <1>2. Len(pending) = 0 /\ \A s \in Sinks : Places(s) = {}
    BY EmptySeq DEF PipelineInit, Places
  <1>3. CountersAgree /\ RingHoldsLatest /\ NoneForgotten
    BY <1>1 DEF CountersAgree, RingHoldsLatest, NoneForgotten
  <1>4. OneFate /\ PerSinkOrder
    BY <1>2 DEF PipelineInit, OneFate, PerSinkOrder
  <1>5. BatchInOrder
    <2>1. 1 .. Len(pending) = {}
      BY <1>2
    <2> QED BY <1>1, <2>1 DEF BatchInOrder
  <1> QED BY <1>1, <1>3, <1>4, <1>5 DEF PipelineInv

(* Every step keeps the invariants of the pipeline.                        *)
LEMMA PipelineInvNext ==
    ASSUME ~FailedReinit, PipelineInv, PerSinkOrder, [PipelineNext]_pipelineVars
    PROVE  PipelineInv' /\ PerSinkOrder'
  <1>1. TypeOK /\ CountersAgree /\ RingsEnd /\ BatchInOrder /\ OneFate
    BY RingsByElements DEF PipelineInv
  <1>2. TypeOK'
    BY <1>1, TypesNext
  <1>3. ~(InitFails /\ initialized)
    BY DEF InitFails
  <1>4. FrameStep
    BY <1>1, <1>3, FrameMoves
  <1>5. BatchInOrder'
    BY <1>1, <1>2, <1>4, BatchInOrderKept
  <1>6. OneFate' /\ PerSinkOrder'
    BY <1>1, <1>2, <1>4, FatesKept
  <1>7. CountersAgree'
    BY <1>1, <1>2, <1>3, <1>6, CountersKept
  <1>8. RingsEnd'
    BY <1>1, <1>2, <1>3, RingsKept
  <1>9. RingHoldsLatest'
    <2>1. (TypeOK => (RingHoldsLatest <=> RingsEnd))'
      BY RingsByElements, PTL
    <2> QED BY <1>2, <1>8, <2>1
  <1> QED BY <1>2, <1>5, <1>6, <1>7, <1>9 DEF PipelineInv

(* The counts of Fates, from the order and the uniqueness of the fates.    *)
LEMMA FatesCounted ==
    ASSUME PipelineInv, NoneForgotten
    PROVE  FramesAccountedFor
  <1> SUFFICES ASSUME initialized, NEW f \in Frames
               PROVE  Fates(f) = IF f < nextFrame THEN 1 ELSE 0
    BY DEF FramesAccountedFor
  <1> DEFINE W == {i \in Waiting : pending[i] = f}
             D == {d \in Deliveries : accepted[d[1]][d[2]] = f}
  <1>1. TypeOK /\ BatchInOrder /\ OneFate
    BY DEF PipelineInv
  <1>2. f \in Nat /\ nextFrame \in Nat /\ pendingIdx \in Nat /\ Len(pending) \in Nat
    BY <1>1, LenProperties DEF Frames, TypeOK, BatchOK
  <1>3. Fates(f) = Cardinality(W) + Cardinality(D)
                     + (IF f \in dropped THEN 1 ELSE 0) + (IF f \in skipped THEN 1 ELSE 0)
    BY DEF Fates
  <1>4. Waiting \subseteq 1 .. Len(pending)
    BY <1>2 DEF Waiting
  <1>5. Cardinality({}) = 0 /\ \A x : Cardinality({x}) = 1
    BY FS_EmptySet, FS_Singleton
  <1>6. Settled(f) => f < nextFrame /\ W = {}
    BY <1>1, <1>2 DEF BatchInOrder
  <1>7. ~Settled(f) => D = {} /\ f \notin dropped /\ f \notin skipped
    BY DEF Settled, Deliveries
  <1>8. ASSUME NEW i \in Waiting, pending[i] = f
        PROVE  W = {i} /\ f < nextFrame /\ ~Settled(f)
    <2>1. f < nextFrame /\ ~Settled(f)
      BY <1>1, <1>4, <1>6, <1>8 DEF BatchInOrder
    <2>2. ASSUME NEW j \in Waiting, pending[j] = f PROVE j = i
      <3>1. i \in 1 .. Len(pending) /\ j \in 1 .. Len(pending)
        BY <1>4
      <3>2. ~(j < i)
        <4>1. j < i => j \in 1 .. i - 1
          BY <3>1
        <4> QED BY <1>1, <1>2, <1>8, <2>2, <3>1, <4>1 DEF BatchInOrder
      <3>3. ~(i < j)
        <4>1. i < j => i \in 1 .. j - 1
          BY <3>1
        <4> QED BY <1>1, <1>2, <1>8, <2>2, <3>1, <4>1 DEF BatchInOrder
      <3> QED BY <3>1, <3>2, <3>3
    <2> QED BY <1>8, <2>1, <2>2
  <1>9. ASSUME NEW s \in Sinks, NEW i \in Places(s), accepted[s][i] = f
        PROVE  D = {<<s, i>>} /\ f \notin dropped /\ f \notin skipped /\ Settled(f)
    <2>1. f \notin dropped /\ f \notin skipped /\ Settled(f) /\ i <= f
      BY <1>1, <1>9 DEF OneFate, Settled
    <2>2. i \in Frames
      <3>1. i \in Nat /\ i >= 1
        BY <1>1, <1>9, AcceptedAreSettled DEF Places
      <3> QED BY <2>1, <3>1, PipelineAssumption DEF Frames
    <2>3. <<s, i>> \in D
      BY <1>9, <2>2 DEF Deliveries
    <2>4. ASSUME NEW d \in D PROVE d = <<s, i>>
      <3>1. /\ d[1] \in Sinks /\ d[2] \in Places(d[1]) /\ d = <<d[1], d[2]>>
            /\ accepted[d[1]][d[2]] = accepted[s][i]
        BY <1>9 DEF Deliveries
      <3>2. d[1] = s /\ d[2] = i
        BY <1>1, <3>1 DEF OneFate
      <3> QED BY <3>1, <3>2
    <2> QED BY <2>1, <2>3, <2>4
  <1>10. f \in dropped => f \notin skipped
    BY <1>1 DEF OneFate
  <1>11. f \in dropped \cup skipped => D = {} /\ Settled(f)
    BY <1>9 DEF Settled, Deliveries
  <1> HIDE DEF W, D
  <1>12. CASE \E i \in Waiting : pending[i] = f
    <2>1. Cardinality(W) = 1 /\ f < nextFrame /\ ~Settled(f)
      BY <1>5, <1>8, <1>12
    <2> QED BY <1>3, <1>5, <1>7, <2>1
  <1>13. CASE \E s \in Sinks : \E i \in Places(s) : accepted[s][i] = f
    <2>1. Cardinality(D) = 1 /\ f \notin dropped /\ f \notin skipped /\ Settled(f)
      BY <1>5, <1>9, <1>13
    <2> QED BY <1>3, <1>5, <1>6, <2>1
  <1>14. CASE f \in dropped \cup skipped
    BY <1>3, <1>5, <1>6, <1>10, <1>11, <1>14
  <1>15. CASE ~Settled(f) /\ ~\E i \in Waiting : pending[i] = f
    <2>1. W = {} /\ ~(f < nextFrame)
      BY <1>15 DEF NoneForgotten, W
    <2> QED BY <1>3, <1>5, <1>7, <1>15, <2>1
  <1> QED BY <1>12, <1>13, <1>14, <1>15 DEF Settled

(* Types, counters, rings and order.  As long as no init fails on a        *)
(* pipeline that is initialized, messages_out, messages_dropped and the    *)
(* sinks' written() agree with what happened, a ring holds the end of what *)
(* its sink accepted, and no frame has two fates.                          *)
THEOREM PipelineInvHolds ==
    ASSUME ~FailedReinit
    PROVE  PipelineSpec => []PipelineInv
  <1>1. PipelineInit => PipelineInv /\ PerSinkOrder
    BY PipelineInvInit
  <1>2. PipelineInv /\ PerSinkOrder /\ [PipelineNext]_pipelineVars
          => PipelineInv' /\ PerSinkOrder'
    BY PipelineInvNext
  <1> QED BY <1>1, <1>2, PTL DEF PipelineSpec

(* Under the same condition every sink accepts the frames in the order of  *)
(* the source, although a frame that met back-pressure is routed again.    *)
THEOREM PerSinkOrderHolds ==
    ASSUME ~FailedReinit
    PROVE  PipelineSpec => []PerSinkOrder
  <1>1. PipelineInit => PipelineInv /\ PerSinkOrder
    BY PipelineInvInit
  <1>2. PipelineInv /\ PerSinkOrder /\ [PipelineNext]_pipelineVars
          => PipelineInv' /\ PerSinkOrder'
    BY PipelineInvNext
  <1> QED BY <1>1, <1>2, PTL DEF PipelineSpec

(* What a write in progress relies on: its target is one of the frame's    *)
(* sinks, and the overflow sink is tried only after the target was full.   *)
WritesRouted ==
    /\ pc \in {"write", "overflow"} => target \in Routed(CurrentFrame)
    /\ pc = "overflow" =>
         /\ config.backpressure = "Overflow" /\ config.overflowSink \notin {NoSink, target}
         /\ HadFilled(target, CurrentFrame)

(* The placement routes a frame to one of its sinks.                       *)
LEMMA RouteIsRouted ==
    ASSUME TypeOK, NEW f \in Frames
    PROVE  Route(f) \in Routed(f)
  <1>1. CASE config.placement = "round_robin"
    <2>1. Len(RouteSinks) \in Nat /\ Len(RouteSinks) # 0 /\ DOMAIN RouteSinks = 1 .. Len(RouteSinks)
      BY PipelineAssumption, LenProperties, EmptySeq
    <2>2. rrNext \in 0 .. Len(RouteSinks) - 1
      BY DEF TypeOK, CallOK
    <2>3. (rrNext % Len(RouteSinks)) + 1 \in DOMAIN RouteSinks
      BY <2>1, <2>2
    <2>4. Route(f) = RouteSinks[(rrNext % Len(RouteSinks)) + 1]
      BY <1>1 DEF Route
    <2> QED BY <1>1, <2>3, <2>4 DEF Routed
  <1>2. CASE config.placement # "round_robin"
    BY <1>2 DEF Routed
  <1> QED BY <1>1, <1>2

(* A sink that is full has taken a ring full of messages since init, and   *)
(* all of them came before the frame at the cursor.                        *)
LEMMA FullHadFilled ==
    ASSUME PipelineInv, HavePending, initialized, NEW s \in registered, Full(s)
    PROVE  HadFilled(s, CurrentFrame)
  <1>1. TypeOK /\ RingsEnd /\ BatchInOrder /\ s \in Sinks
    BY RingsByElements DEF PipelineInv, TypeOK, SinksOK
  <1>2. SlotCount \in 1 .. Len(accepted[s])
    <2>1. Len(sinks[s].ring) <= Len(accepted[s])
      BY <1>1 DEF RingsEnd, IsEndOf
    <2>2. Len(accepted[s]) \in Nat
      BY <1>1, AcceptedAreSettled
    <2> QED BY <2>1, <2>2, SlotAssumption DEF Full
  <1>3. accepted[s][SlotCount] \in Frames /\ Settled(accepted[s][SlotCount])
    BY <1>1, <1>2, AcceptedAreSettled DEF Places
  <1>4. CurrentFrame = pending[pendingIdx + 1] /\ pendingIdx + 1 \in Waiting
    BY <1>1, CurrentFrameType
  <1>5. accepted[s][SlotCount] < CurrentFrame
    BY <1>1, <1>3, <1>4 DEF BatchInOrder
  <1> QED BY <1>2, <1>5 DEF HadFilled

(* A sink that had been filled stays so while the session lasts.           *)
LEMMA HadFilledKept ==
    ASSUME TypeOK, UNCHANGED accepted \/ (\E t \in Sinks : Accepts(t)),
           NEW s \in Sinks, NEW f, HadFilled(s, f)
    PROVE  HadFilled(s, f)'
  <1>1. CASE UNCHANGED accepted
    BY <1>1 DEF HadFilled
  <1>2. ASSUME NEW t \in Sinks, Accepts(t) PROVE HadFilled(s, f)'
    <2>1. Len(accepted[s]) \in Nat /\ SlotCount \in Places(s)
      BY AcceptedAreSettled, SlotAssumption DEF HadFilled, Places
    <2>2. accepted'[s][SlotCount] = accepted[s][SlotCount] /\ Len(accepted'[s]) >= Len(accepted[s])
      <3>1. CASE s # t
        BY <1>2, <2>1, <3>1, AcceptedElements
      <3>2. CASE s = t
        BY <1>2, <2>1, <3>2, AcceptedElements
      <3> QED BY <3>1, <3>2
    <2>3. Len(accepted'[s]) \in Nat
      BY <2>1, <1>2, AcceptedElements
    <2> QED BY <2>1, <2>2, <2>3, SlotAssumption DEF HadFilled
  <1> QED BY <1>1, <1>2

(* No step changes the configuration.                                      *)
LEMMA ConfigKept == [PipelineNext]_pipelineVars => UNCHANGED config
  BY DEF PipelineNext, pipelineVars, inputs, StepContinues, RegisterSink, InitCall, InitFails,
         ShutdownCall, StepBegin, ProcessFrame, WriteAttempt, OverflowAttempt, DrainedExhausted,
         DrainedIdle, PollDelivers, PollEmpty, PollFails, RefillPending, ConsumerPop

(* So a frame keeps its sinks, whatever the round robin does.              *)
LEMMA RoutedKept ==
    ASSUME TypeOK, UNCHANGED config, NEW f \in Frames
    PROVE  Routed(f)' = Routed(f) /\ Routed(f) \subseteq Sinks
  <1>1. /\ DOMAIN RouteSinks = 1 .. Len(RouteSinks)
        /\ \A i \in 1 .. Len(RouteSinks) : RouteSinks[i] \in Sinks
    BY PipelineAssumption, LenProperties, ElementOfSeq
  <1>2. CASE config.placement = "round_robin"
    BY <1>1, <1>2 DEF Routed
  <1>3. CASE config.placement \in {"fixed", "hash"}
    <2>1. Route(f)' = Route(f)
      BY <1>3 DEF Route
    <2>2. Route(f) \in Sinks
      BY RouteType
    <2> QED BY <1>3, <2>1, <2>2 DEF Routed
  <1> QED BY <1>2, <1>3, ConfigFields

(* A reason to drop or to divert a frame stays one.                        *)
LEMMA ReasonsKept ==
    ASSUME TypeOK, UNCHANGED config, UNCHANGED accepted \/ (\E t \in Sinks : Accepts(t)),
           NEW f \in Frames
    PROVE  /\ MayDrop(f) => MayDrop(f)'
           /\ \A s \in Sinks : MayDivert(f, s) => MayDivert(f, s)'
  <1>1. Routed(f)' = Routed(f) /\ Routed(f) \subseteq Sinks
    BY RoutedKept
  <1>2. \A t \in Sinks : HadFilled(t, f) => HadFilled(t, f)'
    BY HadFilledKept
  <1> QED BY <1>1, <1>2, ConfigFields DEF MayDrop, MayDivert

(* What a write does, and its reason.                                      *)
LEMMA WriteReasons ==
    ASSUME PipelineInv, WritesRouted, Attempt
    PROVE  \/ \E s \in registered : /\ Accepts(s)
                                    /\ s \in Routed(CurrentFrame) \/ MayDivert(CurrentFrame, s)
           \/ Drops /\ MayDrop(CurrentFrame)
           \/ UNCHANGED <<accepted, dropped>>
  <1>1. /\ TypeOK /\ HavePending /\ initialized /\ AttemptFrame
        /\ pc \in {"write", "overflow"} /\ target \in Routed(CurrentFrame)
    BY AttemptCases DEF PipelineInv, TypeOK, CallOK, WritesRouted
  <1>2. \A s \in registered : Accept(s) => Accepts(s)
    BY <1>1 DEF Accept, Accepts, Advances, AttemptFrame
  <1>3. Drop => Drops
    BY <1>1 DEF Drop, Drops, Advances, AttemptFrame
  <1>4. \A s \in registered : Full(s) => HadFilled(s, CurrentFrame)
    BY <1>1, FullHadFilled
  <1>5. CASE WriteAttempt
    <2>1. ASSUME Drop, target \in registered, Full(target),
                 config.backpressure \in {"DropNewest", "DropOldest", "Overflow"},
                 config.backpressure = "Overflow" => config.overflowSink \in {NoSink, target}
          PROVE  MayDrop(CurrentFrame)
      BY <1>1, <1>4, <2>1 DEF MayDrop
    <2>2. TryOverflow \/ GiveUp("Err") \/ GiveUp("BackPressured") \/ Retry
            => UNCHANGED <<accepted, dropped>>
      BY DEF TryOverflow, GiveUp, Retry
    <2> QED BY <1>1, <1>2, <1>3, <1>5, <2>1, <2>2, WriteCases
  <1>6. CASE OverflowAttempt
    <2> DEFINE o == config.overflowSink
    <2>1. config.backpressure = "Overflow" /\ HadFilled(target, CurrentFrame)
      BY <1>1, <1>6, OverflowCases DEF WritesRouted
    <2>2. MayDivert(CurrentFrame, o)
      BY <1>1, <2>1 DEF MayDivert
    <2>3. o \in registered /\ Full(o) => MayDrop(CurrentFrame)
      BY <1>1, <1>4, <2>1 DEF MayDrop
    <2>4. GiveUp("Err") => UNCHANGED <<accepted, dropped>>
      BY DEF GiveUp
    <2> HIDE DEF o
    <2>5. \/ o \in registered /\ Accept(o)
          \/ o \in registered /\ Full(o) /\ Drop
          \/ GiveUp("Err")
      BY <1>1, <1>6, OverflowCases DEF o
    <2> QED BY <1>2, <1>3, <2>2, <2>3, <2>4, <2>5
  <1> QED BY <1>5, <1>6 DEF Attempt

(* A step that delivers or drops the frame at the cursor for a reason.     *)
LEMMA DeliveryKeepsReasons ==
    ASSUME TypeOK, UNCHANGED config, RefusedOnlyWhenFull,
           NEW s \in Sinks, Accepts(s),
           s \in Routed(CurrentFrame) \/ MayDivert(CurrentFrame, s)
    PROVE  RefusedOnlyWhenFull'
  <1>1. initialized /\ UNCHANGED <<initialized, dropped>> /\ CurrentFrame \in Frames
    BY CurrentFrameType DEF Accepts, Advances
  <1>2. ASSUME NEW f \in Frames, f \in dropped' PROVE MayDrop(f)'
    BY <1>1, <1>2, ReasonsKept DEF RefusedOnlyWhenFull
  <1>3. ASSUME NEW f \in Frames, NEW t \in Sinks \ Routed(f)', NEW i \in Places(t)',
               accepted'[t][i] = f
        PROVE  MayDivert(f, t)'
    <2>1. t \in Sinks \ Routed(f)
      BY <1>3, RoutedKept
    <2>2. CASE i \in Places(t) /\ accepted'[t][i] = accepted[t][i]
      <3>1. MayDivert(f, t)
        BY <1>1, <1>3, <2>1, <2>2 DEF RefusedOnlyWhenFull
      <3> QED BY <2>1, <3>1, ReasonsKept
    <2>3. CASE t = s /\ accepted'[t][i] = CurrentFrame
      <3>1. MayDivert(f, t)
        BY <1>3, <2>1, <2>3
      <3> QED BY <2>1, <3>1, ReasonsKept
    <2>4. \/ i \in Places(t) /\ accepted'[t][i] = accepted[t][i]
          \/ t = s /\ accepted'[t][i] = CurrentFrame
      <3>1. CASE t # s
        BY <1>3, <2>1, <3>1, AcceptedElements
      <3>2. CASE t = s
        <4>1. Len(accepted[s]) \in Nat /\ i \in 1 .. Len(accepted[s]) + 1
          BY <1>3, <3>2, AcceptedElements, AcceptedAreSettled
        <4>2. i \in Places(s) \/ i = Len(accepted[s]) + 1
          BY <4>1 DEF Places
        <4> QED BY <3>2, <4>2, AcceptedElements
      <3> QED BY <3>1, <3>2
    <2> QED BY <2>2, <2>3, <2>4
  <1> QED BY <1>2, <1>3 DEF RefusedOnlyWhenFull

(* Every fate has its reason after a step, too.                            *)
LEMMA RefusalsKept ==
    ASSUME PipelineInv, WritesRouted, RefusedOnlyWhenFull, [PipelineNext]_pipelineVars,
           ~(InitFails /\ initialized)
    PROVE  RefusedOnlyWhenFull'
  <1>1. TypeOK /\ UNCHANGED config
    BY ConfigKept DEF PipelineInv
  <1>2. ASSUME UNCHANGED <<accepted, dropped>>, initialized' => initialized
        PROVE  RefusedOnlyWhenFull'
    <2>1. ASSUME initialized', NEW f \in Frames, f \in dropped' PROVE MayDrop(f)'
      BY <1>1, <1>2, <2>1, ReasonsKept DEF RefusedOnlyWhenFull
    <2>2. ASSUME initialized', NEW f \in Frames, NEW t \in Sinks \ Routed(f)',
                 \E i \in Places(t)' : accepted'[t][i] = f
          PROVE  MayDivert(f, t)'
      <3>1. t \in Sinks \ Routed(f) /\ \E i \in Places(t) : accepted[t][i] = f
        BY <1>1, <1>2, <2>2, RoutedKept DEF Places
      <3>2. MayDivert(f, t)
        BY <1>2, <2>2, <3>1 DEF RefusedOnlyWhenFull
      <3> QED BY <1>1, <1>2, <3>1, <3>2, ReasonsKept
    <2> QED BY <2>1, <2>2 DEF RefusedOnlyWhenFull
  <1>3. CASE Attempt
    <2>1. initialized /\ initialized'
      BY <1>1, <1>3, AttemptCases DEF AttemptFrame, TypeOK, CallOK
    <2>2. ASSUME NEW s \in registered, Accepts(s),
                 s \in Routed(CurrentFrame) \/ MayDivert(CurrentFrame, s)
          PROVE  RefusedOnlyWhenFull'
      <3>1. s \in Sinks
        BY <1>1 DEF TypeOK, SinksOK
      <3> QED BY <1>1, <2>2, <3>1, DeliveryKeepsReasons
    <2>3. ASSUME Drops, MayDrop(CurrentFrame) PROVE RefusedOnlyWhenFull'
      <3>1. UNCHANGED accepted /\ dropped' = dropped \cup {CurrentFrame}
        BY <2>3 DEF Drops
      <3>2. ASSUME NEW f \in Frames, f \in dropped' PROVE MayDrop(f)'
        <4>1. MayDrop(f)
          BY <2>1, <2>3, <3>1, <3>2 DEF RefusedOnlyWhenFull
        <4> QED BY <1>1, <3>1, <4>1, ReasonsKept
      <3>3. ASSUME NEW f \in Frames, NEW t \in Sinks \ Routed(f)',
                   \E i \in Places(t)' : accepted'[t][i] = f
            PROVE  MayDivert(f, t)'
        <4>1. t \in Sinks \ Routed(f) /\ \E i \in Places(t) : accepted[t][i] = f
          BY <1>1, <3>1, <3>3, RoutedKept DEF Places
        <4>2. MayDivert(f, t)
          BY <2>1, <4>1 DEF RefusedOnlyWhenFull
        <4> QED BY <1>1, <3>1, <4>1, <4>2, ReasonsKept
      <3> QED BY <3>2, <3>3 DEF RefusedOnlyWhenFull
    <2> QED BY <1>2, <1>3, <2>1, <2>2, <2>3, WriteReasons
  <1>4. CASE InitCall
    <2>1. \A s \in Sinks : Places(s)' = {}
      BY <1>4, EmptySeq DEF InitCall, Places
    <2>2. dropped' = {}
      BY <1>4 DEF InitCall
    <2> QED BY <2>1, <2>2 DEF RefusedOnlyWhenFull
  <1>5. CASE ~initialized'
    BY <1>5 DEF RefusedOnlyWhenFull
  <1>6. CASE PollDelivers \/ PollEmpty \/ PollFails
    BY <1>1, <1>2, <1>6, PollEffects
  <1>7. CASE \/ StepBegin \/ ProcessFrame \/ DrainedExhausted \/ DrainedIdle
             \/ (\E s \in Sinks : RegisterSink(s) \/ ConsumerPop(s)) \/ UNCHANGED pipelineVars
    BY <1>2, <1>7 DEF StepBegin, ProcessFrame, DrainedExhausted, DrainedIdle, RegisterSink,
                      ConsumerPop, pipelineVars, lifecycle, fates
  <1>8. (InitFails \/ ShutdownCall) => ~initialized'
    BY DEF InitFails, lifecycle, ShutdownCall
  <1> QED BY <1>3, <1>4, <1>5, <1>6, <1>7, <1>8 DEF PipelineNext, StepContinues, Attempt

(* A write in progress goes on as it began.                                *)
LEMMA WritesRoutedKept ==
    ASSUME PipelineInv, WritesRouted, [PipelineNext]_pipelineVars
    PROVE  WritesRouted'
  <1>1. TypeOK /\ UNCHANGED config
    BY ConfigKept DEF PipelineInv
  <1>2. ASSUME pc' \notin {"write", "overflow"} PROVE WritesRouted'
    BY <1>2 DEF WritesRouted
  <1>3. ASSUME UNCHANGED <<pc, target, pending, pendingIdx, accepted>> PROVE WritesRouted'
    <2>1. ASSUME pc \in {"write", "overflow"} PROVE Routed(CurrentFrame)' = Routed(CurrentFrame)
      <3>1. CurrentFrame \in Frames /\ CurrentFrame' = CurrentFrame
        BY <1>1, <1>3, <2>1, CurrentFrameType DEF TypeOK, CallOK, CurrentFrame
      <3> QED BY <1>1, <3>1, RoutedKept DEF Routed, Route
    <2>2. HadFilled(target, CurrentFrame)' <=> HadFilled(target, CurrentFrame)
      BY <1>3 DEF HadFilled, CurrentFrame
    <2> QED BY <1>1, <1>3, <2>1, <2>2 DEF WritesRouted
  <1>4. CASE WriteAttempt
    <2>1. /\ AttemptFrame /\ pc = "write" /\ HavePending /\ initialized
          /\ target \in Routed(CurrentFrame) /\ CurrentFrame \in Frames
      BY <1>1, <1>4, WriteCases, CurrentFrameType DEF WritesRouted, TypeOK, CallOK
    <2>2. ASSUME TryOverflow, target \in registered, Full(target),
                 config.backpressure = "Overflow", config.overflowSink \notin {NoSink, target}
          PROVE  WritesRouted'
      <3>1. HadFilled(target, CurrentFrame)
        BY <2>1, <2>2, FullHadFilled
      <3>2. UNCHANGED <<pending, pendingIdx, accepted, target>> /\ pc' = "overflow"
        BY <2>1, <2>2 DEF TryOverflow, AttemptFrame
      <3>3. CurrentFrame' = CurrentFrame /\ HadFilled(target, CurrentFrame)'
        BY <3>1, <3>2 DEF CurrentFrame, HadFilled
      <3>4. target' \in Routed(CurrentFrame)'
        BY <1>1, <2>1, <3>2, <3>3, RoutedKept DEF Routed, Route
      <3> QED BY <1>1, <2>2, <3>2, <3>3, <3>4 DEF WritesRouted
    <2>3. ASSUME Retry PROVE WritesRouted'
      BY <1>3, <2>1, <2>3 DEF Retry, AttemptFrame
    <2>4. ASSUME (\E s \in registered : Accept(s)) \/ Drop \/ GiveUp("Err")
                 \/ GiveUp("BackPressured")
          PROVE  pc' = "idle"
      BY <2>4 DEF Accept, Drop, GiveUp, Return
    <2> QED BY <1>1, <1>2, <1>4, <2>2, <2>3, <2>4, WriteCases
  <1>5. CASE OverflowAttempt
    <2>1. pc' = "idle"
      BY <1>1, <1>5, OverflowCases DEF Accept, Drop, GiveUp, Return
    <2> QED BY <1>2, <2>1
  <1>6. CASE ProcessFrame
    <2>1. pc' = "write" => target' = Route(CurrentFrame) /\ UNCHANGED <<pending, pendingIdx>>
      BY <1>6 DEF ProcessFrame, Return
    <2>2. pc' # "overflow" /\ CurrentFrame \in Frames
      BY <1>1, <1>6, CurrentFrameType DEF ProcessFrame, Return
    <2>3. ASSUME pc' = "write" PROVE target' \in Routed(CurrentFrame)'
      <3>1. Route(CurrentFrame) \in Routed(CurrentFrame) /\ CurrentFrame' = CurrentFrame
        BY <1>1, <2>1, <2>2, <2>3, RouteIsRouted DEF CurrentFrame
      <3> QED BY <1>1, <2>1, <2>2, <2>3, <3>1, RoutedKept DEF Routed, Route
    <2> QED BY <2>2, <2>3 DEF WritesRouted
  <1>7. CASE PollDelivers \/ PollEmpty \/ PollFails
    BY <1>1, <1>2, <1>7, PollEffects
  <1>8. CASE \/ InitCall \/ InitFails \/ ShutdownCall \/ StepBegin \/ DrainedExhausted
             \/ DrainedIdle \/ \E s \in Sinks : RegisterSink(s)
    BY <1>2, <1>8 DEF InitCall, InitFails, ShutdownCall, StepBegin, DrainedExhausted, DrainedIdle,
                      RegisterSink, Return
  <1>9. CASE (\E s \in Sinks : ConsumerPop(s)) \/ UNCHANGED pipelineVars
    BY <1>3, <1>9 DEF ConsumerPop, pipelineVars, batch, callState, fates
  <1> QED BY <1>4, <1>5, <1>6, <1>7, <1>8, <1>9 DEF PipelineNext, StepContinues

(* A frame is dropped, or delivered elsewhere than the placement routes it *)
(* to, only if the strategy says so and the sinks in question had each     *)
(* taken a ring full of earlier frames of the session, wherever consumers  *)
(* pop; as long as no init fails on a pipeline that is initialized.        *)
THEOREM RefusedOnlyWhenFullHolds ==
    ASSUME ~FailedReinit
    PROVE  PipelineSpec => []RefusedOnlyWhenFull
  <1>1. PipelineInit => WritesRouted /\ RefusedOnlyWhenFull
    BY DEF PipelineInit, WritesRouted, RefusedOnlyWhenFull
  <1>2. PipelineInv /\ WritesRouted /\ RefusedOnlyWhenFull /\ [PipelineNext]_pipelineVars
          => WritesRouted' /\ RefusedOnlyWhenFull'
    <2>1. InitFails => ~initialized
      BY DEF InitFails
    <2> QED BY <2>1, WritesRoutedKept, RefusalsKept
  <1> QED BY <1>1, <1>2, PipelineInvHolds, PTL DEF PipelineSpec

(* Every frame handed over is dealt with or still waits, provided no poll  *)
(* returns more than batch_size frames: refill_pending cuts off the rest.  *)
(* A failing init does not matter here.                                    *)
THEOREM NoneForgottenHolds ==
    ASSUME PollsFit
    PROVE  PipelineSpec => []NoneForgotten
  <1>1. PipelineInit => TypeOK /\ NoneForgotten
    BY TypesInit, PipelineInvInit
  <1>2. TypeOK /\ NoneForgotten /\ [PipelineNext]_pipelineVars => TypeOK' /\ NoneForgotten'
    BY TypesNext, NoneForgottenKept
  <1> QED BY <1>1, <1>2, PTL DEF PipelineSpec

(* With both provisos every frame has exactly one fate: it waits, or one   *)
(* sink accepted it once, or it was dropped and counted, or filtered out.  *)
THEOREM FramesAccountedForHolds ==
    ASSUME ~FailedReinit, PollsFit
    PROVE  PipelineSpec => []FramesAccountedFor
  <1>1. PipelineInv /\ NoneForgotten => FramesAccountedFor
    BY FatesCounted
  <1> QED BY <1>1, PipelineInvHolds, NoneForgottenHolds, PTL

-----------------------------------------------------------------------------
(* The driver.                                                             *)

(* Every action of the driver, seen from the pipeline.                     *)
LEMMA DriverSteps == [Next]_vars => [PipelineNext]_pipelineVars
  <1> SUFFICES ASSUME [Next]_vars PROVE [PipelineNext]_pipelineVars
    OBVIOUS
  <1>1. CASE UNCHANGED vars
    BY <1>1 DEF vars
  <1>2. ASSUME NEW s \in Sinks, Register(s) \/ Consume(s) PROVE PipelineNext
    BY <1>2 DEF Register, Consume, PipelineNext
  <1>3. CASE Validate \/ Cleanup \/ RequestShutdown
    BY <1>3 DEF Validate, Cleanup, RequestShutdown
  <1>4. CASE Initialize \/ ShutdownPipeline
    BY <1>4 DEF Initialize, ShutdownPipeline, PipelineNext
  <1>5. CASE RunBegin
    BY <1>5 DEF RunBegin, PipelineNext
  <1>6. CASE RunContinues
    BY <1>6 DEF RunContinues, LoopHead, StepGoesOn, StepReturned, RunEnd, PipelineNext
  <1> QED BY <1>1, <1>2, <1>3, <1>4, <1>5, <1>6 DEF Next

(* The pipeline of a Runtime is the pipeline of SimplePipeline.            *)
THEOREM DriverRunsPipeline == Spec => PipelineSpec
  <1>1. Init => PipelineInit
    BY DEF Init
  <1> QED BY <1>1, DriverSteps, PTL DEF Spec, PipelineSpec

-----------------------------------------------------------------------------
(* The phases                                                              *)

(* Only init and shutdown change whether the pipeline is initialized, and  *)
(* only polls and init whether the source is at its end.                   *)
LEMMA StepKeeps ==
    /\ StepContinues \/ StepBegin => UNCHANGED initialized
    /\ \A s \in Sinks : RegisterSink(s) \/ ConsumerPop(s) =>
         UNCHANGED <<initialized, pc, nextFrame, exhausted>>
    /\ InitFails => UNCHANGED <<initialized, pc>>
    /\ ProcessFrame \/ Attempt \/ DrainedExhausted \/ DrainedIdle \/ StepBegin
         => UNCHANGED <<nextFrame, exhausted>>
  BY DEF StepContinues, ProcessFrame, Attempt, WriteAttempt, OverflowAttempt,
         DrainedExhausted, DrainedIdle, PollDelivers, PollEmpty, PollFails, RefillPending,
         StepBegin, RegisterSink, ConsumerPop, InitFails, source, lifecycle

(* The invariant of the Runtime holds initially.                           *)
LEMMA DriverInvInit == Init => DriverInv
  <1> SUFFICES ASSUME Init PROVE DriverInv
    OBVIOUS
  <1>1. TypeOK /\ PipelineInit
    BY TypesInit DEF Init
  <1>2. shutdown \in BOOLEAN
    BY Zenon DEF Init
  <1>3. phase \in Built .. CleanedUp /\ runs \in 0 .. MaxRuns
    BY DriverAssumption DEF Init, Built, CleanedUp
  <1>4. DriverTypeOK
    BY <1>1, <1>2, <1>3 DEF Init, DriverTypeOK
  <1>5. StoppedMeansReleased /\ StepInsideRun
    BY <1>1 DEF Init, PipelineInit, StoppedMeansReleased, StepInsideRun, Built, Draining, Shutdown
  <1> QED BY <1>4, <1>5 DEF DriverInv

(* Every step of the Runtime keeps its types.                              *)
LEMMA DriverTypes ==
    ASSUME DriverTypeOK, [Next]_vars
    PROVE  DriverTypeOK'
  <1>1. TypeOK'
    BY DriverSteps, TypesNext DEF DriverTypeOK
  <1>2. shutdown' \in BOOLEAN
    BY Zenon DEF Next, vars, driverVars, Register, Consume, Validate, Initialize, ShutdownPipeline,
                 Cleanup, RequestShutdown, RunBegin, RunContinues, LoopHead, StepGoesOn,
                 StepReturned, RunEnd, DriverTypeOK
  <1>3. phase' \in Built .. CleanedUp
    BY DEF Next, vars, driverVars, Register, Consume, Validate, Initialize, ShutdownPipeline,
           Cleanup, RequestShutdown, RunBegin, RunContinues, LoopHead, StepGoesOn, StepReturned,
           RunEnd, DriverTypeOK, PhaseValidated, Built, Validated, Initialized, Running, Draining,
           Shutdown, CleanedUp
  <1>4. runs' \in 0 .. MaxRuns
    BY DriverAssumption
       DEF Next, vars, driverVars, Register, Consume, Validate, Initialize, ShutdownPipeline,
           Cleanup, RequestShutdown, RunBegin, RunContinues, LoopHead, StepGoesOn, StepReturned,
           RunEnd, DriverTypeOK
  <1>5. dpc' \in {"user", "loop", "step", "stop"} /\ runResult' \in {"none", "Ok", "Err"}
    <2>1. CASE RunEnd
      BY <2>1 DEF RunEnd, ShutdownCall, RunReturns
    <2>2. CASE ~RunEnd
      BY <2>2
         DEF Next, vars, driverVars, Register, Consume, Validate, Initialize, ShutdownPipeline,
             Cleanup, RequestShutdown, RunBegin, RunContinues, LoopHead, StepGoesOn, StepReturned,
             RunReturns, DriverTypeOK
    <2> QED BY <2>1, <2>2
  <1> QED BY <1>1, <1>2, <1>3, <1>4, <1>5 DEF DriverTypeOK

(* A pipeline that is shut down stays so until an init succeeds, which     *)
(* moves the phase.                                                        *)
LEMMA StoppedStaysReleased ==
    ASSUME DriverTypeOK, StoppedMeansReleased, [Next]_vars
    PROVE  StoppedMeansReleased'
  <1> USE DEF StoppedMeansReleased
  <1>1. ASSUME NEW s \in Sinks, Register(s) \/ Consume(s) PROVE StoppedMeansReleased'
    BY <1>1, StepKeeps DEF Register, Consume, driverVars
  <1>2. CASE Validate \/ Cleanup
    BY <1>2 DEF Validate, Cleanup, Validated, CleanedUp, Shutdown
  <1>3. CASE Initialize
    <2>1. ASSUME InitFails, phase' = PhaseValidated PROVE StoppedMeansReleased'
      <3>1. phase' = Shutdown => phase = Shutdown
        BY <2>1 DEF PhaseValidated, Validated, Shutdown
      <3> QED BY <2>1, <3>1, StepKeeps
    <2> QED BY <1>3, <2>1 DEF Initialize, Initialized, Shutdown
  <1>4. CASE ShutdownPipeline \/ RunEnd
    BY <1>4 DEF ShutdownPipeline, RunEnd, ShutdownCall
  <1>5. CASE RequestShutdown \/ UNCHANGED vars
    BY <1>5 DEF RequestShutdown, vars, pipelineVars, lifecycle, driverVars
  <1>6. CASE RunBegin
    <2>1. ASSUME InitFails, phase' = PhaseValidated PROVE StoppedMeansReleased'
      <3>1. phase' = Shutdown => phase = Shutdown
        BY <2>1 DEF PhaseValidated, Validated, Shutdown
      <3> QED BY <2>1, <3>1, StepKeeps
    <2> QED BY <1>6, <2>1 DEF RunBegin, Running, Shutdown
  <1>7. CASE LoopHead \/ StepGoesOn
    BY <1>7, StepKeeps DEF LoopHead, StepGoesOn, pipelineVars, lifecycle, driverVars
  <1>8. CASE StepReturned
    BY <1>8 DEF StepReturned, pipelineVars, lifecycle, Draining, Shutdown
  <1> QED BY <1>1, <1>2, <1>3, <1>4, <1>5, <1>6, <1>7, <1>8 DEF Next, RunContinues

(* The end of the source is noticed at its end.                            *)
LEMMA EndIsReal ==
    ASSUME TypeOK, exhausted => nextFrame = NumFrames + 1, [PipelineNext]_pipelineVars
    PROVE  (exhausted => nextFrame = NumFrames + 1)'
  <1>1. CASE PollDelivers \/ PollEmpty \/ PollFails
    <2>1. PICK n \in Nat : RefillPending(n)
      BY <1>1, PipelineAssumption DEF PollDelivers, PollEmpty, PollFails
    <2>2. exhausted' \in {FALSE, nextFrame + n > NumFrames}
      BY <2>1 DEF RefillPending
    <2>3. exhausted' => nextFrame + n > NumFrames
      BY <2>2, Zenon
    <2>4. nextFrame' = nextFrame + n /\ nextFrame + n <= NumFrames + 1 /\ nextFrame \in Nat
      BY <2>1 DEF RefillPending, TypeOK, BatchOK
    <2> QED BY <2>3, <2>4, PipelineAssumption
  <1>2. CASE InitCall \/ InitFails
    BY <1>2 DEF InitCall, InitFails
  <1>3. CASE ShutdownCall \/ UNCHANGED pipelineVars
    BY <1>3 DEF ShutdownCall, pipelineVars, source
  <1>4. CASE \/ ProcessFrame \/ Attempt \/ DrainedExhausted \/ DrainedIdle \/ StepBegin
             \/ \E s \in Sinks : RegisterSink(s) \/ ConsumerPop(s)
    BY <1>4, StepKeeps
  <1> QED BY <1>1, <1>2, <1>3, <1>4 DEF PipelineNext, StepContinues, Attempt

(* A step is in progress only inside run().                                *)
LEMMA StepStaysInsideRun ==
    ASSUME DriverTypeOK, StepInsideRun, [Next]_vars
    PROVE  StepInsideRun'
  <1>1. (exhausted => nextFrame = NumFrames + 1)'
    BY DriverSteps, EndIsReal DEF DriverTypeOK, StepInsideRun
  <1> SUFFICES (dpc # "step" => pc = "idle")' /\ (phase = Draining => dpc = "stop")'
    BY <1>1 DEF StepInsideRun
  <1> USE DEF StepInsideRun
  <1>2. ASSUME NEW s \in Sinks, Register(s) \/ Consume(s)
        PROVE  (dpc # "step" => pc = "idle")' /\ (phase = Draining => dpc = "stop")'
    BY <1>2, StepKeeps DEF Register, Consume, driverVars
  <1>3. CASE Validate \/ Cleanup
    BY <1>3 DEF Validate, Cleanup, Validated, CleanedUp, Draining, pipelineVars
  <1>4. CASE Initialize
    BY <1>4 DEF Initialize, InitCall, InitFails, PhaseValidated, Validated, Initialized, Draining
  <1>5. CASE ShutdownPipeline \/ RunEnd
    BY <1>5 DEF ShutdownPipeline, RunEnd, ShutdownCall, Shutdown, CleanedUp, Draining
  <1>6. CASE RequestShutdown \/ UNCHANGED vars
    BY <1>6 DEF RequestShutdown, vars, pipelineVars, driverVars
  <1>7. CASE RunBegin
    BY <1>7 DEF RunBegin, InitCall, InitFails, PhaseValidated, Validated, Running, Draining,
                pipelineVars
  <1>8. CASE LoopHead
    BY <1>8 DEF LoopHead, pipelineVars
  <1>9. CASE StepGoesOn
    BY <1>9 DEF StepGoesOn, driverVars
  <1>10. CASE StepReturned
    BY <1>10 DEF StepReturned, pipelineVars, RunReturns
  <1> QED BY <1>2, <1>3, <1>4, <1>5, <1>6, <1>7, <1>8, <1>9, <1>10 DEF Next, RunContinues

(* Every step keeps the invariant of the Runtime.                          *)
LEMMA DriverInvNext == DriverInv /\ [Next]_vars => DriverInv'
  BY DriverTypes, StoppedStaysReleased, StepStaysInsideRun DEF DriverInv

(* In every order of the methods of Runtime the types hold, a Runtime in   *)
(* phase Shutdown holds no initialized pipeline, and a step is in progress *)
(* only inside run().                                                      *)
THEOREM DriverInvHolds == Spec => []DriverInv
  BY DriverInvInit, DriverInvNext, PTL DEF Spec

-----------------------------------------------------------------------------
(* The end of a run                                                        *)

(* A step of the pipeline answers Exhausted only when all frames are dealt *)
(* with: the batch is used up, the source is at its end, and nothing was   *)
(* forgotten on the way.                                                   *)
LEMMA ExhaustedMeansDone ==
    ASSUME DriverInv, DriverInv', NoneForgotten, NoneForgotten',
           dpc = "step", StepContinues, pc' = "idle", outcome' = "Exhausted"
    PROVE  \A f \in Frames : Settled(f)'
  <1>1. TypeOK /\ TypeOK' /\ initialized
    BY DEF DriverInv, DriverTypeOK, TypeOK, CallOK, StepContinues, ProcessFrame, WriteAttempt,
           OverflowAttempt, DrainedExhausted, DrainedIdle, PollDelivers, PollEmpty, PollFails,
           RefillPending
  <1>2. initialized'
    BY <1>1, StepKeeps
  <1>3. exhausted' /\ Waiting' = {}
    <2>1. CASE DrainedExhausted
      BY <1>1, <2>1, LenProperties
         DEF DrainedExhausted, HavePending, source, batch, Waiting, TypeOK, BatchOK
    <2>2. CASE PollEmpty
      <3>1. exhausted' /\ pending' = Truncated(0) /\ pendingIdx' = 0 /\ nextFrame <= NumFrames + 1
        BY <1>1, <2>2 DEF PollEmpty, Return, RefillPending, TypeOK, BatchOK
      <3>2. Len(pending') <= 0 /\ Len(pending') \in Nat
        BY <1>1, <3>1, TruncatedFields, LenProperties DEF TypeOK, BatchOK
      <3> QED BY <3>1, <3>2 DEF Waiting
    <2>3. CASE ProcessFrame
      BY <2>3 DEF ProcessFrame, Return
    <2>4. CASE Attempt
      <3>1. CASE Retry \/ TryOverflow
        BY <1>1, <2>4, <3>1, AttemptCases DEF Retry, TryOverflow
      <3>2. CASE ~(Retry \/ TryOverflow)
        BY <1>1, <2>4, <3>2, AttemptCases DEF Accept, Drop, GiveUp, Return
      <3> QED BY <3>1, <3>2
    <2>5. CASE DrainedIdle \/ PollDelivers \/ PollFails
      BY <2>5 DEF DrainedIdle, PollDelivers, PollFails, RefillPending, Return
    <2> QED BY <2>1, <2>2, <2>3, <2>4, <2>5 DEF StepContinues, Attempt
  <1>4. nextFrame' = NumFrames + 1
    BY <1>3 DEF DriverInv, StepInsideRun
  <1>5. \A f \in Frames : f < nextFrame'
    BY <1>4, PipelineAssumption DEF Frames
  <1> QED BY <1>2, <1>3, <1>5 DEF NoneForgotten

(* The Runtime does not begin in Draining.                                 *)
LEMMA DrainingInit == Init => DrainingMeansDone
  BY DEF Init, DrainingMeansDone, Built, Draining

(* Draining is entered, and stays, only when nothing is left to do.        *)
LEMMA DrainingNext ==
    ASSUME DriverInv, DriverInv', NoneForgotten, NoneForgotten', DrainingMeansDone, [Next]_vars
    PROVE  DrainingMeansDone'
  <1> DEFINE Done == \A f \in Frames : Settled(f)
  <1>1. ASSUME UNCHANGED <<accepted, dropped, skipped>>, Done PROVE Done'
    BY <1>1 DEF Settled, Places
  <1>2. ASSUME NEW s \in Sinks, Register(s) \/ Consume(s) PROVE DrainingMeansDone'
    <2>1. UNCHANGED <<accepted, dropped, skipped, phase, dpc, pc>> /\ (Register(s) => dpc = "user")
          /\ (Consume(s) => UNCHANGED outcome)
      BY <1>2 DEF Register, Consume, RegisterSink, ConsumerPop, fates, driverVars
    <2> QED BY <1>1, <1>2, <2>1 DEF DrainingMeansDone
  <1>3. CASE RequestShutdown \/ UNCHANGED vars
    <2>1. UNCHANGED <<accepted, dropped, skipped, phase, dpc, pc, outcome>>
      BY <1>3 DEF RequestShutdown, vars, pipelineVars, driverVars, fates
    <2> QED BY <1>1, <2>1 DEF DrainingMeansDone
  <1>4. CASE Validate \/ Cleanup \/ Initialize \/ ShutdownPipeline \/ RunBegin \/ RunEnd
    <2>1. dpc' # "step" /\ dpc' # "stop"
      BY <1>4 DEF Validate, Cleanup, Initialize, ShutdownPipeline, RunBegin, RunEnd, RunReturns
    <2>2. phase' # Draining
      BY <2>1 DEF DriverInv, StepInsideRun
    <2> QED BY <2>1, <2>2 DEF DrainingMeansDone
  <1>5. CASE LoopHead
    <2>1. phase # Draining /\ UNCHANGED phase
      BY <1>5 DEF LoopHead, DriverInv, StepInsideRun
    <2>2. ~(dpc' = "step" /\ pc' = "idle" /\ outcome' = "Exhausted")
      BY <1>5 DEF LoopHead, StepBegin, Return
    <2> QED BY <2>1, <2>2 DEF DrainingMeansDone
  <1>6. CASE StepGoesOn
    <2>1. phase' # Draining
      BY <1>6 DEF StepGoesOn, driverVars, DriverInv, StepInsideRun
    <2>2. dpc = "step" /\ StepContinues
      BY <1>6 DEF StepGoesOn
    <2> QED BY <2>1, <2>2, ExhaustedMeansDone DEF DrainingMeansDone
  <1>7. CASE StepReturned
    <2>1. UNCHANGED <<accepted, dropped, skipped>> /\ dpc' # "step"
      BY <1>7 DEF StepReturned, RunReturns, pipelineVars, fates
    <2>2. phase' = Draining => Done
      BY <1>7 DEF StepReturned, DrainingMeansDone, DriverInv, StepInsideRun
    <2> QED BY <1>1, <2>1, <2>2 DEF DrainingMeansDone
  <1> QED BY <1>2, <1>3, <1>4, <1>5, <1>6, <1>7 DEF Next, RunContinues

(* run() enters Draining only when every frame of the source was accepted, *)
(* dropped on purpose or filtered out, whatever errors, retries, failing   *)
(* inits and earlier runs there were, if no poll returns more frames than  *)
(* batch_size.                                                             *)
THEOREM DrainingMeansDoneHolds ==
    ASSUME PollsFit
    PROVE  Spec => []DrainingMeansDone
  <1>1. Init => DrainingMeansDone
    BY DrainingInit
  <1>2. DriverInv /\ DriverInv' /\ NoneForgotten /\ NoneForgotten' /\ DrainingMeansDone
          /\ [Next]_vars => DrainingMeansDone'
    BY DrainingNext
  <1> QED BY <1>1, <1>2, DriverInvHolds, DriverRunsPipeline, NoneForgottenHolds, PTL DEF Spec

(* A run() that a caller starts, stops and repeats accounts for every      *)
(* frame, in the order of the source, under the provisos of the pipeline.  *)
THEOREM DriverKeepsFrames ==
    ASSUME ~FailedReinit, PollsFit
    PROVE  Spec => [](FramesAccountedFor /\ PerSinkOrder)
  BY DriverRunsPipeline, FramesAccountedForHolds, PerSinkOrderHolds, PTL
=============================================================================
