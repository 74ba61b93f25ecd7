----------------------------- MODULE Dashboard -----------------------------
(***************************************************************************)
(* The terminal dashboard (simulator/src/tui/app.rs) on top of the         *)
(* scheduler: keys, frames of ticks that run by themselves, restarts, the  *)
(* samples it draws and the events it reads from the VecEventSink          *)
(* (simulator/src/events.rs) it shares with the scheduler and its sources. *)
(*                                                                         *)
(* An event is its number since the last restart and what refresh_events   *)
(* makes of it: "packet" (PacketGenerated, SlotWritten, ConsumerRead),     *)
(* "tick" (TickCompleted) or "notice" (faults, overflows, start and stop). *)
(* The status line, drawing and wall-clock durations are left out.         *)
(***************************************************************************)
EXTENDS SimScheduler

CONSTANTS
    HistCap,       \* HIST_CAP, samples that are drawn
    LogCap,        \* LOG_CAP, lines of the event log
    SinkCap,       \* events the sink keeps after a refresh: 2_000
    MaxSpeed       \* ticks per frame at most: 1024

ASSUME DashAssumption == {HistCap, LogCap, SinkCap, MaxSpeed} \subseteq Nat \ {0}

VARIABLES
    dash,          \* "open", "loop", "step" (in step_once), "frame" or "quit"
    frame,         \* ticks left in this frame, with the current one
    view,          \* the fields of Dashboard
    sink,          \* the events in the VecEventSink
    emitted        \* history: what was emitted since the last restart

dashVars == <<vars, dash, frame, view, sink, emitted>>

NewView == [mode |-> "Paused", speed |-> 1, cursor |-> 0, log |-> <<>>, pps |-> <<>>,
            ticks |-> <<>>, prev |-> 0, finished |-> FALSE]

DashInit ==
    /\ Init
    /\ dash = "open" /\ frame = 0 /\ view = NewView /\ sink = <<>> /\ emitted = <<>>

-----------------------------------------------------------------------------
(* The events.                                                             *)

(* emit: these kinds of events are appended to a sink.                     *)
Emit(to, kinds) ==
    /\ emitted' = emitted \o kinds
    /\ sink' = to \o [i \in DOMAIN kinds |-> [id |-> Len(emitted) + i, kind |-> kinds[i]]]

(* init of every source and begin.                                         *)
StartEvents == [i \in 1 .. Len(sources) + 1 |-> "notice"]

(* poll_batch: of a packet that was dropped, or corrupted, or neither.     *)
PacketEvents ==
    LET grown(field) == sources'[current][field] > Source[field]
    IN  IF grown("dropped") THEN <<"notice">>
        ELSE (IF grown("corrupted") THEN <<"notice">> ELSE <<>>) \o <<"packet">>

(* SlotWritten or QueueOverflow for every packet of the batch.             *)
PushEvents ==
    LET fits(i) == batch[i].size <= RingPayload
    IN  [i \in DOMAIN batch |->
           IF fits(i) /\ Cardinality({j \in 1 .. i : fits(j)}) <= Room
             THEN "packet" ELSE "notice"]

DrainEvents == [i \in 1 .. stats'.consumed - stats.consumed |-> "packet"]

(* The last n of a sequence, where a history, the log or the sink is cut.  *)
LastOf(seq, n) == SubSeq(seq, Greater(Len(seq) - n, 0) + 1, Len(seq))

(* events_from(event_cursor).                                              *)
NewEvents == SubSeq(sink, view.cursor + 1, Len(sink))

(* Per-packet lines are left out while the dashboard runs by itself, those *)
(* of ticks when it runs more than one a frame.                            *)
Shown(v, event) ==
    v.mode = "Auto" => /\ event.kind # "packet"
                       /\ v.speed > 1 => event.kind # "tick"

(* The log with the lines of the new events.                               *)
Logged(v) ==
    FoldLeft(LAMBDA log, e : IF Shown(v, e) THEN Append(log, e) ELSE log, v.log, NewEvents)

(* Mutant: the sink is truncated after the cursor was set.                 *)
RefreshedCursorFirst(v) == [v EXCEPT !.log = LastOf(Logged(v), LogCap), !.cursor = Len(sink)]

(* refresh_events, with the sink it leaves.                                *)
Truncated == LastOf(sink, SinkCap)

Refreshed(v) == [v EXCEPT !.log = LastOf(Logged(v), LogCap), !.cursor = Len(Truncated)]

(* ingest_tick_samples.                                                    *)
PushHist(hist, value) == LastOf(Append(hist, value), HistCap)

Ticked(v) ==
    FoldLeft(LAMBDA hist, e : IF e.kind = "tick" THEN PushHist(hist, e) ELSE hist,
             v.ticks, NewEvents)

Sampled(v) ==
    [v EXCEPT !.pps = PushHist(@, Greater(stats.generated - v.prev, 0)),
              !.prev = stats.generated, !.ticks = Ticked(v)]

-----------------------------------------------------------------------------
(* from_source and restart, their second half: the run is armed, paused.   *)
Arm ==
    /\ dash = "open" /\ pc = "idle" /\ BeginUnlessRunning
    /\ edu' = [edu EXCEPT !.paused = TRUE]
    /\ Emit(sink, StartEvents) /\ dash' = "armed"
    /\ UNCHANGED <<call, polled, frame, view>>

Armed ==
    /\ dash = "armed" /\ dash' = "loop"
    /\ view' = Refreshed(view) /\ sink' = Truncated
    /\ UNCHANGED <<vars, frame, emitted>>

(* Mutant: the count of the previous run is the base of the first sample.  *)
RestartedKeepsPackets(v) == [NewView EXCEPT !.speed = v.speed, !.prev = v.prev]

(* The speed outlives a restart.                                           *)
Restarted(v) == [NewView EXCEPT !.speed = v.speed]

(* restart, its first half: what the old scheduler emits when it finishes  *)
(* is cleared, and a new one is built.                                     *)
Restart ==
    /\ dash = "loop" /\ runs < MaxRuns /\ dash' = "open"
    /\ Build(plan) /\ view' = Restarted(view) /\ sink' = <<>> /\ emitted' = <<>>
    /\ ring' = <<>> /\ timelineIdx' = 0 /\ running' = FALSE /\ stats' = NoStats
    /\ read' = <<>> /\ carried' = 0
    /\ UNCHANGED <<world, call, polled, runs, frame>>

(* step_once, up to the call of step: resume and, if need be, begin.       *)
StepOnce(ticks) ==
    /\ BeginUnlessRunning /\ Emit(sink, IF running THEN <<>> ELSE StartEvents)
    /\ edu' = [edu EXCEPT !.paused = FALSE]
    /\ pc' = "step" /\ caller' = "step" /\ dash' = "step" /\ frame' = ticks
    /\ UNCHANGED <<now, polled>>

(* The steps of the scheduler, with what they emit.                        *)
Steps ==
    /\ dash = "step"
    /\ \/ /\ \/ StepOver \/ StepBreaks \/ StepBegin \/ StepPolls
             \/ PollBegins \/ NicDone \/ PcapFull \/ PcapWaits
          /\ UNCHANGED <<sink, emitted>>
       \/ (NicPacket \/ PcapPacket) /\ Emit(sink, PacketEvents)
       \/ PushRing /\ Emit(sink, PushEvents)
       \/ DrainConsumers /\ Emit(sink, DrainEvents)
       \/ StepEnd /\ Emit(sink, <<"tick">>)
    /\ UNCHANGED <<dash, frame, view>>

(* Whether auto_ticks goes on with the frame.                              *)
AfterTick(v) == IF frame > 1 /\ v.mode = "Auto" THEN "frame" ELSE "loop"

(* Mutant: the frames go on at a breakpoint.                               *)
StepBrokeRunsOn ==
    /\ dash = "step" /\ pc = "idle" /\ running /\ edu.paused
    /\ view' = Refreshed(Sampled(view)) /\ sink' = Truncated
    /\ dash' = AfterTick(view')
    /\ UNCHANGED <<vars, frame, emitted>>

(* step_once after step has returned: at a breakpoint, at the end of the   *)
(* scenario, or with more to come.                                         *)
StepBroke ==
    /\ dash = "step" /\ pc = "idle" /\ running /\ edu.paused
    /\ view' = [Refreshed(Sampled(view)) EXCEPT !.mode = "Paused"] /\ sink' = Truncated
    /\ dash' = AfterTick(view')
    /\ UNCHANGED <<vars, frame, emitted>>

(* Mutant: the scheduler is not told that its run is over.                 *)
StepLastUnfinished ==
    /\ dash = "step" /\ pc = "idle" /\ ~running
    /\ view' = [Refreshed(Sampled(view)) EXCEPT !.mode = "Paused", !.finished = TRUE]
    /\ sink' = Truncated /\ dash' = AfterTick(view')
    /\ UNCHANGED <<vars, frame, emitted>>

(* The run is finished after the events were read, so that its last event  *)
(* stays in the sink.                                                      *)
StepLast ==
    /\ dash = "step" /\ pc = "idle" /\ ~running
    /\ view' = [Refreshed(Sampled(view)) EXCEPT !.mode = "Paused", !.finished = TRUE]
    /\ Finish(stats, sources, clock) /\ Emit(Truncated, <<"notice">>)
    /\ dash' = AfterTick(view')
    /\ UNCHANGED <<world, ringed, edu, timelineIdx, call, polled, past, frame>>

StepMore ==
    /\ dash = "step" /\ pc = "idle" /\ running /\ ~edu.paused
    /\ view' = Refreshed(Sampled(view)) /\ sink' = Truncated
    /\ dash' = AfterTick(view')
    /\ UNCHANGED <<vars, frame, emitted>>

(* auto_ticks, every 50 ms.                                                *)
AutoTicks ==
    /\ dash = "loop" /\ view.mode = "Auto" /\ ~view.finished
    /\ StepOnce(view.speed) /\ UNCHANGED view

NextTick == dash = "frame" /\ StepOnce(frame - 1) /\ UNCHANGED view

-----------------------------------------------------------------------------
(* handle_key.                                                             *)
Quit ==
    /\ dash = "loop" /\ dash' = "quit"
    /\ UNCHANGED <<vars, frame, view, sink, emitted>>

Space ==
    /\ dash = "loop" /\ ~view.finished
    /\ view' = [view EXCEPT !.mode = IF @ = "Auto" THEN "Paused" ELSE "Auto"]
    /\ edu' = [edu EXCEPT !.paused = view.mode = "Auto"]
    /\ UNCHANGED <<world, sources, ringed, timelineIdx, running, stats, call, polled, past,
                   dash, frame, sink, emitted>>

StepKey ==
    /\ dash = "loop"
    /\ view' = [view EXCEPT !.mode = "Paused"]
    /\ IF view.finished THEN UNCHANGED <<vars, dash, frame, sink, emitted>>
                        ELSE StepOnce(1)

Halved(speed) == Greater(speed \div 2, 1)

Speed ==
    /\ dash = "loop"
    /\ \E s \in {Lesser(2 * view.speed, MaxSpeed), Halved(view.speed)} :
          view' = [view EXCEPT !.speed = s]
    /\ UNCHANGED <<vars, dash, frame, sink, emitted>>

-----------------------------------------------------------------------------
DashLoad == Load /\ UNCHANGED <<dash, frame, view, sink, emitted>>

DashTime == RealTimePasses /\ UNCHANGED <<dash, frame, view, sink, emitted>>

Works == Arm \/ Armed \/ Steps \/ StepBroke \/ StepLast \/ StepMore \/ AutoTicks \/ NextTick

DashNext ==
    DashLoad \/ Works \/ Restart \/ Quit \/ Space \/ StepKey \/ Speed \/ DashTime

DashSpec == DashInit /\ [][DashNext]_dashVars

(* The loop of run_dashboard_inner waits 50 ms for a key at most, and      *)
(* ticks when they are over.                                               *)
DashFairSpec == DashSpec /\ WF_dashVars(Works) /\ WF_dashVars(DashTime)

-----------------------------------------------------------------------------
(* Properties                                                              *)

(* The types of the dashboard's fields: the histories, the log and the     *)
(* sink stay within their limits, and a frame has a tick at least.         *)
DashTypeOK ==
    /\ dash \in {"open", "armed", "loop", "step", "frame", "quit"} /\ frame \in Nat
    /\ view.mode \in {"Auto", "Paused"} /\ view.finished \in BOOLEAN
    /\ view.speed \in 1 .. MaxSpeed
    /\ view.cursor \in 0 .. Len(sink) /\ view.prev \in Nat
    /\ Len(view.log) <= LogCap /\ Len(view.pps) <= HistCap /\ Len(view.ticks) <= HistCap
    /\ dash = "loop" => Len(sink) <= SinkCap + 1

(* Between frames the scheduler runs unless the dashboard shows the end,   *)
(* and then its time is over and every source is shut down: r, s and Space *)
(* always meet a scheduler in the state they are made for.                 *)
FinishedMeansStopped ==
    dash = "loop" =>
        /\ running <=> ~view.finished
        /\ \A k \in DOMAIN sources : sources[k].initialized <=> running
        /\ view.finished => clock >= DurationNs
        /\ view.mode = "Auto" => ~view.finished /\ ~edu.paused

SumOf(samples) == FoldLeft(LAMBDA sum, n : sum + n, 0, samples)

(* The samples are those of this run: together they are the packets that   *)
(* were generated, and there is one for every tick, unless the older ones  *)
(* have been pushed out.                                                   *)
SamplesAddUp ==
    dash = "loop" =>
        /\ Len(view.pps) < HistCap =>
              SumOf(view.pps) = stats.generated
        /\ Len(view.ticks) = Lesser(stats.ticks, HistCap)

(* No event is shown twice or out of order, and every fault, overflow and  *)
(* start of this run ("keep faults + lifecycle", simulator/src/tui/app.rs) *)
(* is in the log or has been pushed out of it by newer lines, although the *)
(* sink is truncated behind the cursor.  The event of the end is emitted   *)
(* after the last refresh and is excluded.                                 *)
NoticesShown ==
    dash = "loop" =>
        LET log == view.log
            told == 1 .. Len(emitted) - (IF view.finished THEN 1 ELSE 0)
        IN  /\ \A i, j \in DOMAIN log : i < j => log[i].id < log[j].id
            /\ \A id \in {n \in told : emitted[n] = "notice"} :
                 \/ \E i \in DOMAIN log : log[i].id = id
                 \/ Len(log) = LogCap /\ id < log[1].id

(* Left alone the dashboard comes to rest: at the end of the scenario, or  *)
(* at a breakpoint, which fires again on every step.                       *)
AutoEnds == (view.mode = "Auto") ~> (view.mode = "Paused" \/ dash = "quit")

(* Whoever presses s again and again sees the end of the scenario, because *)
(* "step can run past breakpoint guards" (simulator/src/tui/app.rs), which *)
(* is what resume in step_once is for.  It cannot: step checks the same    *)
(* guard again and pauses before the tick.                                 *)
SteppingPassesBreakpoints ==
    []<><<StepKey>>_dashVars => <>(view.finished \/ dash = "quit")

(* The dashboard and the scheduler it owns.                                *)
SessionInv == DashTypeOK /\ FinishedMeansStopped
=============================================================================
