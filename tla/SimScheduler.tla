---------------------------- MODULE SimScheduler ----------------------------
(***************************************************************************)
(* SimScheduler of simulator/src/scheduler.rs, built from the plan of a    *)
(* command (FlyScenario), with what it drives: virtual sources, one batch  *)
(* per tick, the virtual shared-memory ring (ring.rs), the virtual         *)
(* consumers (consumer.rs), the timeline (timeline.rs) and the clock       *)
(* (clock.rs).                                                             *)
(*                                                                         *)
(* One thread calls run, step and finish_run and edits the educational     *)
(* controls in between.  step is split at every packet of a source and at  *)
(* its stages, because a real-time clock goes on meanwhile.                *)
(*                                                                         *)
(* The ring is used by one thread only and is modelled by its contents.    *)
(* Bytes of packets are left out but for their number.                     *)
(***************************************************************************)
EXTENDS FlyScenario

CONSTANTS
    Commands,           \* the commands that are tried, a sequence
    Edu,                \* the educational controls the owner may set
    MaxRuns,            \* bound: times a run begins
    MaxTicks,           \* bound: ticks of a run in real time
    MaxDrops            \* bound: packets of a source dropped in a run

ASSUME SimAssumption ==
    /\ {MaxRuns, MaxTicks, MaxDrops} \subseteq Nat
    /\ None \notin Nat /\ Defaults.header \in Nat

(* What the compiler hands over has the types of the structs it fills, and *)
(* the sources are as their constructors make them.                        *)
IsList(s) == Len(s) \in Nat /\ s = [i \in 1 .. Len(s) |-> s[i]]

IsTraffic(t) ==
    /\ t.pattern \in {"FullSpeed", "FixedRate", "Burst", "Gaussian"}
    /\ t.payloadSize \in Nat /\ t.batchSize \in Nat
    /\ t.pattern = "FixedRate" => t.pps \in Nat
    /\ t.pattern = "Burst" => t.burstSize \in Nat /\ t.gap \in Nat

IsFault(f) == f.spikeNs \in Nat

IsCapture(c) == IsList(c) /\ \A i \in DOMAIN c : c[i].size \in Nat

IsNewSource(s) ==
    /\ IsFault(s.fault)
    /\ \/ s.kind = "nic" /\ IsTraffic(s.traffic) /\ s = NewNic(s.name, s.traffic, s.fault)
       \/ s.kind = "pcap" /\ IsCapture(s.capture) /\ s.loop \in BOOLEAN
            /\ s = NewPcap(s.name, s.capture, s.replay.mode, s.loop, s.fault)

IsAction(a) ==
    /\ a.at \in Nat
    /\ \/ a.kind = "traffic" /\ IsTraffic(a.value)
       \/ a.kind = "fault" /\ IsFault(a.value)
       \/ a.kind = "slow" /\ a.value \in Nat

IsPlan(p) ==
    /\ p.mode \in {"Virtual", "RealTime"} /\ DOMAIN p.edu = DOMAIN NoControls
    /\ {p.tickNs, p.durationNs, p.frameSize, p.maxFrame} \subseteq Nat
    /\ {p.batchSize, p.slots} \subseteq Nat \ {0}
    /\ IsList(p.sources) /\ \A k \in DOMAIN p.sources : IsNewSource(p.sources[k])
    /\ IsList(p.consumers) /\ \A c \in DOMAIN p.consumers : p.consumers[c].max \in Nat \ {0}
    /\ IsList(p.timeline) /\ \A i \in DOMAIN p.timeline : IsAction(p.timeline[i])

ASSUME PlansAssumption ==
    \A c \in DOMAIN Commands : \A p \in CompileCommand(Commands[c]) : IsPlan(p)

VARIABLES
    command,       \* which of the commands was given
    plan,          \* what it is compiled to
    clock,         \* the reading of the clock
    sources,       \* nics
    ring,          \* the packets in the ring
    budgets,       \* max_per_drain of every consumer
    edu,           \* [paused, breakpointNs, breakpointTick, maxSteps]
    timelineIdx, running, stats,
    pc,            \* "idle", or where step is
    caller,        \* who called step: "run" or "step"
    now,           \* now_ns of this step
    current,       \* the source that is polled
    left,          \* packets the NIC still has to make in this poll
    batch, spikeNs,    \* locals of step
    runs,          \* runs begun
    read,          \* history: packets the consumers have read, in order
    carried        \* history: packets in the ring when the run began

world  == <<command, plan, clock>>
polled == <<current, left, batch, spikeNs>>
ringed == <<ring, budgets>>
call   == <<pc, caller, now>>
past   == <<runs, read, carried>>

vars == <<world, sources, ringed, edu, timelineIdx, running, stats, call, polled, past>>

NoStats == [ticks |-> 0, generated |-> 0, dropped |-> 0, corrupted |-> 0,
            written |-> 0, consumed |-> 0, overflows |-> 0, clock |-> 0]

(* The scenario and the parts of the scheduler the plan has fixed.         *)
TickNs       == plan.tickNs
DurationNs   == plan.durationNs
StartNs      == 0
mode         == plan.mode
BatchSize    == plan.batchSize
FrameSize    == plan.frameSize
RingCapacity == plan.slots
RingPayload  == plan.maxFrame
Timeline     == plan.timeline

Init ==
    /\ command \in DOMAIN Commands /\ plan = None
    /\ clock = 0 /\ sources = <<>> /\ ring = <<>> /\ budgets = <<>>
    /\ edu = NoControls
    /\ timelineIdx = 0 /\ running = FALSE /\ stats = NoStats
    /\ pc = "load" /\ caller = "none" /\ now = 0
    /\ current = 1 /\ left = 0 /\ batch = <<>> /\ spikeNs = 0
    /\ runs = 0 /\ read = <<>> /\ carried = 0

(* The scheduler is built: build_scheduler_with_events and the constructor *)
(* of a virtual consumer.                                                  *)
Build(p) ==
    /\ sources' = p.sources /\ edu' = p.edu
    /\ budgets' = [i \in DOMAIN p.consumers |-> p.consumers[i].max]

(* The command is compiled and the scheduler built, or the process exits.  *)
Load ==
    LET plans == CompileCommand(Commands[command])
    IN  /\ pc = "load"
        /\ \/ plans = Err /\ pc' = "rejected" /\ UNCHANGED <<plan, sources, budgets, edu>>
           \/ \E p \in plans : pc' = "idle" /\ plan' = p /\ Build(p)
        /\ UNCHANGED <<command, clock, ring, timelineIdx, running, stats, caller, now,
                       polled, past>>

-----------------------------------------------------------------------------
(* apply_timeline.  An action changes every source, or every consumer, of  *)
(* the name it is for, and nothing when there is none.                     *)
Act(parts, action) ==
    LET named(k) == parts.sources[k].name = action.target
    IN  CASE action.kind = "traffic" ->
               [parts EXCEPT !.sources = [k \in DOMAIN @ |->
                  IF named(k) THEN WithTraffic(@[k], action.value) ELSE @[k]]]
          [] action.kind = "fault" ->
               [parts EXCEPT !.sources = [k \in DOMAIN @ |->
                  IF named(k) THEN WithFault(@[k], action.value) ELSE @[k]]]
          [] action.kind = "slow" ->
               [parts EXCEPT !.budgets = [c \in DOMAIN @ |->
                  IF plan.consumers[c].name = action.target
                    THEN Greater(action.value, 1) ELSE @[c]]]

(* How many actions are due.                                               *)
Due(t) == Cardinality({i \in DOMAIN Timeline : Timeline[i].at <= t})

ApplyTimeline(srcs, from, t) ==
    LET after == FoldLeft(Act, [sources |-> srcs, budgets |-> budgets],
                          SubSeq(Timeline, from + 1, Due(t)))
    IN  /\ sources' = after.sources /\ budgets' = after.budgets
        /\ timelineIdx' = IF Due(t) > from THEN Due(t) ELSE from

(* begin: sources, clock, counters and timeline start again; the ring, the *)
(* consumers and what the timeline has set before do not.                  *)
Begin ==
    /\ ApplyTimeline([i \in DOMAIN sources |-> Started(sources[i])], 0, 0)
    /\ clock' = IF mode = "Virtual" THEN StartNs ELSE 0
    /\ stats' = NoStats /\ running' = TRUE
    /\ runs' = runs + 1 /\ carried' = Len(ring)
    /\ UNCHANGED <<command, plan, ring, read>>

BeginUnlessRunning ==
    \/ running /\ UNCHANGED <<world, sources, ringed, timelineIdx, running, stats, past>>
    \/ ~running /\ runs < MaxRuns /\ Begin

(* run: armed only when paused.                                            *)
RunCall ==
    /\ pc = "idle" /\ BeginUnlessRunning
    /\ pc' = IF edu.paused THEN "idle" ELSE "step"
    /\ caller' = "run"
    /\ UNCHANGED <<edu, now, polled>>

StepCall ==
    /\ pc = "idle" /\ BeginUnlessRunning
    /\ pc' = "step" /\ caller' = "step"
    /\ UNCHANGED <<edu, now, polled>>

(* edu_mut, pause and resume.                                              *)
SetEdu ==
    /\ pc = "idle" /\ edu' \in Edu
    /\ UNCHANGED <<world, sources, ringed, timelineIdx, running, stats, call, polled, past>>

-----------------------------------------------------------------------------
(* snapshot_nic_stats.                                                     *)
Total(srcs, field) == FoldLeft(LAMBDA sum, s : sum + s[field], 0, srcs)

Snapshot(st, srcs) ==
    [st EXCEPT !.generated = Total(srcs, "generated"),
               !.dropped   = Total(srcs, "dropped"),
               !.corrupted = Total(srcs, "corrupted")]

(* finish: the counters are settled and the sources shut down.             *)
Finish(st, srcs, time) ==
    /\ stats' = [Snapshot(st, srcs) EXCEPT !.clock = time]
    /\ sources' = [i \in DOMAIN srcs |-> Stopped(srcs[i])]
    /\ running' = FALSE

FinishRun ==
    /\ pc = "idle"
    /\ Finish(stats, sources, clock)
    /\ UNCHANGED <<world, ringed, edu, timelineIdx, call, polled, past>>

(* step returns: whether run goes on, and whether it finishes, is up to    *)
(* the answer and the pause flag.                                          *)
StepReturns(more, st, time) ==
    IF caller = "run" /\ ~more /\ ~edu.paused
      THEN pc' = "idle" /\ Finish(st, sources, time)
      ELSE /\ pc' = IF caller = "run" /\ more /\ ~edu.paused THEN "step" ELSE "idle"
           /\ stats' = st /\ running' = more /\ UNCHANGED sources

(* The scenario is over before the tick.                                   *)
StepOver ==
    /\ pc = "step" /\ clock >= DurationNs
    /\ StepReturns(FALSE, stats, clock)
    /\ UNCHANGED <<world, ringed, edu, timelineIdx, caller, now, polled, past>>

AtBreakpoint ==
    \/ edu.breakpointNs # None /\ clock >= edu.breakpointNs
    \/ edu.breakpointTick # None /\ stats.ticks >= edu.breakpointTick
    \/ edu.maxSteps # None /\ stats.ticks >= edu.maxSteps

(* Mutant: run takes a breakpoint for progress.                            *)
StepBreaksRunsOn ==
    /\ pc = "step" /\ clock < DurationNs /\ AtBreakpoint
    /\ ApplyTimeline(sources, timelineIdx, clock)
    /\ edu' = [edu EXCEPT !.paused = TRUE]
    /\ pc' = IF caller = "run" THEN "step" ELSE "idle"
    /\ UNCHANGED <<world, ring, running, stats, caller, now, polled, past>>

(* Due actions are applied, and a breakpoint pauses the run.               *)
StepBreaks ==
    /\ pc = "step" /\ clock < DurationNs /\ AtBreakpoint
    /\ ApplyTimeline(sources, timelineIdx, clock)
    /\ edu' = [edu EXCEPT !.paused = TRUE]
    /\ pc' = "idle"
    /\ UNCHANGED <<world, ring, running, stats, caller, now, polled, past>>

(* In real time a tick may take no time; MaxTicks bounds how many there    *)
(* are before the time is over.                                            *)
StepBegin ==
    /\ pc = "step" /\ clock < DurationNs /\ ~AtBreakpoint
    /\ mode = "RealTime" => stats.ticks < MaxTicks
    /\ ApplyTimeline(sources, timelineIdx, clock)
    /\ pc' = "begun"
    /\ UNCHANGED <<world, ring, edu, running, stats, caller, now, polled, past>>

(* The tick has a batch of its own, and the sources see a second reading   *)
(* of the clock.                                                           *)
StepPolls ==
    /\ pc = "begun" /\ pc' = "poll"
    /\ now' = clock /\ batch' = <<>> /\ spikeNs' = 0 /\ current' = 1 /\ left' = 0
    /\ UNCHANGED <<world, sources, ringed, edu, timelineIdx, running, stats, caller, past>>

-----------------------------------------------------------------------------
(* The sources are polled one after the other, into the same batch, which  *)
(* every poll resets.                                                      *)
Source == sources[current]
Polling(kind) == pc = "packets" /\ Source.kind = kind

PollBegins ==
    /\ pc = "poll" /\ current <= Len(sources)
    /\ batch' = <<>> /\ pc' = "packets"
    /\ IF Source.kind = "nic"
         THEN \E p \in Paced(Source, TickNs) :
                left' = p.count /\ sources' = [sources EXCEPT ![current] = p.source]
         ELSE UNCHANGED <<left, sources>>
    /\ UNCHANGED <<world, ringed, edu, timelineIdx, running, stats, caller, now, current,
                   spikeNs, past>>

(* A packet is made or taken; unless it is dropped it goes into the batch, *)
(* cut to the size of a slot.  The generator behind the faults has a full  *)
(* period and drops finitely many packets in a row: MaxDrops.              *)
Packet(source, size) ==
    \E fate \in Fates(source.fault.kinds) :
        /\ "drop" \in fate => source.dropped < MaxDrops
        /\ LET counted == Counted(source, fate)
               packet == [source |-> current, run |-> runs, seq |-> counted.generated,
                          size |-> Lesser(size, FrameSize), whole |-> size <= FrameSize]
           IN  /\ sources' = [sources EXCEPT ![current] = counted]
               /\ batch' = IF "drop" \in fate THEN batch ELSE Append(batch, packet)

NicPacket ==
    /\ Polling("nic") /\ left > 0 /\ Len(batch) < BatchSize
    /\ \E n \in PayloadLengths(Source.traffic) : Packet(Source, Defaults.header + n)
    /\ left' = left - 1
    /\ UNCHANGED <<world, ringed, edu, timelineIdx, running, stats, call, current, spikeNs,
                   past>>

PcapPacket ==
    /\ Polling("pcap") /\ Len(batch) < BatchSize
    /\ PcapReady(Source, now)
    /\ Packet(PcapTaken(Source, now), PcapSize(Source))
    /\ UNCHANGED <<world, ringed, edu, timelineIdx, running, stats, call, current, left,
                   spikeNs, past>>

(* The poll returns, and take_spike_ns empties the account of spikes.      *)
PollReturns(source) ==
    /\ sources' = [sources EXCEPT ![current] = [source EXCEPT !.spikeNs = 0]]
    /\ spikeNs' = spikeNs + source.spikeNs
    /\ current' = current + 1 /\ pc' = "poll"
    /\ UNCHANGED <<world, ringed, edu, timelineIdx, running, stats, caller, now, left,
                   batch, past>>

NicDone == Polling("nic") /\ (left = 0 \/ Len(batch) = BatchSize) /\ PollReturns(Source)

PcapFull == Polling("pcap") /\ Len(batch) = BatchSize /\ PollReturns(Source)

PcapWaits ==
    /\ Polling("pcap") /\ Len(batch) < BatchSize
    /\ ~PcapReady(Source, now)
    /\ PollReturns(PcapAsked(Source, now))

-----------------------------------------------------------------------------
Room == RingCapacity - Len(ring)

(* Mutant: a full ring takes one packet more.                              *)
TryPushOneMore(queue, packet) ==
    IF packet.size <= RingPayload /\ Len(queue) <= RingCapacity
      THEN Append(queue, packet) ELSE queue

(* try_push refuses what is too large, and everything once the ring is     *)
(* full.                                                                   *)
TryPush(queue, packet) ==
    IF packet.size <= RingPayload /\ Len(queue) < RingCapacity
      THEN Append(queue, packet) ELSE queue

(* The batch goes into the ring; what is refused counts as an overflow.    *)
PushRing ==
    LET pushed == FoldLeft(TryPush, ring, batch)
        written == Len(pushed) - Len(ring)
    IN  /\ pc = "poll" /\ current > Len(sources)
        /\ pc' = "drain"
        /\ ring' = pushed
        /\ stats' = [stats EXCEPT !.written = @ + written,
                                  !.overflows = @ + (Len(batch) - written)]
        /\ UNCHANGED <<world, sources, budgets, edu, timelineIdx, running, caller, now,
                       polled, past>>

(* Mutant: the newest packets are popped first.                            *)
DrainedNewest(queue, budget) ==
    LET n == Len(queue.rest) - Lesser(budget, Len(queue.rest))
    IN  [rest |-> SubSeq(queue.rest, 1, n),
         got  |-> queue.got \o SubSeq(queue.rest, n + 1, Len(queue.rest))]

(* Every consumer in turn pops up to max_per_drain packets.                *)
Drained(queue, budget) ==
    LET n == Lesser(budget, Len(queue.rest))
    IN  [rest |-> SubSeq(queue.rest, n + 1, Len(queue.rest)),
         got  |-> queue.got \o SubSeq(queue.rest, 1, n)]

DrainConsumers ==
    LET after == FoldLeft(Drained, [rest |-> ring, got |-> <<>>], budgets)
    IN  /\ pc = "drain" /\ pc' = "end"
        /\ ring' = after.rest /\ read' = read \o after.got
        /\ stats' = [stats EXCEPT !.consumed = @ + Len(after.got)]
        /\ UNCHANGED <<world, sources, budgets, edu, timelineIdx, running, caller, now,
                       polled, runs, carried>>

(* Virtual time advances by the tick and the spikes.                       *)
AdvanceNs == TickNs + spikeNs

NoLocals == now' = 0 /\ batch' = <<>> /\ spikeNs' = 0 /\ current' = 1 /\ left' = 0

(* The end of the tick, and of the locals of step.                         *)
StepEnd ==
    /\ pc = "end"
    /\ LET next == IF mode = "Virtual" THEN clock + AdvanceNs ELSE clock
           st == [Snapshot(stats, sources) EXCEPT !.ticks = @ + 1, !.clock = next]
       IN  clock' = next /\ StepReturns(next < DurationNs, st, next)
    /\ NoLocals
    /\ UNCHANGED <<command, plan, ringed, edu, timelineIdx, caller, past>>

(* Real time goes on by itself once there is a clock.  Readings beyond the *)
(* end of the scenario are not told apart.                                 *)
RealTimePasses ==
    /\ runs > 0 /\ mode = "RealTime" /\ clock < DurationNs
    /\ clock' = clock + 1
    /\ UNCHANGED <<command, plan, sources, ringed, edu, timelineIdx, running, stats, call,
                   polled, past>>

-----------------------------------------------------------------------------
StepContinues ==
    \/ StepOver \/ StepBreaks \/ StepBegin \/ StepPolls
    \/ PollBegins \/ NicPacket \/ PcapPacket \/ NicDone \/ PcapFull \/ PcapWaits
    \/ PushRing \/ DrainConsumers \/ StepEnd

Next == Load \/ RunCall \/ StepCall \/ SetEdu \/ FinishRun \/ StepContinues \/ RealTimePasses

Spec == Init /\ [][Next]_vars

(* The thread goes on with a call it has begun, and time passes.           *)
FairSpec == Spec /\ WF_vars(StepContinues) /\ WF_vars(RealTimePasses)

-----------------------------------------------------------------------------
(* Properties                                                              *)

(* The types of the scheduler's fields and locals: the ring and the batch  *)
(* stay within their capacities, and no consumer is slowed down to zero.   *)
TypeOK ==
    /\ clock \in Nat /\ now \in Nat
    /\ ring # <<>> => Len(ring) <= RingCapacity
    /\ \A i \in DOMAIN budgets : budgets[i] >= 1
    /\ timelineIdx \in Nat /\ running \in BOOLEAN
    /\ DOMAIN stats = DOMAIN NoStats /\ \A f \in DOMAIN stats : stats[f] \in Nat
    /\ pc \in {"load", "rejected", "idle", "step", "begun", "poll", "packets", "drain", "end"}
    /\ caller \in {"none", "run", "step"}
    /\ current \in 1 .. Len(sources) + 1 /\ left \in Nat
    /\ batch # <<>> => Len(batch) <= BatchSize
    /\ runs \in 0 .. MaxRuns

(* Between ticks: every packet a source has made and not dropped was       *)
(* written to the ring or refused by it ("pushes delivered packets into a  *)
(* ring", simulator/src/scheduler.rs).                                     *)
PacketsAccountedFor ==
    pc = "idle" =>
        stats.generated - stats.dropped = stats.written + stats.overflows

(* What is in the ring and what was read is what was written in this run   *)
(* and what an earlier one has left.                                       *)
RingBalances ==
    stats.consumed + Len(ring) = stats.written + carried

(* Consumers read the packets of a source in the order they were made,     *)
(* across runs, whatever their budgets are.                                *)
ReadInOrder ==
    \A i, j \in DOMAIN read :
        i < j /\ read[i].source = read[j].source =>
            \/ read[i].run < read[j].run
            \/ read[i].run = read[j].run /\ read[i].seq < read[j].seq

(* The action, of those written in the document and its script, that was   *)
(* due last for a target; among those of one time the one written last.    *)
LastFor(kind, target, t) ==
    LET written == plan.written
        due == {i \in DOMAIN written : /\ written[i].at <= t
                                       /\ written[i].kind = kind
                                       /\ written[i].target = target}
    IN  {written[i] : i \in {j \in due : \A k \in due :
            written[k].at < written[j].at \/ (written[k].at = written[j].at /\ k <= j)}}

(* While the sources are polled, the settings are those of the latest      *)
(* actions of the document that are due, however many of them a spike has  *)
(* skipped over, and in whichever order they were written ("Attach a       *)
(* sorted (or unsorted) timeline", simulator/src/scheduler.rs).  That is   *)
(* for virtual time: a real clock goes on between apply_timeline and the   *)
(* polls.                                                                  *)
SettingsObserved ==
    pc \in {"poll", "packets", "drain"} /\ mode = "Virtual" =>
        /\ \A k \in DOMAIN sources :
             /\ \A a \in LastFor("fault", sources[k].name, now) : sources[k].fault = a.value
             /\ sources[k].kind = "nic" =>
                  \A a \in LastFor("traffic", sources[k].name, now) :
                     sources[k].traffic = a.value
        /\ \A c \in DOMAIN budgets :
             \A a \in LastFor("slow", plan.consumers[c].name, now) : budgets[c] = a.value

(* A document with one NIC and no script delivers whole frames, whatever   *)
(* its payload and its timeline, and a ring of the default size refuses    *)
(* none of them for its length: the batch and the ring are sized by the    *)
(* traffic of the NIC, which [[timeline]] leaves alone but for the pattern.*)
FramesStayWhole ==
    LET c == Commands[command]
        plain == /\ c.cmd = "file" /\ "script" \notin DOMAIN c.doc
                 /\ Len(sources) = 1 /\ sources[1].kind = "nic"
    IN  pc \in {"poll", "packets", "drain"} /\ plain => \A i \in DOMAIN batch :
            /\ batch[i].whole
            /\ "fabric" \notin DOMAIN c.doc => batch[i].size <= RingPayload

(* What the timeline sets is observed, and nothing else is set by it.      *)
TimelineObserved == SettingsObserved /\ FramesStayWhole

(* The rate of FixedRate is exact as long as the batch is large enough: no *)
(* fraction of a tick is lost.  A burst has burst_size packets.            *)
RatesExact ==
    \A k \in DOMAIN sources : LET s == sources[k] IN
        s.kind = "nic" =>
            /\ s.traffic.pattern = "FixedRate" /\ s.traffic.pps > 0 =>
                 LET nsPerPacket == NsPerSecond \div s.traffic.pps
                 IN  nsPerPacket > 0 /\ TickNs \div nsPerPacket < s.traffic.batchSize =>
                       s.paced = (s.polls * TickNs) \div nsPerPacket
            /\ s.traffic.pattern = "Burst" /\ s.traffic.burstSize > 0 =>
                 (s.paced + s.pacer.burstRemaining) % s.traffic.burstSize = 0

(* run and step return: time goes on in every tick.                        *)
CallsReturn == (pc \notin {"load", "rejected"}) ~> (pc = "idle")

(* A recording c: where the file of its first n packets ends, how many     *)
(* packets are whole in a file that ends somewhere, and what such a file   *)
(* lacks of the next one.                                                  *)
EndBehind(c, n) == Len(PcapFile!WritePcap(SubSeq(c.recorded, 1, n), c.format))
WholeIn(c, end) == Cardinality({n \in DOMAIN c.recorded : EndBehind(c, n) <= end})
EndsWhole(c, end) == end = EndBehind(c, WholeIn(c, end))
EndsInPacketHeader(c, end) ==
    LET whole == EndBehind(c, WholeIn(c, end))
    IN  whole < end /\ end < whole + PcapFile!PacketHeader

(* A packet as a source has it: the time loses what is below the           *)
(* resolution of the format.                                               *)
AsRecorded(c, p) ==
    [ts |-> IF c.format.nanos THEN p.ts ELSE p.ts - (p.ts % NsPerMicro), size |-> Len(p.data)]

(* The packets that were complete when the source of `pcap' was loaded.    *)
Complete(c) == [n \in 1 .. WholeIn(c, c.ends.source) |-> AsRecorded(c, c.recorded[n])]

(* A capture is refused if the file ends in its header or in the data of a *)
(* packet, and else gives the packets that are complete, with their times  *)
(* and sizes, in either byte order and resolution.  A file that ends in    *)
(* the header of a packet is left to LoadedOnlyWhole.                      *)
CaptureLoaded(c) ==
    pc # "load" /\ ~EndsInPacketHeader(c, c.ends.source) =>
        IF EndsWhole(c, c.ends.source)
          THEN pc # "rejected" /\ sources[1].capture = Complete(c)
          ELSE pc = "rejected"

(* Unless at full speed, no packet is sent sooner after the begin of the   *)
(* run than it was recorded after the first one.                           *)
CaptureInTime(c) ==
    pc = "packets" /\ ~c.fullSpeed =>
        \A n \in 1 .. Source.cursor : Source.capture[n].ts - Source.capture[1].ts <= now

(* Its run reads them all, cut to the slots of the batch, and ends with    *)
(* the first tick a millisecond or more after the last of them: if they    *)
(* fit into the batch of one tick and the ring, and if the later loads     *)
(* find no half packet.                                                    *)
CaptureReadToItsEnd(c) ==
    LET capture == sources[1].capture
        last == IF capture = <<>> THEN 0 ELSE Last(capture).ts
        got == SelectSeq(read, LAMBDA p : p.run = runs)
    IN  /\ plan # None /\ runs > 0 /\ pc = "idle" /\ clock >= DurationNs
        /\ Len(capture) <= Lesser(BatchSize, RingCapacity)
        /\ \A load \in {"duration", "frame"} : PcapFile!LoadPcap(Found(c, load)) # {}
        => /\ Len(got) = Len(capture)
           /\ \A n \in DOMAIN got : got[n].size = Lesser(capture[n].size, FrameSize)
           /\ clock - TickNs < last + UnitNs["ms"]

(* The command `pcap' replays what was complete in the file when its       *)
(* source was loaded, although the file may grow between its three loads   *)
(* (run_pcap, simulator/src/main.rs).                                      *)
CaptureReplayed ==
    LET c == Commands[command]
    IN  c.cmd = "pcap" => CaptureLoaded(c) /\ CaptureInTime(c) /\ CaptureReadToItsEnd(c)

(* A file that is truncated is not loaded: parse_pcap promises an error    *)
(* for it.                                                                 *)
LoadedOnlyWhole ==
    LET c == Commands[command]
    IN  c.cmd = "pcap" /\ plan # None => EndsWhole(c, c.ends.source)

(* Ring, batch and counters.                                               *)
SimInv == TypeOK /\ RingBalances
=============================================================================
