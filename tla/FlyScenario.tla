---------------------------- MODULE FlyScenario ----------------------------
(***************************************************************************)
(* What the commands of flyby-sim (simulator/src/main.rs) make of their    *)
(* argument: a FlyScenario document (simulator/src/dsl), a built-in        *)
(* scenario, or a capture.  The result is a plan: everything SimScheduler  *)
(* is built from.                                                          *)
(*                                                                         *)
(* A document is what the TOML parser returns: a record that lacks the     *)
(* keys nobody wrote; `given @@ defaults' is what serde makes of it.  A    *)
(* Result is a set: {x} for Ok(x), {} for Err, so that a comprehension     *)
(* over several results is empty as soon as one of them fails.             *)
(***************************************************************************)
EXTENDS VirtualSource, SequencesExt

CONSTANTS
    UnitNs,       \* nanoseconds of the units of duration.rs
    Defaults,     \* the numbers written into the code
    Unlimited,    \* usize::MAX
    None,         \* Option::None of a breakpoint or of at()
    WordBase,     \* a word of a capture file has two digits of it
    NsPerMicro    \* 1_000 in the code

ASSUME CaptureAssumption ==
    WordBase > 2 /\ NsPerMicro > 0 /\ NsPerSecond % NsPerMicro = 0
      /\ NsPerSecond < WordBase * WordBase

PcapFile == INSTANCE CaptureFile WITH Base <- WordBase

Ok(x) == {x}
Err == {}

Greater(a, b) == IF a > b THEN a ELSE b

(* collect::<Result<Vec<_>>>().                                            *)
Collect(results) ==
    IF \E i \in DOMAIN results : results[i] = {} THEN Err
    ELSE Ok([i \in DOMAIN results |-> CHOOSE x \in results[i] : TRUE])

(* parse_duration_ns: num / den of a unit, rounded.  split_num_unit skips  *)
(* a sign, so that minus is not heeded.  num is None in a text without a   *)
(* number.                                                                 *)
ParseDuration(d) ==
    IF d.num = None \/ d.unit \notin DOMAIN UnitNs THEN Err
    ELSE LET num == IF d.num < 0 THEN 0 - d.num ELSE d.num
         IN  Ok((2 * num * UnitNs[d.unit] + d.den) \div (2 * d.den))

-----------------------------------------------------------------------------
(* The tables of a document (dsl/doc.rs) with the defaults of their keys.  *)
(* Keys without one are Options and stay absent.                           *)
ScenarioDoc(d) == d @@ [nic |-> <<>>, pcap |-> <<>>, consumer |-> <<>>, timeline |-> <<>>]

MetaDoc(m) == m @@ [duration |-> Defaults.duration, tick |-> Defaults.tick,
                    clock |-> "virtual", mode |-> "trace", simulated |-> TRUE]

(* A table [nic.traffic] has the pattern "fixed" unless it names another;  *)
(* without the table the derived default has the pattern "".               *)
TrafficDoc(t) == t @@ [pattern |-> "fixed"]

NoTraffic == [pattern |-> ""]

PayloadDoc(p) == p @@ [kind |-> "fixed_seq"]

NoPayload == [kind |-> "fixed_seq", size |-> Defaults.payload]

(* The faults whose rate is not zero.                                      *)
FaultDoc(f) == f @@ [rates |-> {}]

NicDoc(n) == n @@ [batch_size |-> Defaults.batch, traffic |-> NoTraffic,
                   payload |-> NoPayload, fault |-> [rates |-> {}]]

PcapDoc(p) == p @@ [replay |-> "full", scale |-> [num |-> 1, den |-> 1], loop |-> FALSE,
                    fault |-> [rates |-> {}]]

FabricDoc(f) == f @@ [slots |-> Defaults.slots]

EduDoc(e) == e @@ [paused_start |-> FALSE, breakpoint_tick |-> None]

ScriptDoc(s) == s @@ [engine |-> "rhai", source |-> <<>>]

-----------------------------------------------------------------------------
(* The parts of a document.                                                *)

(* The patterns of compile_traffic and merge_traffic_override.             *)
CompilePattern(t) ==
    LET full == t @@ [pps |-> Defaults.pps, burst_size |-> Defaults.burstSize,
                      gap |-> Defaults.gap]
    IN  CASE t.pattern = "fixed"    -> Ok([pattern |-> "FixedRate", pps |-> full.pps])
          [] t.pattern = "burst"    ->
               {[pattern |-> "Burst", burstSize |-> full.burst_size, gap |-> ns] :
                   ns \in ParseDuration(full.gap)}
          [] t.pattern = "gaussian" -> Ok([pattern |-> "Gaussian"])
          [] t.pattern = "full"     -> Ok([pattern |-> "FullSpeed"])
          [] OTHER                  -> Err

(* compile_payload, with nominal_size of the protocol messages.            *)
CompilePayload(doc) ==
    LET p == doc @@ [proto |-> "market_quote", symbol |-> Defaults.symbol] IN
    CASE p.kind = "fixed_seq" ->
           Ok([payload |-> "fixed", payloadSize |->
                 Greater((p @@ [size |-> Defaults.payload]).size, 1)])
      [] p.kind = "random" ->
           Ok([payload |-> "fixed", payloadSize |->
                 Greater((p @@ [size |-> Defaults.randomPayload]).size, 1)])
      [] p.kind = "gaussian_size" ->
           Ok([payload |-> "varying", payloadSize |->
                 Greater((p @@ [max |-> Defaults.maxPayload]).max, 1)])
      [] p.kind = "protocol" /\ p.proto = "market_quote" ->
           Ok([payload |-> "fixed", payloadSize |-> Defaults.quote])
      [] p.kind = "protocol" /\ p.proto = "fix_quote" ->
           Ok([payload |-> "varying", payloadSize |-> Defaults.quote + p.symbol])
      [] OTHER -> Err

CompileTraffic(t, p, batch) ==
    {pattern @@ payload @@ [batchSize |-> batch] :
        pattern \in CompilePattern(t), payload \in CompilePayload(p)}

(* TrafficConfig::default.                                                 *)
DefaultTraffic ==
    [pattern |-> "FixedRate", pps |-> Defaults.pps, payload |-> "fixed",
     payloadSize |-> Defaults.payload, batchSize |-> Defaults.batch]

(* compile_fault: only whether a rate is zero matters here.                *)
CompileFault(f) ==
    LET rates == FaultDoc(f).rates
    IN  IF "latency_spike" \in DOMAIN f
          THEN {[kinds |-> rates, spikeNs |-> ns] : ns \in ParseDuration(f.latency_spike)}
          ELSE Ok([kinds |-> rates, spikeNs |-> 0])

(* compile_nic.                                                            *)
CompileNic(nic) ==
    LET n == NicDoc(nic)
    IN  {NewNic(n.name, traffic, fault) :
            traffic \in CompileTraffic(TrafficDoc(n.traffic), PayloadDoc(n.payload),
                                       n.batch_size),
            fault \in CompileFault(n.fault)}

(* compile_replay, with the check of ReplayMode::validate: the factor of   *)
(* TimeScaled, num / den, is positive.                                     *)
CompileReplay(name, scale) ==
    CASE name = "full"        -> Ok([name |-> "FullSpeed"])
      [] name = "original"    -> Ok([name |-> "TimeScaled", num |-> 1, den |-> 1])
      [] name = "scaled"      -> IF scale.num > 0 THEN Ok([name |-> "TimeScaled"] @@ scale)
                                                  ELSE Err
      [] name = "burst"       -> Ok([name |-> "Burst", count |-> Defaults.replayCount,
                                     gap |-> Defaults.replayGap])
      [] name = "single_step" -> Ok([name |-> "SingleStep"])
      [] OTHER                -> Err

(* compile_pcap, and PcapSource::from_path, which fails without the file   *)
(* and when it is no capture.                                              *)
CompilePcap(pcap) ==
    LET p == PcapDoc(pcap)
    IN  IF "file" \notin DOMAIN p THEN Err
        ELSE {NewPcap(p.name, capture, replay, p.loop, fault) :
                 capture \in PcapFile!LoadPcap(p.file),
                 replay \in CompileReplay(p.replay, p.scale), fault \in CompileFault(p.fault)}

(* The frames of a NIC: 42 bytes of headers and the payload.               *)
FrameOf(traffic) == Defaults.header + Greater(traffic.payloadSize, 1)

LargestFrame(nics, least) ==
    Max({FrameOf(nics[i].traffic) : i \in DOMAIN nics} \cup {least})

(* compile_fabric, and the fabric of a document that has none.  A ring of  *)
(* frames of no bytes makes VirtualSharedMemory::new panic.                *)
CompileFabric(doc, nics) ==
    IF "fabric" \notin DOMAIN doc
      THEN Ok([slots |-> Defaults.slots, maxFrame |-> LargestFrame(nics, Defaults.minFrame)])
      ELSE LET f == FabricDoc(doc.fabric) @@
                      [max_frame |-> LargestFrame(nics, IF nics = <<>> THEN Defaults.minFrame
                                                                     ELSE Defaults.minSlot)]
           IN  IF f.slots = 0 \/ f.max_frame = 0 THEN Err
               ELSE Ok([slots |-> f.slots, maxFrame |-> f.max_frame])

(* parse_max_per_drain, and compile_consumer.                              *)
ParseMaxPerDrain(t) ==
    LET max == (t @@ [max_per_drain |-> Unlimited]).max_per_drain
    IN  IF max > 0 THEN Ok(max) ELSE Err

CompileConsumers(docs) ==
    IF docs = <<>> THEN Ok(<<[name |-> "c0", max |-> Unlimited]>>)
    ELSE Collect([i \in DOMAIN docs |->
           {[name |-> docs[i].name, max |-> max] : max \in ParseMaxPerDrain(docs[i])}])

-----------------------------------------------------------------------------
(* The timeline.                                                           *)

TimelineAction(at, kind, target, value) ==
    [at |-> at, kind |-> kind, target |-> target, value |-> value]

(* Mutant: the payload and the batch of the NIC are not kept.              *)
MergeTrafficOverrideDefault(base, t) ==
    {pattern @@ DefaultTraffic :
        pattern \in CompilePattern(TrafficDoc(t))}

(* merge_traffic_override: the pattern of the entry, the rest of the NIC.  *)
MergeTrafficOverride(base, t) ==
    {pattern @@ [f \in {"payload", "payloadSize", "batchSize"} |-> base[f]] :
        pattern \in CompilePattern(TrafficDoc(t))}

(* The traffic of the first NIC of the name.                               *)
TrafficOf(nics, name) ==
    LET named == {i \in DOMAIN nics : nics[i].name = name}
    IN  IF named = {} THEN DefaultTraffic ELSE nics[Min(named)].traffic

(* compile_timeline_entry.                                                 *)
CompileTimelineEntry(t, nics) ==
    CASE t.action = "set_traffic" /\ "nic" \in DOMAIN t ->
           {TimelineAction(at, "traffic", t.nic, traffic) :
               at \in ParseDuration(t.at),
               traffic \in MergeTrafficOverride(TrafficOf(nics, t.nic), t)}
      [] t.action = "set_fault" /\ "nic" \in DOMAIN t ->
           {TimelineAction(at, "fault", t.nic, fault) :
               at \in ParseDuration(t.at), fault \in CompileFault(t)}
      [] t.action = "slow_consumer" /\ "consumer" \in DOMAIN t ->
           {TimelineAction(at, "slow", t.consumer, max) :
               at \in ParseDuration(t.at), max \in ParseMaxPerDrain(t)}
      [] OTHER -> Err

(* What a call of the script API adds to the timeline.  The statements of  *)
(* a script are records; rate tells whether the rate is not zero.          *)
ScriptAction(c, at) ==
    LET unlimited(n) == IF n <= 0 THEN Unlimited ELSE n
    IN  CASE c.op = "drop_rate" ->
               TimelineAction(at, "fault", c.nic,
                              [kinds |-> IF c.rate THEN {"drop"} ELSE {}, spikeNs |-> 0])
          [] c.op = "set_fixed" ->
               TimelineAction(at, "traffic", c.nic,
                              [DefaultTraffic EXCEPT !.pps = Greater(c.pps, 0)])
          [] c.op = "set_burst" ->
               TimelineAction(at, "traffic", c.nic,
                  [pattern |-> "Burst", burstSize |-> Greater(c.size, 1),
                   gap |-> Greater(c.gap, 0), payload |-> "fixed",
                   payloadSize |-> Defaults.payload, batchSize |-> Defaults.burstBatch])
          [] c.op = "max_per_drain" ->
               TimelineAction(at, "slow", c.consumer, unlimited(c.max))

(* ScriptHost.                                                             *)
NewHost == [at |-> None, actions |-> <<>>, failed |-> FALSE]

(* The schedule functions bring their own time.                            *)
Schedule(host, c, at) == [host EXCEPT !.actions = Append(@, ScriptAction(c, Greater(at, 0)))]

(* register_api: at(t) sets the time of the following calls, which fail    *)
(* before the first at.                                                    *)
Call(host, c) ==
    CASE c.op = "at" -> [host EXCEPT !.at = Greater(c.at, 0)]
      [] c.op # "at" /\ "at" \in DOMAIN c -> Schedule(host, c, c.at)
      [] c.op # "at" /\ "at" \notin DOMAIN c ->
           IF host.at = None THEN [host EXCEPT !.failed = TRUE]
           ELSE Schedule(host, c, host.at)

(* Mutant: an action comes before the ones of the same time.               *)
InsertByTimeFirst(sorted, action) ==
    InsertAt(sorted, 1 + Cardinality({i \in DOMAIN sorted : sorted[i].at < action.at}),
             action)

(* sort_by_key is stable.                                                  *)
InsertByTime(sorted, action) ==
    InsertAt(sorted, 1 + Cardinality({i \in DOMAIN sorted : sorted[i].at <= action.at}),
             action)

SortByTime(actions) == FoldLeft(InsertByTime, <<>>, actions)

(* eval_script and eval_script_doc: a source that is not blank wins over   *)
(* the file, which may be missing, and no engine has to be named.          *)
EvalScript(calls) ==
    LET host == FoldLeft(Call, NewHost, calls)
    IN  IF host.failed THEN Err ELSE Ok(host.actions)

EvalScriptDoc(doc) ==
    IF "script" \notin DOMAIN doc THEN Ok(<<>>)
    ELSE LET s == ScriptDoc(doc.script)
         IN  CASE s.engine \notin {"", "rhai"} -> Err
               [] s.source # <<>>              -> EvalScript(s.source)
               [] s.source = <<>> /\ "file" \in DOMAIN s -> EvalScript(s.file)
               [] OTHER                        -> Err

-----------------------------------------------------------------------------
(* compile_doc, with the controls of [edu].                                *)
CompileClock(name) ==
    CASE name = "virtual"  -> Ok("Virtual")
      [] name = "realtime" -> Ok("RealTime")
      [] OTHER             -> Err

CompileEdu(doc, mode) ==
    LET e == EduDoc((doc @@ [edu |-> [paused_start |-> FALSE]]).edu)
        controls(ns) == [paused |-> mode = "edu" \/ e.paused_start, breakpointNs |-> ns,
                         breakpointTick |-> e.breakpoint_tick, maxSteps |-> None]
    IN  IF "breakpoint_ns" \in DOMAIN e
          THEN {controls(ns) : ns \in ParseDuration(e.breakpoint_ns)}
          ELSE Ok(controls(None))

(* The traffic of the first NIC sizes the batch of the scheduler.          *)
Plan(mode, tick, duration, traffic, sources, fabric, consumers, written, edu) ==
    [mode |-> mode, tickNs |-> tick, durationNs |-> duration,
     batchSize |-> Greater(traffic.batchSize, 1), frameSize |-> FrameOf(traffic),
     sources |-> sources, slots |-> fabric.slots, maxFrame |-> fabric.maxFrame,
     consumers |-> consumers, timeline |-> SortByTime(written), written |-> written,
     edu |-> edu]

(* A document needs a source: build_scheduler_with_events.                 *)
CompileDoc(document) ==
    LET doc  == ScenarioDoc(document)
        meta == MetaDoc(doc.scenario)
        plans(nics) ==
            LET traffic == IF nics = <<>> THEN DefaultTraffic ELSE nics[1].traffic
            IN  {Plan(mode, tick, duration, traffic, nics \o pcaps, fabric, consumers,
                      entries \o actions, edu) :
                    actions \in EvalScriptDoc(doc),
                    duration \in ParseDuration(meta.duration),
                    tick \in ParseDuration(meta.tick) \ {0},
                    mode \in CompileClock(meta.clock),
                    edu \in CompileEdu(doc, meta.mode),
                    pcaps \in Collect([i \in DOMAIN doc.pcap |-> CompilePcap(doc.pcap[i])]),
                    fabric \in CompileFabric(doc, nics),
                    consumers \in CompileConsumers(doc.consumer),
                    entries \in Collect([i \in DOMAIN doc.timeline |->
                                  CompileTimelineEntry(doc.timeline[i], nics)])}
    IN  IF ~meta.simulated \/ (doc.nic = <<>> /\ doc.pcap = <<>>) THEN Err
        ELSE UNION {plans(nics) :
               nics \in Collect([i \in DOMAIN doc.nic |-> CompileNic(doc.nic[i])])}

-----------------------------------------------------------------------------
(* The other commands.                                                     *)
NoControls ==
    [paused |-> FALSE, breakpointNs |-> None, breakpointTick |-> None, maxSteps |-> None]

(* run_headless_builtin: two of the scenarios have a ring or a consumer of *)
(* their own.                                                              *)
BuiltinPlan(s) ==
    Ok(Plan("Virtual", s.tick, s.duration, s.traffic,
            <<NewNic("nic0", s.traffic, s.fault)>>,
            [slots |-> IF s.name = "queue_overflow" THEN Defaults.overflowSlots
                                                    ELSE Defaults.slots,
             maxFrame |-> FrameOf(s.traffic)],
            <<[name |-> "c0", max |-> IF s.name = "slow_consumer" THEN 1 ELSE Unlimited]>>,
            <<>>, NoControls))

(* The file as a load of run_pcap finds it.  A recorder, a program of its  *)
(* own, may still be writing it: there is then only the beginning of what  *)
(* it has recorded, up to an end that each load finds where it is.         *)
Found(c, load) == SubSeq(PcapFile!WritePcap(c.recorded, c.format), 1, c.ends[load])

(* run_pcap loads the file three times: for the source, for the time of    *)
(* its last packet, a millisecond after which the scenario ends, and for   *)
(* the largest packet, which a slot has to take.                           *)
PcapPlan(c, capture) ==
    LET replay == IF c.fullSpeed THEN [name |-> "FullSpeed"]
                                 ELSE [name |-> "TimeScaled", num |-> 1, den |-> 1]
        reloaded(load) == PcapFile!LoadPcap(Found(c, load))
    IN  Ok(Plan("Virtual", Defaults.pcapTick,
                PcapFile!LastTimestamp(capture, reloaded("duration")) + UnitNs["ms"],
                DefaultTraffic,
                <<NewPcap("pcap0", capture, replay, FALSE, [kinds |-> {}, spikeNs |-> 0])>>,
                [slots |-> Defaults.slots,
                 maxFrame |-> PcapFile!LargestPacket(reloaded("frame"), Defaults.pcapFrame,
                                                     Defaults.minSlot)],
                <<[name |-> "c0", max |-> Unlimited]>>, <<>>, NoControls))

CompileCommand(c) ==
    CASE c.cmd = "file"    -> CompileDoc(c.doc)
      [] c.cmd = "builtin" -> BuiltinPlan(c.scenario)
      [] c.cmd = "pcap"    -> UNION {PcapPlan(c, capture) :
                                    capture \in PcapFile!LoadPcap(Found(c, "source"))}
=============================================================================
