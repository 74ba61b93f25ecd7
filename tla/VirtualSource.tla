--------------------------- MODULE VirtualSource ---------------------------
(***************************************************************************)
(* The packet sources of the simulator as the scheduler sees them through  *)
(* DynNic: VirtualNic (simulator/src/nic.rs), which makes packets, and     *)
(* PcapSource (simulator/src/pcap.rs), which replays a capture.            *)
(*                                                                         *)
(* A source is a record.  A capture is a sequence of packets with their    *)
(* timestamps and sizes.  A fault policy has the kinds of faults and the   *)
(* length of a latency spike.                                              *)
(***************************************************************************)
EXTENDS TrafficPacer, SimReplay, Faults, Sequences

NewNic(name, traffic, fault) ==
    [name |-> name, kind |-> "nic", initialized |-> FALSE, traffic |-> traffic, fault |-> fault,
     pacer |-> NewPacer(traffic), generated |-> 0, dropped |-> 0,
     corrupted |-> 0, spikeNs |-> 0, paced |-> 0, polls |-> 0]

NewPcap(name, capture, mode, loop, fault) ==
    [name |-> name, kind |-> "pcap", initialized |-> FALSE, capture |-> capture, loop |-> loop,
     fault |-> fault, cursor |-> 0, replay |-> NewReplay(mode),
     generated |-> 0, dropped |-> 0, corrupted |-> 0, spikeNs |-> 0,
     exhausted |-> FALSE]

(* Lifecycle::init.  The traffic and the faults stay what set_traffic and  *)
(* set_fault have made of them.                                            *)
Reset(s) == [s EXCEPT !.initialized = TRUE, !.generated = 0, !.dropped = 0,
                      !.corrupted = 0, !.spikeNs = 0]

Started(s) ==
    IF s.kind = "nic"
      THEN [Reset(s) EXCEPT !.pacer = NewPacer(s.traffic), !.paced = 0, !.polls = 0]
      ELSE [Reset(s) EXCEPT !.cursor = 0, !.exhausted = FALSE,
                            !.replay = NewReplay(s.replay.mode)]

(* Lifecycle::shutdown.                                                    *)
Stopped(s) == [s EXCEPT !.initialized = FALSE]

(* set_traffic (of no effect on a capture) and set_fault.  paced and polls *)
(* are history: packets owed and ticks since the pacer is there.           *)
WithTraffic(s, traffic) ==
    IF s.kind = "pcap" THEN s
    ELSE [s EXCEPT !.traffic = traffic, !.pacer = NewPacer(traffic),
                   !.paced = 0, !.polls = 0]

WithFault(s, fault) == [s EXCEPT !.fault = fault]

(* Mutant: a dropped packet is not counted.                                *)
CountedWithoutDrops(s, fate) ==
    [s EXCEPT !.generated = @ + 1,
              !.corrupted = IF "corrupt" \in fate THEN @ + 1 ELSE @,
              !.spikeNs   = IF "spike" \in fate THEN @ + s.fault.spikeNs ELSE @]

(* The counters after a packet with this fate.                             *)
Counted(s, fate) ==
    [s EXCEPT !.generated = @ + 1,
              !.dropped   = IF "drop" \in fate THEN @ + 1 ELSE @,
              !.corrupted = IF "corrupt" \in fate THEN @ + 1 ELSE @,
              !.spikeNs   = IF "spike" \in fate THEN @ + s.fault.spikeNs ELSE @]

(* VirtualNic::poll_batch asks the pacer first.                            *)
Paced(s, tick) ==
    {[count |-> p[1],
      source |-> [s EXCEPT !.pacer = p[2], !.paced = @ + p[1], !.polls = @ + 1]] :
        p \in PacketsForTick(s.traffic, s.pacer, tick)}

(* PayloadGenerator: the payloads of the Gaussian sizes and of a FIX quote *)
(* have any length up to the configured one.  build_udp_frame puts the     *)
(* headers in front of it.                                                 *)
PayloadLengths(traffic) ==
    IF traffic.payload = "varying" THEN 1 .. traffic.payloadSize
    ELSE {IF traffic.payloadSize = 0 THEN 1 ELSE traffic.payloadSize}

(* PcapSource::poll_batch, the head of its loop: a capture that is looped  *)
(* over starts again with a new SimReplay, another one is exhausted.       *)
AtEnd(s) == s.cursor >= Len(s.capture)

Rewound(s) ==
    IF AtEnd(s) /\ s.loop /\ s.capture # <<>>
      THEN [s EXCEPT !.cursor = 0, !.replay = NewReplay(s.replay.mode)]
      ELSE s

PcapReady(s, clock) ==
    LET r == Rewound(s)
    IN  ~AtEnd(r) /\ ReadyAt(r.replay, r.capture[r.cursor + 1].ts, clock)

PcapAsked(s, clock) ==
    LET r == Rewound(s)
    IN  IF AtEnd(r) THEN [r EXCEPT !.exhausted = TRUE]
        ELSE [r EXCEPT !.replay = AfterReadyAt(@, r.capture[r.cursor + 1].ts, clock)]

PcapSize(s) == LET r == Rewound(s) IN r.capture[r.cursor + 1].size

PcapTaken(s, clock) == [PcapAsked(s, clock) EXCEPT !.cursor = @ + 1]
=============================================================================
