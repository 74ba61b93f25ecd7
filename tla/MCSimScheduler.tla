--------------------------- MODULE MCSimScheduler ---------------------------
(* SimScheduler for TLC: scenarios of three ticks or less, captures of     *)
(* eight, every traffic pattern, replay mode and fault, rings that         *)
(* overflow, and documents that are refused.  A nanosecond is the unit of  *)
(* time, a millisecond has two.                                            *)
EXTENDS SimScheduler

Units == [ns |-> 1, ms |-> 2]

Ns(n) == [num |-> n, den |-> 1, unit |-> "ns"]

Numbers ==
    [pps |-> 4, burstSize |-> 2, gap |-> Ns(1), payload |-> 2, randomPayload |-> 2,
     maxPayload |-> 2, quote |-> 1, symbol |-> 1, batch |-> 2, burstBatch |-> 3,
     header |-> 1, minFrame |-> 3, minSlot |-> 3, slots |-> 3, overflowSlots |-> 1,
     replayCount |-> 2, replayGap |-> 3, duration |-> Ns(5), tick |-> Ns(2), pcapTick |-> 2,
     pcapFrame |-> 4]

Meta == [duration |-> Ns(5), tick |-> [num |-> 3, den |-> 4, unit |-> "ms"]]
RealTime == Meta @@ [clock |-> "realtime"]

At(ts, size) == [ts |-> ts, data |-> [i \in 1 .. size |-> 0]]

(* Captures on the disk: nanoseconds in the other byte order.              *)
OnDisk(packets) == PcapFile!WritePcap(packets, [swap |-> TRUE, nanos |-> TRUE])

(* Two consumers, the first of which is slowed down and sped up again.     *)
Readers == <<[name |-> "c", max_per_drain |-> 2], [name |-> "d", max_per_drain |-> 1]>>
Narrow == [slots |-> 2, max_frame |-> 2]

SlowAt(n, max) ==
    [at |-> Ns(n), action |-> "slow_consumer", consumer |-> "c", max_per_drain |-> max]
FaultAt(n, rates) == [at |-> Ns(n), action |-> "set_fault", nic |-> "n", rates |-> rates]
FullAt(n) == [at |-> Ns(n), action |-> "set_traffic", nic |-> "n", pattern |-> "full"]
Changes == <<SlowAt(4, 2), FaultAt(3, {}), FullAt(3), SlowAt(0, 1), FaultAt(3, {"drop"})>>

(* The calls of a script at times the table has actions for, too.          *)
Script == <<[op |-> "at", at |-> 3], [op |-> "drop_rate", nic |-> "n", rate |-> FALSE],
            [op |-> "set_burst", nic |-> "n", size |-> 2, gap |-> 1],
            [op |-> "max_per_drain", at |-> 0, consumer |-> "c", max |-> 0]>>

FixedNic == [name |-> "n", traffic |-> [pps |-> 4], payload |-> [size |-> 1],
             fault |-> [rates |-> {"drop"}]]
BurstNic == [name |-> "n", batch_size |-> 3,
             traffic |-> [pattern |-> "burst", burst_size |-> 4, gap |-> Ns(3)],
             payload |-> [kind |-> "random", size |-> 2],
             fault |-> [rates |-> {"corrupt", "spike"}, latency_spike |-> Ns(3)]]
GaussNic == [name |-> "n", traffic |-> [pattern |-> "gaussian"]]
SizesNic == [name |-> "n", traffic |-> [pattern |-> "full"],
             payload |-> [kind |-> "gaussian_size", max |-> 3]]
QuoteNic(proto) == [name |-> "n", traffic |-> [pattern |-> "full"],
                    payload |-> [kind |-> "protocol", proto |-> proto]]

Pcap(packets, replay) == [name |-> "n", file |-> OnDisk(packets), replay |-> replay]

File(doc) == [cmd |-> "file", doc |-> doc]
Short(nic) == [scenario |-> [duration |-> Ns(2)], nic |-> <<nic>>, consumer |-> Readers]
Nic(nic) == [scenario |-> Meta, nic |-> <<nic>>, consumer |-> Readers]
Capture(pcap) ==
    [scenario |-> Meta, pcap |-> <<pcap>>, consumer |-> Readers, fabric |-> Narrow]

Documents ==
    << Nic(FixedNic) @@ [fabric |-> Narrow, timeline |-> Changes],
       Nic(BurstNic) @@ [timeline |-> Changes],
       Nic(BurstNic) @@ [fabric |-> [slots |-> 2], timeline |-> <<FullAt(3), FaultAt(3, {"drop"})>>,
                         script |-> [source |-> Script]],
       Nic(QuoteNic("market_quote")) @@ [edu |-> [breakpoint_ns |-> Ns(2)]],
       Short(QuoteNic("fix_quote")) @@ [fabric |-> [slots |-> 3]],
       Short(SizesNic),
       Capture(Pcap(<<At(0, 1), At(2, 2), At(3, 1)>>, "scaled") @@
               [scale |-> [num |-> 3, den |-> 2], fault |-> [rates |-> {"drop"}]]),
       Capture(Pcap(<<At(0, 1), At(1, 1), At(1, 1)>>, "burst") @@
               [loop |-> TRUE, fault |-> [rates |-> {"spike"}, latency_spike |-> Ns(-3)]])
         @@ [timeline |-> Changes],
       Capture(Pcap(<<At(5, 1), At(4, 1)>>, "single_step") @@ [loop |-> TRUE]),
       Capture(Pcap(<<At(0, 4), At(0, 1)>>, "full") @@ [loop |-> TRUE]),
       Capture(Pcap(<<>>, "original") @@ [loop |-> TRUE]),
       [scenario |-> RealTime, nic |-> <<GaussNic>>,
        script |-> [engine |-> "", source |-> <<>>, file |-> Script]],
       [scenario |-> RealTime, pcap |-> <<Pcap(<<At(1, 4)>>, "full") @@
                                          [fault |-> [rates |-> {"corrupt"}]]>>] >>

(* Documents that name something unknown, or lack something.               *)
Refused ==
    << [scenario |-> Meta],
       [scenario |-> Meta @@ [simulated |-> FALSE], nic |-> <<FixedNic>>],
       [scenario |-> [tick |-> Ns(0)], nic |-> <<FixedNic>>],
       [scenario |-> Meta @@ [clock |-> "wall"], nic |-> <<FixedNic>>],
       [scenario |-> Meta, nic |-> <<[name |-> "n"]>>],
       Nic(FixedNic) @@ [fabric |-> [slots |-> 0]],
       Nic(FixedNic) @@ [fabric |-> [max_frame |-> 0]],
       Nic(QuoteNic("json")),
       Nic(FixedNic) @@ [timeline |-> <<SlowAt(0, 0)>>],
       Nic(FixedNic) @@ [timeline |-> <<[at |-> Ns(0), action |-> "set_fault"]>>],
       Nic(FixedNic) @@ [edu |-> [breakpoint_ns |-> [num |-> None, den |-> 1, unit |-> "ns"]]],
       Nic(FixedNic) @@ [script |-> [source |-> Tail(Script)]],
       Nic(FixedNic) @@ [script |-> [engine |-> "lua", source |-> Script]],
       Nic(FixedNic) @@ [script |-> [source |-> <<>>]],
       Capture(Pcap(<<>>, "backwards")),
       Capture(Pcap(<<>>, "scaled") @@ [scale |-> [num |-> 0, den |-> 1]]),
       Capture([name |-> "n"]),
       Capture([name |-> "n", replay |-> "full", file |-> <<0, 2, 0, 0, 15, 1>>]),
       Capture([name |-> "n", replay |-> "full", file |-> Front(OnDisk(<<At(0, 1)>>))]) >>

Builtin(name) ==
    [cmd |-> "builtin",
     scenario |-> [name |-> name, tick |-> 2, duration |-> 4,
                   traffic |-> [pattern |-> "FullSpeed", payload |-> "fixed",
                                payloadSize |-> 1, batchSize |-> 2],
                   fault |-> [kinds |-> {}, spikeNs |-> 0]]]

(* Captures that are recorded while they are replayed: a packet below a    *)
(* second and one above it, in a file of 17 cells: the header ends with    *)
(* cell 6, the packets with cells 11 and 17.  A load finds half a header,  *)
(* half a packet, or a file that has grown since the load before.          *)
Recorded == <<At(1, 1), At(13, 2)>>
Replay(swap, nanos, fullSpeed, source, duration, frame) ==
    [cmd |-> "pcap", recorded |-> Recorded, format |-> [swap |-> swap, nanos |-> nanos],
     ends |-> [source |-> source, duration |-> duration, frame |-> frame],
     fullSpeed |-> fullSpeed]

Captures ==
    << Replay(TRUE, TRUE, TRUE, 17, 17, 17), Replay(FALSE, FALSE, FALSE, 17, 17, 17),
       Replay(TRUE, FALSE, FALSE, 11, 17, 17), Replay(FALSE, TRUE, FALSE, 11, 11, 17),
       Replay(FALSE, TRUE, FALSE, 11, 16, 17), Replay(TRUE, FALSE, TRUE, 11, 14, 16),
       Replay(TRUE, TRUE, FALSE, 6, 11, 17), Replay(FALSE, TRUE, TRUE, 6, 6, 6),
       Replay(TRUE, TRUE, FALSE, 9, 11, 11), Replay(FALSE, TRUE, FALSE, 14, 17, 17),
       Replay(FALSE, FALSE, TRUE, 10, 11, 17), Replay(TRUE, FALSE, FALSE, 15, 17, 17),
       Replay(FALSE, TRUE, FALSE, 16, 17, 17), Replay(TRUE, TRUE, FALSE, 5, 6, 11),
       Replay(FALSE, FALSE, TRUE, 0, 6, 17) >>

OneSource ==
    [i \in DOMAIN Documents |-> File(Documents[i])]
      \o [i \in DOMAIN Refused |-> File(Refused[i])]
      \o <<Builtin("queue_overflow"), Builtin("slow_consumer")>> \o Captures

(* Two NICs that are polled in every tick.                                 *)
TwoSources ==
    <<File([scenario |-> Meta,
            nic |-> <<[name |-> "n", traffic |-> [pps |-> 4]],
                      [name |-> "m", traffic |-> [pps |-> 4]]>>])>>

Controls(paused, ns, tick, max) ==
    [paused |-> paused, breakpointNs |-> ns, breakpointTick |-> tick, maxSteps |-> max]

Stops ==
    { Controls(FALSE, None, None, None), Controls(TRUE, None, None, None),
      Controls(FALSE, 3, None, None), Controls(FALSE, None, 1, 2) }
NoStops == {Controls(FALSE, None, None, None)}
=============================================================================
