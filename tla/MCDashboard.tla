----------------------------- MODULE MCDashboard -----------------------------
(* The dashboard for TLC: documents with drops and with a breakpoint, a    *)
(* capture, a built-in scenario, real time, and one that is refused.       *)
EXTENDS Dashboard

Units == [ns |-> 1, ms |-> 2]

Ns(n) == [num |-> n, den |-> 1, unit |-> "ns"]

Numbers ==
    [pps |-> 4, burstSize |-> 2, gap |-> Ns(1), payload |-> 1, randomPayload |-> 2,
     maxPayload |-> 2, quote |-> 1, symbol |-> 1, batch |-> 2, burstBatch |-> 3,
     header |-> 1, minFrame |-> 2, minSlot |-> 2, slots |-> 3, overflowSlots |-> 1,
     replayCount |-> 2, replayGap |-> 3, duration |-> Ns(5), tick |-> Ns(2), pcapTick |-> 2,
     pcapFrame |-> 4]

Meta == [duration |-> Ns(5), tick |-> Ns(2)]
Full(fault) == [name |-> "n", traffic |-> [pattern |-> "full"], fault |-> fault]

At(ts, size) == [ts |-> ts, data |-> [i \in 1 .. size |-> 0]]
OnDisk(packets) == PcapFile!WritePcap(packets, [swap |-> FALSE, nanos |-> TRUE])

File(doc) == [cmd |-> "file", doc |-> doc]

Session ==
    << File([scenario |-> Meta, nic |-> <<Full([rates |-> {"drop"}])>>]),
       File([scenario |-> Meta, nic |-> <<Full([rates |-> {"corrupt"}])>>,
             edu |-> [breakpoint_tick |-> 1],
             timeline |-> <<[at |-> Ns(2), action |-> "set_fault", nic |-> "n"]>>]),
       File([scenario |-> Meta,
             pcap |-> <<[name |-> "p", loop |-> TRUE,
                         file |-> OnDisk(<<At(0, 3), At(1, 1)>>)]>>]),
       File([scenario |-> Meta @@ [clock |-> "realtime"],
             pcap |-> <<[name |-> "p", file |-> OnDisk(<<At(1, 1)>>)]>>]),
       File([scenario |-> Meta]),
       [cmd |-> "builtin",
        scenario |-> [name |-> "queue_overflow", tick |-> 2, duration |-> 5,
                      traffic |-> [pattern |-> "FixedRate", pps |-> 12, payload |-> "fixed",
                                   payloadSize |-> 1, batchSize |-> 2],
                      fault |-> [kinds |-> {}, spikeNs |-> 0]]] >>

(* A document with a breakpoint in the middle of its time, alone.          *)
OnlyBreakpoint ==
    <<File([scenario |-> Meta, nic |-> <<Full([rates |-> {"drop"}])>>,
            edu |-> [breakpoint_tick |-> 1]])>>

NoStops == {}
==============================================================================
