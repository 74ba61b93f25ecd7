---------------------------- MODULE TrafficPacer ----------------------------
(***************************************************************************)
(* TrafficPacer of simulator/src/traffic.rs: how many packets a virtual    *)
(* NIC has to send in a tick.  A traffic configuration is a record with    *)
(* the pattern, its parameters and the batch size.                         *)
(***************************************************************************)
EXTENDS Integers, FiniteSetsExt

CONSTANT NsPerSecond     \* 1_000_000_000 in the code

ASSUME SecondAssumption == NsPerSecond \in Nat \ {0}

NewPacer(traffic) ==
    [burstRemaining |-> IF traffic.pattern = "Burst" THEN traffic.burstSize ELSE 0,
     gapRemaining   |-> 0,
     carry          |-> 0]

Lesser(a, b) == Min({a, b})

(* Mutant: the rest of a tick is lost.                                     *)
FixedRateNoCarry(traffic, pacer, tick) ==
    IF traffic.pps = 0 THEN <<0, pacer>>
    ELSE LET nsPerPacket == NsPerSecond \div traffic.pps
         IN  IF nsPerPacket = 0
               THEN <<traffic.batchSize, pacer>>
               ELSE <<Lesser(tick \div nsPerPacket, traffic.batchSize), pacer>>

(* FixedRate: what is left of a tick is carried over to the next one; what *)
(* does not fit the batch is not.                                          *)
FixedRate(traffic, pacer, tick) ==
    IF traffic.pps = 0 THEN <<0, pacer>>
    ELSE LET budget == pacer.carry + tick
             nsPerPacket == NsPerSecond \div traffic.pps
         IN  IF nsPerPacket = 0
               THEN <<traffic.batchSize, [pacer EXCEPT !.carry = 0]>>
               ELSE <<Lesser(budget \div nsPerPacket, traffic.batchSize),
                      [pacer EXCEPT !.carry = budget % nsPerPacket]>>

(* Burst: a burst is spread over ticks of a batch each; the gap starts     *)
(* with the tick after its last packet.                                    *)
Burst(traffic, pacer, tick) ==
    IF pacer.gapRemaining > 0
      THEN <<0, [pacer EXCEPT !.gapRemaining = IF @ > tick THEN @ - tick ELSE 0]>>
      ELSE LET owed == IF pacer.burstRemaining = 0 THEN traffic.burstSize
                                                   ELSE pacer.burstRemaining
               n == Lesser(owed, traffic.batchSize)
           IN  <<n, [pacer EXCEPT
                       !.burstRemaining = owed - n,
                       !.gapRemaining = IF owed = n THEN traffic.gap ELSE 0]>>

(* The counts packets_for_tick may answer, each with the pacer after it.   *)
(* The sample of Gaussian is any number up to the batch size.              *)
PacketsForTick(traffic, pacer, tick) ==
    CASE traffic.pattern = "FullSpeed" -> {<<traffic.batchSize, pacer>>}
      [] traffic.pattern = "FixedRate" -> {FixedRate(traffic, pacer, tick)}
      [] traffic.pattern = "Burst"     -> {Burst(traffic, pacer, tick)}
      [] traffic.pattern = "Gaussian"  -> (0 .. traffic.batchSize) \X {pacer}
=============================================================================
