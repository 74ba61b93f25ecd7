------------------------------ MODULE SimReplay ------------------------------
(***************************************************************************)
(* SimReplay of simulator/src/replay.rs: is a captured packet due at the   *)
(* current clock?  A mode is a record with its name and parameters; the    *)
(* factor of TimeScaled is a fraction num / den, and OriginalTiming is 1/1.*)
(* advance, pause and resume are left out: the scheduler, which owns its   *)
(* sources, has no way to call them.                                       *)
(***************************************************************************)
EXTENDS Integers

Never == -1

NewReplay(mode) ==
    [mode |-> mode, firstTs |-> Never, burstCount |-> 0, burstResume |-> Never,
     armed |-> TRUE]

(* timing_ready: the distance to the first packet, scaled, is compared     *)
(* with the clock itself.                                                  *)
Anchor(r, ts) == IF r.firstTs = Never THEN ts ELSE r.firstTs

TimingReady(r, ts, clock) ==
    LET delta == ts - Anchor(r, ts)
    IN  delta <= 0 \/ clock >= (delta * r.mode.num) \div r.mode.den

(* burst_ready: count packets, then none for gap nanoseconds.              *)
BurstReady(r, clock) == r.burstResume = Never \/ clock >= r.burstResume

AfterBurst(r, clock) ==
    LET n == IF r.burstResume = Never THEN r.burstCount + 1 ELSE 1
    IN  IF n >= r.mode.count
          THEN [r EXCEPT !.burstCount = 0, !.burstResume = clock + r.mode.gap]
          ELSE [r EXCEPT !.burstCount = n, !.burstResume = Never]

(* ready_at: the answer, and the controller after the question.            *)
ReadyAt(r, ts, clock) ==
    CASE r.mode.name = "FullSpeed"  -> TRUE
      [] r.mode.name = "SingleStep" -> r.armed
      [] r.mode.name = "TimeScaled" -> TimingReady(r, ts, clock)
      [] r.mode.name = "Burst"      -> BurstReady(r, clock)

AfterReadyAt(r, ts, clock) ==
    CASE r.mode.name = "FullSpeed"  -> r
      [] r.mode.name = "SingleStep" -> [r EXCEPT !.armed = FALSE]
      [] r.mode.name = "TimeScaled" -> [r EXCEPT !.firstTs = Anchor(r, ts)]
      [] r.mode.name = "Burst"      -> IF BurstReady(r, clock) THEN AfterBurst(r, clock) ELSE r
=============================================================================
