---------------------------- MODULE ReplayEngine ----------------------------
(***************************************************************************)
(* ReplayEngine of crates/flyby-storage/src/replay.rs: may the next record *)
(* be passed on now?  A mode is a record with its name and its parameters; *)
(* the factor of TimeScaled is num / den, and OriginalTiming is 1/1.       *)
(***************************************************************************)
EXTENDS Integers

Unset == -1

(* ReplayMode::validate, and ReplayEngine::new.                            *)
ValidMode(mode) ==
    CASE mode.name = "TimeScaled" -> mode.num > 0
      [] mode.name = "Burst"      -> mode.count > 0
      [] OTHER                    -> TRUE

NewEngine(mode) ==
    [mode |-> mode, start |-> Unset, firstTs |-> Unset,
     burstCount |-> 0, burstResume |-> Unset, armed |-> TRUE]

(* Mutant: the engine is armed when it is armed already.                   *)
AdvancedIfArmed(e) == [e EXCEPT !.armed = (e.mode.name # "SingleStep" \/ e.armed)]

(* advance.                                                                *)
Advanced(e) == IF e.mode.name = "SingleStep" THEN [e EXCEPT !.armed = TRUE] ELSE e

(* original_timing_ready: the first question sets the start and the first  *)
(* timestamp, from which both distances are taken.                         *)
Timed(e, ts, now) ==
    [e EXCEPT !.start   = IF @ = Unset THEN now ELSE @,
              !.firstTs = IF @ = Unset THEN ts ELSE @]

(* Mutant: the distance is compared with the clock itself.                 *)
OriginalTimingReadyAbsolute(e, ts, now) ==
    LET t == Timed(e, ts, now)
    IN  ts <= t.firstTs \/ now >= ((ts - t.firstTs) * e.mode.num) \div e.mode.den

OriginalTimingReady(e, ts, now) ==
    LET t == Timed(e, ts, now)
    IN  \/ ts <= t.firstTs
        \/ now >= t.start + ((ts - t.firstTs) * e.mode.num) \div e.mode.den

(* burst_ready: a pause of gap after every count records.                  *)
InPause(e, now) == e.burstResume # Unset /\ now < e.burstResume

AfterBurst(e, now) ==
    LET n == IF e.burstResume = Unset THEN e.burstCount + 1 ELSE 1
    IN  IF n >= e.mode.count
          THEN [e EXCEPT !.burstCount = 0, !.burstResume = now + e.mode.gap]
          ELSE [e EXCEPT !.burstCount = n, !.burstResume = Unset]

(* poll: the answer, and the engine after the question.                    *)
Ready(e, ts, now) ==
    CASE e.mode.name = "FullSpeed"  -> TRUE
      [] e.mode.name = "SingleStep" -> e.armed
      [] e.mode.name = "TimeScaled" -> OriginalTimingReady(e, ts, now)
      [] e.mode.name = "Burst"      -> ~InPause(e, now)

Polled(e, ts, now) ==
    CASE e.mode.name = "FullSpeed"  -> e
      [] e.mode.name = "SingleStep" -> [e EXCEPT !.armed = FALSE]
      [] e.mode.name = "TimeScaled" -> Timed(e, ts, now)
      [] e.mode.name = "Burst"      -> IF InPause(e, now) THEN e ELSE AfterBurst(e, now)
=============================================================================
