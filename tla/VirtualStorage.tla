--------------------------- MODULE VirtualStorage ---------------------------
(***************************************************************************)
(* VirtualStorageSource of simulator/src/storage.rs around a FileSource,   *)
(* and a caller that polls it and replays the records with a ReplayEngine  *)
(* (crates/flyby-storage/src/replay.rs).                                   *)
(*                                                                         *)
(* The batch of FileSource is the scratch batch here (ResetsBatch is FALSE)*)
(* and what FileSource has delivered is what is left to be filtered.       *)
(***************************************************************************)
EXTENDS FileSource, Faults, ReplayEngine

CONSTANTS
    FaultPolicies,     \* the FaultSpecs, as sets of faults
    CallerCapacity, CallerRecordSize,   \* the batch of the caller
    Modes,             \* the replay modes
    MaxClock,          \* bound: time that passes while nobody waits for it
    MaxAdvances        \* bound: calls of advance, more than there are records

ASSUME VirtualAssumption ==
    /\ {CallerCapacity, CallerRecordSize} \subseteq Nat \ {0}
    /\ {MaxClock, MaxAdvances} \subseteq Nat

(* The parameters of the modes; a factor is a fraction.                    *)
ASSUME ModesAssumption ==
    \A mode \in Modes :
      \/ mode \in [name : {"FullSpeed", "SingleStep"}]
      \/ mode \in [name : {"TimeScaled"}, num : Nat, den : Nat \ {0}]
      \/ mode \in [name : {"Burst"}, count : Nat, gap : Nat]

VARIABLES
    fault,
    counts,        \* records_read, records_dropped, records_corrupted
    pendingSpikes, \* pending_spike_ns, as a number of spikes
    handled,       \* records of the inner source that have been filtered
    inBatch,       \* records in the caller's batch
    queue,         \* records the caller has got and not yet emitted
    engine, wall,  \* the caller's engine, and its clock
    emitted,       \* history: what the caller has emitted, and when
    advances       \* history: calls of advance since the engine exists

virtual == <<fault, counts, pendingSpikes, handled, inBatch>>
caller  == <<queue, engine, wall, emitted, advances>>
all     == <<vars, virtual, caller>>

NoCounts == [read |-> 0, dropped |-> 0, corrupted |-> 0]

VirtualInit ==
    /\ Init
    /\ fault \in FaultPolicies /\ counts = NoCounts
    /\ pendingSpikes = 0 /\ handled = 0 /\ inBatch = 0
    /\ \E mode \in Modes : ValidMode(mode) /\ engine = NewEngine(mode)
    /\ queue = <<>> /\ wall = 0 /\ emitted = <<>> /\ advances = 0

(* Nothing of the last poll of the inner source is left to be filtered.    *)
Filtered == handled = Len(delivered)

-----------------------------------------------------------------------------
(* Lifecycle::init; the caller begins its replay again as well.            *)
VirtualInitCall ==
    /\ Filtered /\ InitCall
    /\ counts' = NoCounts /\ pendingSpikes' = 0 /\ handled' = 0
    /\ queue' = <<>> /\ emitted' = <<>> /\ advances' = 0
    /\ engine' = NewEngine(engine.mode)
    /\ UNCHANGED <<fault, inBatch, wall>>

VirtualShutdownCall ==
    /\ Filtered /\ (ShutdownCall \/ InitFails) /\ UNCHANGED <<virtual, caller>>

(* The caller's batch is reset when the inner source has answered Ok.      *)
ResetAnswered == inBatch' = IF pc' = "idle" /\ result' = "ok" THEN 0 ELSE inBatch

(* poll_batch polls the inner source, whose poll goes on in InnerPoll.     *)
(* The caller polls when it has emitted everything.                        *)
VirtualPoll ==
    /\ Filtered /\ queue = <<>> /\ (PollBatch \/ PollFull) /\ ResetAnswered
    /\ UNCHANGED <<fault, counts, pendingSpikes, handled, caller>>

InnerPoll ==
    /\ (Framed \/ Filled \/ HandleEof) /\ ResetAnswered
    /\ UNCHANGED <<fault, counts, pendingSpikes, handled, caller>>

Surroundings == (IntervalElapses \/ FileGrows) /\ UNCHANGED <<virtual, caller>>

(* RawRecordBatch::push refuses what is too large, and all once it is full.*)
Pushable(record) == inBatch < CallerCapacity /\ Len(record.bytes) <= CallerRecordSize

(* Mutant: a record the caller's batch has refused is not counted.         *)
FilterRecordUncounted ==
    /\ ~Filtered /\ pc = "idle"
    /\ \E fate \in Fates(fault) :
         LET record == delivered[handled + 1]
             passed == "drop" \notin fate /\ Pushable(record)
             bad    == "corrupt" \in fate
         IN  /\ counts' = [read |-> counts.read + 1,
                           dropped |-> counts.dropped + (IF "drop" \in fate THEN 1 ELSE 0),
                           corrupted |-> counts.corrupted + (IF bad THEN 1 ELSE 0)]
             /\ pendingSpikes' = pendingSpikes + (IF "spike" \in fate THEN 1 ELSE 0)
             /\ inBatch' = inBatch + (IF passed THEN 1 ELSE 0)
             /\ queue' = IF passed THEN Append(queue, [record |-> record, bad |-> bad])
                                   ELSE queue
    /\ handled' = handled + 1
    /\ UNCHANGED <<vars, fault, engine, wall, emitted, advances>>

(* The loop of poll_batch over the records.                                *)
FilterRecord ==
    /\ ~Filtered /\ pc = "idle"
    /\ \E fate \in Fates(fault) :
         LET record == delivered[handled + 1]
             passed == "drop" \notin fate /\ Pushable(record)
             bad    == "corrupt" \in fate
         IN  /\ counts' = [read |-> counts.read + 1,
                           dropped |-> counts.dropped + (IF passed THEN 0 ELSE 1),
                           corrupted |-> counts.corrupted + (IF bad THEN 1 ELSE 0)]
             /\ pendingSpikes' = pendingSpikes + (IF "spike" \in fate THEN 1 ELSE 0)
             /\ inBatch' = inBatch + (IF passed THEN 1 ELSE 0)
             /\ queue' = IF passed THEN Append(queue, [record |-> record, bad |-> bad])
                                   ELSE queue
    /\ handled' = handled + 1
    /\ UNCHANGED <<vars, fault, engine, wall, emitted, advances>>

(* take_spike_ns.                                                          *)
TakeSpikes ==
    /\ Filtered /\ pc = "idle" /\ queue = <<>> /\ pendingSpikes > 0
    /\ pendingSpikes' = 0
    /\ UNCHANGED <<vars, fault, counts, handled, inBatch, caller>>

-----------------------------------------------------------------------------
(* The caller asks the engine about the oldest record it has, whose        *)
(* timestamp is in its first byte: FileSource has none.                    *)
TimestampOf(entry) == Head(entry.record.bytes)

NextReady == queue # <<>> /\ Ready(engine, TimestampOf(Head(queue)), wall)

Ask ==
    /\ Filtered /\ pc = "idle" /\ queue # <<>>
    /\ engine' = Polled(engine, TimestampOf(Head(queue)), wall)
    /\ IF NextReady
         THEN /\ emitted' = Append(emitted, [entry |-> Head(queue), at |-> wall])
              /\ queue' = Tail(queue)
         ELSE UNCHANGED <<emitted, queue>>
    /\ UNCHANGED <<vars, virtual, wall, advances>>

Waiting == queue # <<>> /\ ~NextReady

Advance ==
    /\ Filtered /\ pc = "idle" /\ engine.mode.name = "SingleStep"
    /\ ~engine.armed /\ advances < MaxAdvances
    /\ engine' = Advanced(engine) /\ advances' = advances + 1
    /\ UNCHANGED <<vars, virtual, queue, wall, emitted>>

(* Only Ask reads the clock.                                               *)
TimePasses ==
    /\ Filtered /\ pc = "idle"
    /\ (Waiting /\ engine.mode.name # "SingleStep") \/ wall < MaxClock
    /\ wall' = wall + 1
    /\ UNCHANGED <<vars, virtual, queue, engine, emitted, advances>>

VirtualNext ==
    \/ VirtualInitCall \/ VirtualShutdownCall \/ VirtualPoll \/ InnerPoll
    \/ Surroundings \/ FilterRecord \/ TakeSpikes \/ Ask \/ Advance \/ TimePasses

VirtualSpec == VirtualInit /\ [][VirtualNext]_all

(* The poll goes on, the caller asks again and again and arms the engine,  *)
(* and time passes.                                                        *)
VirtualFairSpec ==
    /\ VirtualSpec
    /\ WF_all(InnerPoll \/ FilterRecord) /\ WF_all(Ask)
    /\ WF_all(Advance) /\ WF_all(TimePasses)

-----------------------------------------------------------------------------
(* The types of the wrapper's and the caller's state.                      *)
VirtualTypeOK ==
    /\ fault \in FaultPolicies
    /\ DOMAIN counts = DOMAIN NoCounts /\ \A f \in DOMAIN counts : counts[f] \in Nat
    /\ pendingSpikes \in Nat /\ handled \in 0 .. Len(delivered)
    /\ inBatch \in 0 .. CallerCapacity /\ Len(queue) <= CallerCapacity
    /\ wall \in Nat /\ advances \in Nat
    /\ startCount \in 0 .. Capacity /\ Len(batch) <= Capacity

(* What the caller has got since init.                                     *)
Passed == [k \in DOMAIN emitted |-> emitted[k].entry] \o queue

(* Every record the wrapper has read was passed on or is among the dropped *)
(* ones, whether a fault or the caller's batch is to blame, and only the   *)
(* corrupted ones differ from what is in the file: also in later sessions  *)
(* and with whatever the scratch batch still holds.                        *)
RecordsBalance ==
    /\ counts.read = Len(Passed) + counts.dropped
    /\ counts.corrupted >= Cardinality({k \in DOMAIN Passed : Passed[k].bad})
    /\ \A k \in DOMAIN Passed : \E r \in Range(RecordsOf(file)) :
         /\ r.offset = Passed[k].record.offset /\ r.bytes = Passed[k].record.bytes

(* The engine never lets a record out early: not before its distance to    *)
(* the first one has passed since the replay began, not within the gap     *)
(* after a burst, and not without advance.                                 *)
ReplayPaced ==
    LET mode == engine.mode
        ts(k) == TimestampOf(emitted[k].entry)
    IN  CASE mode.name = "TimeScaled" ->
               \A k \in DOMAIN emitted :
                  (emitted[k].at - emitted[1].at) * mode.den
                      >= (ts(k) - ts(1)) * mode.num - (mode.den - 1)
          [] mode.name = "Burst" ->
               \A k \in DOMAIN emitted : k > mode.count =>
                  emitted[k].at - emitted[k - mode.count].at >= mode.gap
          [] mode.name = "SingleStep" -> Len(emitted) <= advances + 1
          [] OTHER -> TRUE

(* The caller gets rid of every record it holds: no record waits for ever, *)
(* whatever its timestamp, as long as time passes and SingleStep is armed. *)
EveryRecordEmitted == (queue # <<>>) ~> (queue = <<>>)

(* The counters and the batches.                                           *)
StorageInv == VirtualTypeOK /\ RecordsBalance
=============================================================================
