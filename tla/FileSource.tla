----------------------------- MODULE FileSource -----------------------------
(***************************************************************************)
(* FileSource of crates/flyby-storage/src/file.rs and the two parts that   *)
(* poll it: StorageBatchSource of crates/flyby/src/pipeline.rs, which      *)
(* resets the batch before every poll and copies its records out when the  *)
(* poll returns Ok, and VirtualStorageSource of the simulator, which does  *)
(* not reset it and takes as many of its records as the poll has counted.  *)
(*                                                                         *)
(* One poll_batch is a sequence of steps, because the file may grow        *)
(* between two reads, and because a read may return fewer bytes than were  *)
(* asked for, or fail.  The file never changes but at its end.             *)
(***************************************************************************)
EXTENDS Framing, FiniteSets

CONSTANTS
    Bytes,               \* the bytes files are made of
    MaxFile,             \* bound: length of the file
    Framers,             \* the framing strategies
    Policies,            \* EofPolicy: a subset of {"Stop", "Loop", "Follow"}
    ReadChunk,           \* READ_CHUNK
    Capacity,            \* slots of the batch
    MaxRecordSize,       \* bytes of a slot
    MaxLoops,            \* bound: rewinds before the caller stops polling
    MaxStarts,           \* bound: calls of init
    MaxIoErrors,         \* bound: failing reads and seeks
    ResetsBatch,         \* does the caller reset the batch before a poll?
    PollAfterReadError   \* does the caller poll again after a failed read?

ASSUME FileAssumption ==
    /\ Bytes \subseteq 0 .. 255 /\ 0 \in Bytes /\ Framers \subseteq Framer
    /\ {ReadChunk, Capacity, MaxRecordSize} \subseteq Nat \ {0}
    /\ {MaxFile, MaxLoops, MaxStarts, MaxIoErrors} \subseteq Nat
    /\ Policies \subseteq {"Stop", "Loop", "Follow"}
    /\ {ResetsBatch, PollAfterReadError} \subseteq BOOLEAN

VARIABLES
    framer, policy,       \* the configuration
    file,                 \* the contents of the file
    pos,                  \* the position of the open file
    readBuf, bufFileOffset, recordIndex, loopCount, exhausted, initialized,
    followNext,           \* "none", "pending" until the interval is over, "elapsed"
    recordsSinceRewind,
    batch,                \* the records in the batch
    rewound,              \* rewound_this_poll
    startCount,           \* start_count: records that were in the batch already
    pc,                   \* "idle" between polls, "framing" or "fill" inside one
    result,               \* what the last call returned
    starts, ioErrors,     \* calls of init, failed reads and seeks
    damaged,              \* history: a read has failed since init
    delivered, lost       \* history: records the caller got, and records
                          \* that were in the batch of a failed poll

config   == <<framer, policy>>
buffer   == <<readBuf, bufFileOffset, pos>>
progress == <<recordIndex, recordsSinceRewind>>
session  == <<progress, loopCount, exhausted, initialized, followNext>>
call     == <<pc, result>>
locals   == <<rewound, startCount>>
history  == <<delivered, lost>>
bounds   == <<starts, ioErrors, damaged>>

vars == <<config, file, buffer, session, batch, locals, call, bounds, history>>

Files == UNION {[1 .. n -> Bytes] : n \in 0 .. MaxFile}

-----------------------------------------------------------------------------
(* FileSource::new: nothing is open.                                       *)
Init ==
    /\ framer \in Framers /\ policy \in Policies /\ file \in Files
    /\ readBuf = <<>> /\ bufFileOffset = 0 /\ pos = 0
    /\ recordIndex = 0 /\ recordsSinceRewind = 0
    /\ loopCount = 0 /\ exhausted = FALSE /\ initialized = FALSE
    /\ followNext = "none" /\ batch = <<>> /\ rewound = FALSE
    /\ pc = "idle" /\ result = "none" /\ startCount = 0
    /\ starts = 0 /\ ioErrors = 0 /\ damaged = FALSE
    /\ delivered = <<>> /\ lost = {}

(* Lifecycle::init opens the file and starts from scratch, also when the   *)
(* source is open already.                                                 *)
InitCall ==
    /\ pc = "idle" /\ starts < MaxStarts
    /\ readBuf' = <<>> /\ pos' = 0 /\ bufFileOffset' = 0
    /\ recordIndex' = 0 /\ recordsSinceRewind' = 0 /\ loopCount' = 0
    /\ exhausted' = FALSE /\ initialized' = TRUE /\ followNext' = "none"
    /\ result' = "ok" /\ starts' = starts + 1 /\ damaged' = FALSE
    /\ delivered' = <<>> /\ lost' = {}
    /\ UNCHANGED <<config, file, batch, locals, pc, ioErrors>>

(* The file cannot be opened: nothing changes.                             *)
InitFails ==
    /\ pc = "idle" /\ starts < MaxStarts
    /\ result' = "err" /\ starts' = starts + 1
    /\ UNCHANGED <<config, file, buffer, session, batch, locals, pc,
                   ioErrors, damaged, history>>

(* Lifecycle::shutdown; exhausted keeps its value.                         *)
ShutdownCall ==
    /\ pc = "idle"
    /\ readBuf' = <<>> /\ initialized' = FALSE /\ followNext' = "none"
    /\ result' = "ok"
    /\ UNCHANGED <<config, file, bufFileOffset, pos, progress, loopCount,
                   exhausted, batch, locals, pc, bounds, history>>

-----------------------------------------------------------------------------
(* poll_batch returns: Ok(n) makes the caller take the first n records of  *)
(* the batch, and Err leaves in it what the next reset throws away.        *)
Deliver(records) ==
    /\ pc' = "idle" /\ result' = "ok"
    /\ delivered' = delivered \o SubSeq(records, 1, Len(records) - startCount)
    /\ UNCHANGED lost

Fail ==
    /\ pc' = "idle" /\ result' = "err"
    /\ lost' = lost \cup {batch[i] : i \in startCount + 1 .. Len(batch)}
    /\ UNCHANGED delivered

(* The caller resets the batch, or forgets to, and calls poll_batch.       *)
CallerPolls ==
    /\ pc = "idle" /\ loopCount < MaxLoops
    /\ PollAfterReadError \/ ~damaged
    /\ batch' = IF ResetsBatch THEN <<>> ELSE batch

PollRefused ==
    /\ CallerPolls /\ ~initialized
    /\ result' = "err"
    /\ UNCHANGED <<config, file, buffer, session, locals, pc, bounds,
                   history>>

(* Nothing to do: the file has ended, or the interval of Follow has not.   *)
PollNothing ==
    /\ CallerPolls /\ initialized
    /\ exhausted \/ followNext = "pending"
    /\ result' = "ok"
    /\ UNCHANGED <<config, file, buffer, session, locals, pc, bounds,
                   history>>

(* The batch is full before the first record, as only a caller meets it    *)
(* that does not reset its batch.                                          *)
PollFull ==
    /\ CallerPolls /\ initialized /\ ~exhausted /\ followNext # "pending"
    /\ Len(batch') >= Capacity
    /\ followNext' = "none" /\ result' = "ok"
    /\ UNCHANGED <<config, file, buffer, progress, loopCount, exhausted,
                   initialized, locals, pc, bounds, history>>

(* Mutant: the timer of Follow is never taken back.                        *)
PollBeginIgnoresTimer ==
    /\ CallerPolls /\ initialized /\ ~exhausted /\ followNext = "none"
    /\ Len(batch') < Capacity
    /\ followNext' = "none" /\ rewound' = FALSE /\ startCount' = Len(batch')
    /\ pc' = "framing"
    /\ UNCHANGED <<config, file, buffer, progress, loopCount, exhausted,
                   initialized, result, bounds, history>>

PollBegin ==
    /\ CallerPolls /\ initialized /\ ~exhausted /\ followNext # "pending"
    /\ Len(batch') < Capacity
    /\ followNext' = "none" /\ rewound' = FALSE /\ startCount' = Len(batch')
    /\ pc' = "framing"
    /\ UNCHANGED <<config, file, buffer, progress, loopCount, exhausted,
                   initialized, result, bounds, history>>

-----------------------------------------------------------------------------
(* The inner loop asks the framer, unless the buffer is empty.             *)
NextLen == IF readBuf = <<>> THEN NeedMore ELSE NextRecordLen(framer, readBuf)

NeedsData ==
    /\ pc = "framing" /\ NextLen = NeedMore
    /\ pc' = "fill"
    /\ UNCHANGED <<config, file, buffer, session, batch, locals, result,
                   bounds, history>>

(* The checks of consume_record.                                           *)
Acceptable(len) == len \in 1 .. Len(readBuf) /\ len <= MaxRecordSize

RecordRejected ==
    /\ pc = "framing" /\ NextLen # NeedMore /\ ~Acceptable(NextLen)
    /\ Fail
    /\ UNCHANGED <<config, file, buffer, session, batch, locals, bounds>>

(* consume_record, and the way out of the loops when the batch is full.    *)
ConsumeRecord ==
    LET record == [offset |-> bufFileOffset, index |-> recordIndex,
                   bytes  |-> SubSeq(readBuf, 1, NextLen)]
    IN  /\ pc = "framing" /\ Acceptable(NextLen)
        /\ batch' = Append(batch, record)
        /\ readBuf' = SubSeq(readBuf, NextLen + 1, Len(readBuf))
        /\ bufFileOffset' = bufFileOffset + NextLen
        /\ recordIndex' = recordIndex + 1
        /\ recordsSinceRewind' = recordsSinceRewind + 1
        /\ IF Len(batch') >= Capacity THEN Deliver(batch')
                                      ELSE UNCHANGED <<call, history>>
        /\ UNCHANGED <<config, file, pos, loopCount, exhausted, initialized,
                       followNext, locals, bounds>>

-----------------------------------------------------------------------------
(* fill_buf: a read returns at least one byte unless the file has ended.   *)
AtEof == pos = Len(file)

ReadSome(n) ==
    /\ pc = "fill"
    /\ readBuf' = readBuf \o SubSeq(file, pos + 1, pos + n)
    /\ pos' = pos + n
    /\ pc' = "framing"
    /\ UNCHANGED <<config, file, bufFileOffset, session, batch, locals,
                   result, bounds, history>>

FillBuf == \E n \in 1 .. ReadChunk : n <= Len(file) - pos /\ ReadSome(n)

(* The read fails between resize and truncate: the zeros that were made    *)
(* room for stay in the buffer.                                            *)
FillBufFails ==
    /\ pc = "fill" /\ ioErrors < MaxIoErrors
    /\ readBuf' = readBuf \o [i \in 1 .. ReadChunk |-> 0]
    /\ ioErrors' = ioErrors + 1 /\ damaged' = TRUE
    /\ Fail
    /\ UNCHANGED <<config, file, bufFileOffset, pos, session, batch, locals,
                   starts>>

-----------------------------------------------------------------------------
(* handle_eof.                                                             *)
(* Stop: trailing bytes are discarded, nothing more will come.             *)
EofStop ==
    /\ pc = "fill" /\ policy = "Stop" /\ AtEof
    /\ readBuf' = <<>> /\ exhausted' = TRUE
    /\ Deliver(batch)
    /\ UNCHANGED <<config, file, bufFileOffset, pos, progress, loopCount,
                   initialized, followNext, batch, locals, bounds>>

(* Mutant: Ok(true) instead of Ok(false).                                  *)
EofLoopTwiceContinues ==
    /\ pc = "fill" /\ policy = "Loop" /\ AtEof /\ rewound
    /\ pc' = "framing"
    /\ UNCHANGED <<config, file, buffer, session, batch, locals, result,
                   bounds, history>>

(* Loop, at the end for the second time in this poll.                      *)
EofLoopTwice ==
    /\ pc = "fill" /\ policy = "Loop" /\ AtEof /\ rewound
    /\ Deliver(batch)
    /\ UNCHANGED <<config, file, buffer, session, batch, locals, bounds>>

(* Loop, and the whole file gave no record.                                *)
EofLoopNoRecord ==
    /\ pc = "fill" /\ policy = "Loop" /\ AtEof /\ ~rewound
    /\ recordsSinceRewind = 0
    /\ Fail
    /\ UNCHANGED <<config, file, buffer, session, batch, locals, bounds>>

(* Mutant: the trailing bytes are put in front of the next pass.           *)
EofLoopRewindKeepsTail ==
    /\ pc = "fill" /\ policy = "Loop" /\ AtEof /\ ~rewound
    /\ recordsSinceRewind > 0
    /\ pos' = 0 /\ bufFileOffset' = 0
    /\ loopCount' = loopCount + 1 /\ recordsSinceRewind' = 0
    /\ rewound' = TRUE /\ pc' = "framing" /\ UNCHANGED startCount
    /\ UNCHANGED <<config, file, readBuf, recordIndex, exhausted,
                   initialized, followNext, batch, result, bounds, history>>

(* Mutant: the records of the last pass count for the next one.            *)
EofLoopRewindKeepsCount ==
    /\ pc = "fill" /\ policy = "Loop" /\ AtEof /\ ~rewound
    /\ recordsSinceRewind > 0
    /\ readBuf' = <<>> /\ pos' = 0 /\ bufFileOffset' = 0
    /\ loopCount' = loopCount + 1
    /\ rewound' = TRUE /\ pc' = "framing" /\ UNCHANGED startCount
    /\ UNCHANGED <<config, file, progress, exhausted, initialized,
                   followNext, batch, result, bounds, history>>

(* Loop: back to the start of the file, without the trailing bytes.        *)
EofLoopRewind ==
    /\ pc = "fill" /\ policy = "Loop" /\ AtEof /\ ~rewound
    /\ recordsSinceRewind > 0
    /\ readBuf' = <<>> /\ pos' = 0 /\ bufFileOffset' = 0
    /\ loopCount' = loopCount + 1 /\ recordsSinceRewind' = 0
    /\ rewound' = TRUE /\ pc' = "framing" /\ UNCHANGED startCount
    /\ UNCHANGED <<config, file, recordIndex, exhausted, initialized,
                   followNext, batch, result, bounds, history>>

(* Loop: the seek fails when the buffer has been cleared already.          *)
EofLoopSeekFails ==
    /\ pc = "fill" /\ policy = "Loop" /\ AtEof /\ ~rewound
    /\ recordsSinceRewind > 0 /\ ioErrors < MaxIoErrors
    /\ readBuf' = <<>> /\ ioErrors' = ioErrors + 1
    /\ Fail
    /\ UNCHANGED <<config, file, bufFileOffset, pos, session, batch, locals,
                   starts, damaged>>

(* Follow: the buffer is kept and the timer set.                           *)
EofFollow ==
    /\ pc = "fill" /\ policy = "Follow" /\ AtEof
    /\ followNext' = "pending"
    /\ Deliver(batch)
    /\ UNCHANGED <<config, file, buffer, progress, loopCount, exhausted,
                   initialized, batch, locals, bounds>>

-----------------------------------------------------------------------------
(* The surroundings: the clock, and whoever writes the file.  A file that  *)
(* is looped over is finished.                                             *)
IntervalElapses ==
    /\ followNext = "pending" /\ followNext' = "elapsed"
    /\ UNCHANGED <<config, file, buffer, progress, loopCount, exhausted,
                   initialized, batch, locals, call, bounds, history>>

FileGrows ==
    /\ policy # "Loop" /\ Len(file) < MaxFile
    /\ \E b \in Bytes : file' = Append(file, b)
    /\ UNCHANGED <<config, buffer, session, batch, locals, call, bounds,
                   history>>

Framed == NeedsData \/ RecordRejected \/ ConsumeRecord
Filled == FillBuf \/ FillBufFails
HandleEof ==
    \/ EofStop \/ EofLoopTwice \/ EofLoopNoRecord \/ EofLoopRewind
    \/ EofLoopSeekFails \/ EofFollow
PollBatch == PollRefused \/ PollNothing \/ PollBegin

Next ==
    \/ InitCall \/ InitFails \/ ShutdownCall
    \/ PollBatch \/ Framed \/ Filled \/ HandleEof
    \/ IntervalElapses \/ FileGrows

Spec == Init /\ [][Next]_vars

(* The poll runs to its end, the caller polls again, and time passes.      *)
FairSpec ==
    /\ Spec
    /\ WF_vars(Framed \/ Filled \/ HandleEof)
    /\ WF_vars(PollBatch)
    /\ WF_vars(IntervalElapses)

-----------------------------------------------------------------------------
(* What the framer says of all that follows an offset of the file, and is  *)
(* it a record that may come out?                                          *)
LenAt(contents, o) == NextRecordLen(framer, SubSeq(contents, o + 1, Len(contents)))

Complete(contents, o) ==
    /\ o < Len(contents)
    /\ LenAt(contents, o) \in 1 .. Len(contents) - o
    /\ LenAt(contents, o) <= MaxRecordSize

BytesAt(contents, o) == SubSeq(contents, o + 1, o + LenAt(contents, o))

(* The records of a file, found by framing all of it at once.              *)
RecordsOf(contents) ==
    LET from[o \in 0 .. Len(contents)] ==
          IF ~Complete(contents, o) THEN <<>>
          ELSE <<[offset |-> o, bytes |-> BytesAt(contents, o)]>>
               \o from[o + LenAt(contents, o)]
    IN  from[0]

(* The record that has to come out with an index: under Loop the records   *)
(* of the file again and again.                                            *)
Expected(i) ==
    LET records == RecordsOf(file)
        k == IF policy = "Loop" THEN i % Len(records) ELSE i
    IN  [offset |-> records[k + 1].offset, index |-> i,
         bytes  |-> records[k + 1].bytes]

Record == [offset : Nat, index : Nat, bytes : Seq(Bytes)]

(* The types of the source, its buffer and the batch, and their limits.    *)
TypeOK ==
    /\ framer \in Framers /\ policy \in Policies
    /\ file \in Seq(Bytes) /\ Len(file) <= MaxFile
    /\ pos \in 0 .. Len(file) /\ bufFileOffset \in 0 .. Len(file)
    /\ readBuf \in Seq(Bytes)
    /\ recordIndex \in Nat /\ recordsSinceRewind \in 0 .. recordIndex
    /\ loopCount \in 0 .. MaxLoops
    /\ exhausted \in BOOLEAN /\ initialized \in BOOLEAN
    /\ rewound \in BOOLEAN /\ damaged \in BOOLEAN
    /\ followNext \in {"none", "pending", "elapsed"}
    /\ batch \in Seq(Record) /\ delivered \in Seq(Record) /\ lost \subseteq Record
    /\ Len(batch) <= Capacity /\ startCount \in 0 .. Capacity
    /\ pc \in {"idle", "framing", "fill"} /\ result \in {"none", "ok", "err"}
    /\ starts \in 0 .. MaxStarts /\ ioErrors \in 0 .. MaxIoErrors

(* What the caller has got, with what is in the batch of the poll that is  *)
(* under way, and every record that has been made since init.              *)
Emitted ==
    IF pc = "idle" THEN delivered
                   ELSE delivered \o SubSeq(batch, startCount + 1, Len(batch))

Made == lost \cup {Emitted[i] : i \in DOMAIN Emitted}

(* A poll is under way only where it can go on, and it has asked the       *)
(* framer before it reads.                                                 *)
InPoll ==
    pc # "idle" =>
        /\ initialized /\ ~exhausted /\ ~damaged
        /\ startCount <= Len(batch) /\ Len(batch) < Capacity
        /\ ResetsBatch => startCount = 0
        /\ ~rewound => loopCount < MaxLoops
        /\ pc = "fill" => NextLen = NeedMore

(* The buffer is what has been read of the file and not yet consumed, or a *)
(* seek has failed after a whole pass and the buffer is empty.             *)
BufferIsWindow ==
    initialized /\ ~exhausted /\ ~damaged =>
        \/ bufFileOffset <= pos /\ readBuf = SubSeq(file, bufFileOffset + 1, pos)
        \/ /\ policy = "Loop" /\ recordsSinceRewind > 0
           /\ AtEof /\ readBuf = <<>> /\ ~Complete(file, bufFileOffset)

(* The offset is where the record ends, or Loop has begun again after the  *)
(* last record of the file.                                                *)
Follows(o, r) ==
    \/ o = r.offset + Len(r.bytes)
    \/ policy = "Loop" /\ o = 0 /\ ~Complete(file, r.offset + Len(r.bytes))

(* Every record is cut out of the file where the framer cuts the whole     *)
(* file, and begins where the one before it has ended, however the reads   *)
(* came; none begins again before the file is used up.                     *)
RecordsAreCut ==
    /\ \A r \in Made : Complete(file, r.offset) /\ r.bytes = BytesAt(file, r.offset)
    /\ \A r \in Made : r.index = 0 => r.offset = 0
    /\ \A r, s \in Made : s.index = r.index + 1 => Follows(s.offset, r)
    /\ \A r \in Made : recordIndex = r.index + 1 => Follows(bufFileOffset, r)
    /\ (bufFileOffset = 0) = (recordsSinceRewind = 0)

(* Every index up to the current one is that of one record, and no record  *)
(* came out twice, out of order, or although its poll had failed.          *)
EachIndexOnce ==
    /\ {r.index : r \in Made} = 0 .. recordIndex - 1
    /\ \A r, s \in Made : r.index = s.index => r = s
    /\ \A i, j \in DOMAIN Emitted : i < j => Emitted[i].index < Emitted[j].index
    /\ \A i \in DOMAIN Emitted : Emitted[i] \notin lost

(* The buffer is a window of the file, and the records that have come out  *)
(* of it since init are pieces of the file that join.                      *)
FileInv == TypeOK /\ InPoll /\ BufferIsWindow /\ RecordsAreCut /\ EachIndexOnce

(* Loop rewinds only after a whole pass: the passes before the current one *)
(* have given all records each.                                            *)
PassesAreComplete ==
    policy = "Loop" /\ initialized =>
        recordIndex = loopCount * Len(RecordsOf(file)) + recordsSinceRewind

(* How the reads cut the file into pieces cannot be seen from outside: the *)
(* records are those of the whole file, in order, each with its bytes, its *)
(* offset and its index, and the only ones missing are those of polls that *)
(* failed.  ("kept between polls so partial records are not discarded")    *)
RecordsAreThoseOfTheFile ==
    /\ recordIndex > 0 => RecordsOf(file) # <<>>
    /\ policy # "Loop" => recordIndex <= Len(RecordsOf(file))
    /\ {Emitted[i].index : i \in DOMAIN Emitted}
         = (0 .. recordIndex - 1) \ {r.index : r \in lost}
    /\ \A i, j \in DOMAIN Emitted : i < j => Emitted[i].index < Emitted[j].index
    /\ \A i \in DOMAIN Emitted : Emitted[i] = Expected(Emitted[i].index)
    /\ PassesAreComplete

(* The numbers of the records that are in the file and have not come out.  *)
(* Nothing is owed after an error, by a source that is shut down, or by    *)
(* one that has said that it is exhausted.                                 *)
Owed ==
    LET passes == IF policy = "Loop" THEN MaxLoops ELSE 1
    IN  IF ~initialized \/ exhausted \/ damaged \/ result = "err" THEN {}
        ELSE ((0 .. Len(RecordsOf(file)) * passes - 1)
                \ {r.index : r \in lost})
                \ {delivered[i].index : i \in DOMAIN delivered}

(* is_exhausted is first said when every complete record that is in the    *)
(* file at that moment has come out.                                       *)
ExhaustedAfterAll ==
    [][~exhausted /\ exhausted' => recordIndex = Len(RecordsOf(file))]_vars

(* Every record that is in the file comes out, also one that is completed  *)
(* while the source follows the file, unless a poll fails or the source is *)
(* shut down or started again before, or says that it is exhausted, which  *)
(* it does after all records.                                              *)
EveryRecordComesOut ==
    /\ \A i \in 0 .. MaxFile - 1 : (i \in Owed) ~> (i \notin Owed)
    /\ ExhaustedAfterAll

(* A poll returns, however the file and the policy are.                    *)
PollReturns == (pc # "idle") ~> (pc = "idle")
=============================================================================
