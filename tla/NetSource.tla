----------------------------- MODULE NetSource -----------------------------
(***************************************************************************)
(* SimulatedNetSource of crates/flyby-net/src/sim.rs with the RawBatch it  *)
(* fills (batch.rs), used the two ways the code has: through the adapter   *)
(* NetworkBatchSource of crates/flyby/src/pipeline.rs, which keeps one     *)
(* batch and takes all of its packets, and through the shim Source::poll,  *)
(* which has a batch of one slot for every call.                           *)
(*                                                                         *)
(* A packet is its number, the sequence number in its payload and the      *)
(* bytes that are left of it; a rate is in percent, and which polls and    *)
(* packets it hits is left open.  A poll is a step per packet.             *)
(***************************************************************************)
EXTENDS Integers, Sequences, FiniteSets

CONSTANTS
    Configs,           \* the SimNetConfigs that are tried
    BatchSizes,        \* arguments of set_batch_size
    Capacity,          \* slots of the adapter's batch
    MaxFrameSize,      \* bytes of a slot
    HeaderSize,        \* NET_HEADER, 42 in the code
    SequenceSize,      \* bytes of a sequence number, 8 in the code
    SequenceModulus,   \* sequence numbers wrap, at 2^64 in the code
    None,              \* a payload without room for a sequence number
    MaxStarts,         \* bound: calls of init
    MaxPolls           \* bound: polls that get past ensure_init

ASSUME NetAssumption ==
    /\ Configs \subseteq [batchSize : Nat, payloadSize : Nat,
                          idleRate : Int, dropRate : Int]
    /\ BatchSizes \subseteq Nat
    /\ {Capacity, MaxFrameSize, HeaderSize, SequenceModulus} \subseteq Nat \ {0}
    /\ {SequenceSize, MaxStarts, MaxPolls} \subseteq Nat
    /\ None \notin Nat

VARIABLES
    config, sequence, initialized,
    batches,       \* the batch of the adapter, and that of the shim
    metrics,       \* what the collector has been told
    pc,            \* "new" until try_new, "idle", "packets" inside poll_batch
    user,          \* who polls: "adapter" or "shim"
    left, droppedThis,   \* locals of poll_batch
    result,        \* what the last call returned
    starts, polls, \* calls of init, and polls
    packets,       \* history: packets made since the source exists
    firstOf,       \* history: number of the first packet since init
    madeFor,       \* history: packets made in polls of each user
    got            \* history: packets each user has got, with the user

source  == <<config, sequence, initialized>>
locals  == <<left, droppedThis>>
history == <<packets, firstOf, madeFor, got>>

vars == <<source, batches, metrics, pc, user, locals, result, starts, polls, history>>

Users == {"adapter", "shim"}

Lesser(a, b) == IF a < b THEN a ELSE b

-----------------------------------------------------------------------------
(* RawBatch::new, reset, push and record_drop.                             *)
NewBatch(capacity, size) ==
    [capacity |-> capacity, maxFrameSize |-> size, slots |-> <<>>,
     received |-> 0, dropped |-> 0, truncated |-> 0]

(* Mutant: the totals start again as well.                                 *)
ResetForgets(batch) == NewBatch(batch.capacity, batch.maxFrameSize)

Reset(batch) == [batch EXCEPT !.slots = <<>>]

Full(batch) == Len(batch.slots) >= batch.capacity

(* A frame that is larger than a slot is cut.                              *)
Push(batch, packet) ==
    LET size == Lesser(packet.size, batch.maxFrameSize)
    IN  [batch EXCEPT !.slots = Append(@, [packet EXCEPT !.size = size]),
                      !.received = @ + 1,
                      !.truncated = IF size < packet.size THEN @ + 1 ELSE @]

RecordDrop(batch) == [batch EXCEPT !.dropped = @ + 1]

-----------------------------------------------------------------------------
(* SimNetConfig::validate.                                                 *)
Validate(c) == c.batchSize > 0 /\ c.idleRate \in 0 .. 99 /\ c.dropRate \in 0 .. 99

(* rate_hit: a rate of zero never hits, another one may.                   *)
RateHit(rate) == IF rate <= 0 THEN {FALSE} ELSE BOOLEAN

FrameSize == HeaderSize + config.payloadSize

Init ==
    /\ config \in Configs
    /\ sequence = 0 /\ initialized = FALSE
    /\ batches = [u \in Users |-> IF u = "shim" THEN NewBatch(1, 1)
                                               ELSE NewBatch(Capacity, MaxFrameSize)]
    /\ metrics = [received |-> 0, dropped |-> 0]
    /\ pc = "new" /\ user = "adapter" /\ left = 0 /\ droppedThis = 0
    /\ result = "none" /\ starts = 0 /\ polls = 0
    /\ packets = 0 /\ firstOf = 0
    /\ madeFor = [u \in Users |-> 0] /\ got = <<>>

(* try_new, and the adapter around it.                                     *)
TryNew ==
    /\ pc = "new"
    /\ IF Validate(config) THEN pc' = "idle" /\ result' = "ok"
                           ELSE pc' = pc /\ result' = "err"
    /\ UNCHANGED <<source, batches, metrics, user, locals, starts, polls, history>>

(* Mutant: the sequence goes on where the last session has ended.          *)
InitCallKeepsSequence ==
    /\ pc = "idle" /\ starts < MaxStarts
    /\ IF Validate(config)
         THEN /\ initialized' = TRUE /\ result' = "ok"
              /\ firstOf' = packets /\ UNCHANGED sequence
         ELSE result' = "err" /\ UNCHANGED <<initialized, sequence, firstOf>>
    /\ starts' = starts + 1
    /\ UNCHANGED <<config, batches, metrics, pc, user, locals, polls, packets,
                   madeFor, got>>

(* Lifecycle::init and shutdown.                                           *)
InitCall ==
    /\ pc = "idle" /\ starts < MaxStarts
    /\ IF Validate(config)
         THEN initialized' = TRUE /\ sequence' = 0 /\ result' = "ok" /\ firstOf' = packets
         ELSE result' = "err" /\ UNCHANGED <<initialized, sequence, firstOf>>
    /\ starts' = starts + 1
    /\ UNCHANGED <<config, batches, metrics, pc, user, locals, polls, packets,
                   madeFor, got>>

ShutdownCall ==
    /\ pc = "idle" /\ initialized
    /\ initialized' = FALSE /\ result' = "ok"
    /\ UNCHANGED <<config, sequence, batches, metrics, pc, user, locals, starts,
                   polls, history>>

(* set_batch_size, through inner_mut of the adapter.                       *)
SetBatchSize ==
    /\ pc = "idle"
    /\ \E n \in BatchSizes :
         config' = [config EXCEPT !.batchSize = IF n = 0 THEN 1 ELSE n]
    /\ UNCHANGED <<sequence, initialized, batches, metrics, pc, user, locals,
                   result, starts, polls, history>>

-----------------------------------------------------------------------------
(* ensure_init.                                                            *)
PollRefused ==
    /\ pc = "idle" /\ ~initialized /\ result' = "err"
    /\ UNCHANGED <<source, batches, metrics, pc, user, locals, starts, polls, history>>

(* A poll begins: the shim makes a batch, both reset it, and the source    *)
(* may be idle.                                                            *)
PollBegins(u) ==
    /\ pc = "idle" /\ initialized /\ polls < MaxPolls
    /\ user' = u /\ polls' = polls + 1
    /\ batches' = [batches EXCEPT ![u] =
                     IF u = "shim" THEN NewBatch(1, FrameSize) ELSE Reset(@)]
    /\ \E idle \in RateHit(config.idleRate) :
         IF idle THEN UNCHANGED <<pc, left>> /\ result' = "ok"
                 ELSE pc' = "packets" /\ left' = config.batchSize /\ UNCHANGED result
    /\ droppedThis' = 0
    /\ UNCHANGED <<source, metrics, starts, history>>

(* The next sequence number is used up, whatever becomes of the packet.    *)
Advance ==
    /\ sequence' = (sequence + 1) % SequenceModulus
    /\ left' = left - 1
    /\ packets' = packets + 1
    /\ madeFor' = [madeFor EXCEPT ![user] = @ + 1]

(* Mutant: a packet for which there is no room is not accounted.           *)
PacketDroppedByRateOnly ==
    /\ pc = "packets" /\ left > 0
    /\ Full(batches[user]) \/ TRUE \in RateHit(config.dropRate)
    /\ IF Full(batches[user])
         THEN UNCHANGED <<batches, droppedThis>>
         ELSE /\ batches' = [batches EXCEPT ![user] = RecordDrop(@)]
              /\ droppedThis' = droppedThis + 1
    /\ Advance
    /\ UNCHANGED <<config, initialized, metrics, pc, user, result, starts, polls,
                   firstOf, got>>

(* drop_rate hits the packet, or the batch has no room for it.             *)
PacketDropped ==
    /\ pc = "packets" /\ left > 0
    /\ Full(batches[user]) \/ TRUE \in RateHit(config.dropRate)
    /\ batches' = [batches EXCEPT ![user] = RecordDrop(@)]
    /\ droppedThis' = droppedThis + 1
    /\ Advance
    /\ UNCHANGED <<config, initialized, metrics, pc, user, result, starts, polls,
                   firstOf, got>>

(* write_sequence: a payload that is too short has no sequence number.     *)
WrittenSequence == IF config.payloadSize >= SequenceSize THEN sequence ELSE None

PacketPushed ==
    /\ pc = "packets" /\ left > 0 /\ ~Full(batches[user])
    /\ batches' = [batches EXCEPT ![user] =
                     Push(@, [number |-> packets, seq |-> WrittenSequence,
                              size |-> FrameSize])]
    /\ Advance
    /\ UNCHANGED <<config, initialized, metrics, pc, user, droppedThis, result,
                   starts, polls, firstOf, got>>

(* The poll returns batch.len(): the adapter takes every packet of its     *)
(* batch, the shim the first one.                                          *)
Taken == [k \in DOMAIN batches[user].slots |->
            [packet |-> batches[user].slots[k], user |-> user]]

PollReturns ==
    /\ pc = "packets" /\ left = 0
    /\ metrics' = [received |-> metrics.received + Len(batches[user].slots),
                   dropped  |-> metrics.dropped + droppedThis]
    /\ got' = got \o Taken
    /\ pc' = "idle" /\ result' = "ok" /\ droppedThis' = 0
    /\ UNCHANGED <<source, batches, user, left, starts, polls, packets, firstOf,
                   madeFor>>

Next ==
    \/ TryNew \/ InitCall \/ ShutdownCall \/ SetBatchSize
    \/ PollRefused \/ PollBegins("adapter") \/ PollBegins("shim")
    \/ PacketDropped \/ PacketPushed \/ PollReturns

Spec == Init /\ [][Next]_vars

-----------------------------------------------------------------------------
Packet == [number : Nat, seq : Nat \cup {None}, size : Nat]

Batch == [capacity : Nat, maxFrameSize : Nat, slots : Seq(Packet),
          received : Nat, dropped : Nat, truncated : Nat]

(* The types of the source, its batches and the locals of poll_batch; no   *)
(* batch holds more than its capacity.                                     *)
TypeOK ==
    /\ config \in [batchSize : Nat, payloadSize : Nat, idleRate : Int, dropRate : Int]
    /\ sequence \in 0 .. SequenceModulus - 1 /\ initialized \in BOOLEAN
    /\ batches \in [Users -> Batch]
    /\ \A u \in Users : Len(batches[u].slots) <= batches[u].capacity
    /\ metrics \in [received : Nat, dropped : Nat]
    /\ pc \in {"new", "idle", "packets"} /\ user \in Users
    /\ left \in Nat /\ droppedThis \in Nat /\ packets \in Nat /\ firstOf \in 0 .. packets
    /\ madeFor \in [Users -> Nat]
    /\ got \in Seq([packet : Packet, user : Users])
    /\ result \in {"none", "ok", "err"}
    /\ starts \in 0 .. MaxStarts /\ polls \in 0 .. MaxPolls

(* The numbers of the packets the users have got, with those in the batch  *)
(* of the poll that is under way.                                          *)
Handed ==
    LET all == IF pc = "packets" THEN got \o Taken ELSE got
    IN  [k \in DOMAIN all |-> all[k].packet.number]

Ledger == INSTANCE PacketLedger WITH
    made <- packets, taken <- Handed, refused <- metrics.dropped + droppedThis

(* Over all sessions and both users: every packet the source makes is      *)
(* handed over once and in order, or is among the drops of the collector   *)
(* ("FlyBy never silently drops", crates/flyby-net/src/source.rs), also    *)
(* those the shim has no room for.                                         *)
ImplementsLedger == Ledger!Spec

(* What the adapter has got, and what of it was cut.                       *)
Mine == {k \in DOMAIN got : got[k].user = "adapter"}
MineCut == {k \in DOMAIN got : got[k].user = "adapter" /\ got[k].packet.size < FrameSize}

(* What the poll under way has for the adapter, and what of it was cut.    *)
Coming == IF pc = "packets" /\ user = "adapter" THEN DOMAIN batches["adapter"].slots ELSE {}
ComingCut == {k \in Coming : batches["adapter"].slots[k].size < FrameSize}

(* The totals of the adapter's batch survive every reset, idle poll and    *)
(* restart, and tell received, dropped and truncated packets apart.        *)
BatchTotals ==
    LET batch == batches["adapter"]
    IN  /\ batch.received + batch.dropped = madeFor["adapter"]
        /\ batch.received = Cardinality(Mine) + Cardinality(Coming)
        /\ batch.truncated = Cardinality(MineCut) + Cardinality(ComingCut)

(* The drops of a poll are its own until it hands them to the collector.   *)
DropsReported == pc # "packets" => droppedThis = 0

(* The packet was made, and if that was since the source was started, the  *)
(* number in its payload is its place in the session.                      *)
Numbered(p) ==
    /\ p.number < packets
    /\ p.number >= firstOf /\ config.payloadSize >= SequenceSize =>
         p.seq = (p.number - firstOf) % SequenceModulus

(* The source is at the place of the next packet, and every packet has the *)
(* number of its own.                                                      *)
SequenceFollows ==
    /\ sequence = (packets - firstOf) % SequenceModulus
    /\ \A k \in DOMAIN got : Numbered(got[k].packet)
    /\ pc = "packets" =>
         \A k \in DOMAIN batches[user].slots : Numbered(batches[user].slots[k])

(* The inductive invariant: the batches and their totals, in the middle of *)
(* a poll as well.                                                         *)
NetInv == TypeOK /\ BatchTotals /\ DropsReported /\ SequenceFollows

(* A reader of the sequence numbers can tell how many packets it has       *)
(* missed since the source was started: the number in a payload is the     *)
(* packet's place in the session, also after the numbers have wrapped.     *)
SequencesShowGaps ==
    \A k \in DOMAIN got : LET p == got[k].packet IN
        p.number >= firstOf /\ config.payloadSize >= SequenceSize =>
            p.seq = (p.number - firstOf) % SequenceModulus
=============================================================================
