-------------------------- MODULE NetSourceProofs --------------------------
(***************************************************************************)
(* The simulated network source is correct for every configuration, batch  *)
(* capacity and word size of the sequence numbers.                         *)
(*                                                                         *)
(* NetInv is shown to be inductive one conjunct after the other; that the  *)
(* source implements PacketLedger follows from it step by step, with the   *)
(* packets of the poll under way counted as handed over.                   *)
(***************************************************************************)
EXTENDS NetSource, ModularArithmetic, SequenceTheorems, FiniteSetTheorems

Config == [batchSize : Nat, payloadSize : Nat, idleRate : Int, dropRate : Int]
Delivery == [packet : Packet, user : Users]

-----------------------------------------------------------------------------
(* The operations of RawBatch                                              *)

(* A new batch is empty.                                                   *)
LEMMA NewBatchFields ==
    ASSUME NEW c \in Nat, NEW z \in Nat
    PROVE  /\ NewBatch(c, z) \in Batch
           /\ NewBatch(c, z).slots = <<>> /\ NewBatch(c, z).capacity = c
           /\ NewBatch(c, z).received = 0 /\ NewBatch(c, z).dropped = 0
           /\ NewBatch(c, z).truncated = 0
  <1>1. <<>> \in Seq(Packet)
    BY EmptySeq
  <1> QED BY <1>1 DEF NewBatch, Batch

(* reset keeps everything but the packets.                                 *)
LEMMA ResetFields ==
    ASSUME NEW b \in Batch
    PROVE  /\ Reset(b) \in Batch
           /\ Reset(b).slots = <<>> /\ Reset(b).capacity = b.capacity
           /\ Reset(b).received = b.received /\ Reset(b).dropped = b.dropped
           /\ Reset(b).truncated = b.truncated
  <1>1. <<>> \in Seq(Packet)
    BY EmptySeq
  <1> QED BY <1>1 DEF Reset, Batch

(* record_drop only counts.                                                *)
LEMMA RecordDropFields ==
    ASSUME NEW b \in Batch
    PROVE  /\ RecordDrop(b) \in Batch
           /\ RecordDrop(b).slots = b.slots /\ RecordDrop(b).capacity = b.capacity
           /\ RecordDrop(b).received = b.received /\ RecordDrop(b).dropped = b.dropped + 1
           /\ RecordDrop(b).truncated = b.truncated
  BY DEF RecordDrop, Batch

(* The packet as push leaves it in its slot.                               *)
Stored(b, p) == [p EXCEPT !.size = Lesser(p.size, b.maxFrameSize)]

(* push adds a packet, at most as long as a slot, and counts it.           *)
LEMMA PushFields ==
    ASSUME NEW b \in Batch, NEW p \in Packet
    PROVE  /\ Push(b, p) \in Batch
           /\ Stored(b, p) \in Packet
           /\ Stored(b, p).number = p.number /\ Stored(b, p).seq = p.seq
           /\ Push(b, p).slots = Append(b.slots, Stored(b, p))
           /\ Push(b, p).capacity = b.capacity
           /\ Push(b, p).received = b.received + 1 /\ Push(b, p).dropped = b.dropped
           /\ Push(b, p).truncated = IF Stored(b, p).size < p.size THEN b.truncated + 1
                                                                   ELSE b.truncated
  <1>1. Lesser(p.size, b.maxFrameSize) \in Nat
    BY DEF Lesser, Packet, Batch
  <1>2. /\ Stored(b, p) \in Packet
        /\ Stored(b, p).size = Lesser(p.size, b.maxFrameSize)
        /\ Stored(b, p).number = p.number /\ Stored(b, p).seq = p.seq
    BY <1>1 DEF Stored, Packet
  <1>3. b.slots \in Seq(Packet)
    BY DEF Batch
  <1>4. Append(b.slots, Stored(b, p)) \in Seq(Packet)
    BY <1>2, <1>3, AppendProperties
  <1> DEFINE cells == Append(b.slots, Stored(b, p))
             cut   == IF Stored(b, p).size < p.size THEN b.truncated + 1 ELSE b.truncated
  <1>5. Push(b, p) = [b EXCEPT !.slots = cells, !.received = b.received + 1,
                               !.truncated = cut]
    BY <1>2 DEF Push, Stored
  <1>6. cut \in Nat /\ b.received + 1 \in Nat
    BY DEF Batch
  <1> HIDE DEF cells, cut
  <1>7. cells \in Seq(Packet)
    BY <1>4 DEF cells
  <1>8. /\ Push(b, p) \in Batch
        /\ Push(b, p).slots = cells /\ Push(b, p).capacity = b.capacity
        /\ Push(b, p).received = b.received + 1 /\ Push(b, p).dropped = b.dropped
        /\ Push(b, p).truncated = cut
    BY <1>5, <1>6, <1>7 DEF Batch
  <1> QED BY <1>2, <1>8 DEF cells, cut

-----------------------------------------------------------------------------
(* Sets of places in a sequence                                            *)

(* A set of places in a sequence and one in the sequence put behind it.    *)
LEMMA CardinalityOfConcat ==
    ASSUME NEW n \in Nat, NEW m \in Nat,
           NEW A \in SUBSET (1 .. n), NEW B \in SUBSET (1 .. m),
           NEW D \in SUBSET (1 .. n + m),
           \A k \in 1 .. n + m : k \in D <=> k \in A \/ k - n \in B
    PROVE  Cardinality(D) = Cardinality(A) + Cardinality(B)
  <1> DEFINE C == {n + k : k \in B}
             f == [k \in B |-> n + k]
  <1>1. IsFiniteSet(A) /\ IsFiniteSet(B)
    <2>1. IsFiniteSet(1 .. n) /\ IsFiniteSet(1 .. m)
      BY FS_Interval
    <2> QED BY <2>1, FS_Subset
  <1>2. f \in Bijection(B, C)
    <2>1. \A k \in B : n + k \in C
      OBVIOUS
    <2>2. \A j, k \in B : n + j = n + k => j = k
      OBVIOUS
    <2>3. \A c \in C : \E k \in B : n + k = c
      OBVIOUS
    <2> HIDE DEF C
    <2>4. f \in [B -> C]
      BY <2>1
    <2>5. \A c \in C : \E k \in B : f[k] = c
      BY <2>3
    <2>6. \A j, k \in B : f[j] = f[k] => j = k
      BY <2>2
    <2> QED BY <2>4, <2>5, <2>6, Zenon DEF Bijection, Injection, Surjection, IsInjective
  <1>3. IsFiniteSet(C) /\ Cardinality(C) = Cardinality(B)
    BY <1>1, <1>2, FS_Bijection DEF ExistsBijection
  <1>4. A \cap C = {}
    OBVIOUS
  <1>5. Cardinality(A \cap C) = 0
    BY <1>4, FS_EmptySet
  <1>6. Cardinality(A) \in Nat /\ Cardinality(B) \in Nat
    BY <1>1, FS_CardinalityType
  <1>7. Cardinality(A \cup C) = Cardinality(A) + Cardinality(C) - Cardinality(A \cap C)
    BY <1>1, <1>3, FS_Union
  <1>8. D = A \cup C
    <2>1. ASSUME NEW k \in D PROVE k \in A \cup C
      <3>1. CASE k \in A
        BY <3>1
      <3>2. CASE k - n \in B
        <4>1. k = n + (k - n)
          BY <2>1
        <4> QED BY <3>2, <4>1
      <3> QED BY <2>1, <3>1, <3>2
    <2>2. ASSUME NEW k \in A PROVE k \in D
      BY <2>2
    <2>3. ASSUME NEW j \in B PROVE n + j \in D
      <3>1. n + j \in 1 .. n + m /\ (n + j) - n = j
        OBVIOUS
      <3> QED BY <3>1
    <2> QED BY <2>1, <2>2, <2>3
  <1> QED BY <1>3, <1>5, <1>6, <1>7, <1>8

(* The places of a sequence.                                               *)
LEMMA PlacesOfSeq ==
    ASSUME NEW S, NEW s \in Seq(S)
    PROVE  /\ DOMAIN s = 1 .. Len(s) /\ Len(s) \in Nat
           /\ IsFiniteSet(DOMAIN s) /\ Cardinality(DOMAIN s) = Len(s)
  <1>1. DOMAIN s = 1 .. Len(s) /\ Len(s) \in Nat
    BY LenProperties
  <1>2. IsFiniteSet(1 .. Len(s)) /\ Cardinality(1 .. Len(s)) = Len(s)
    BY <1>1, FS_Interval
  <1> QED BY <1>1, <1>2

-----------------------------------------------------------------------------
(* The types                                                               *)

(* The constants are what NetAssumption says.                              *)
LEMMA Constants ==
    /\ Configs \subseteq Config /\ BatchSizes \subseteq Nat
    /\ Capacity \in Nat \ {0} /\ MaxFrameSize \in Nat /\ HeaderSize \in Nat
    /\ SequenceModulus \in Nat \ {0} /\ MaxStarts \in Nat /\ MaxPolls \in Nat
    /\ SequenceSize \in Nat
  BY NetAssumption DEF Config

(* The next packet is one, whether or not it has a sequence number.        *)
NextPacket == [number |-> packets, seq |-> WrittenSequence, size |-> FrameSize]

(* The packet that is made next has its type.                              *)
LEMMA NextPacketType ==
    TypeOK => FrameSize \in Nat /\ NextPacket \in Packet
  BY Constants DEF TypeOK, FrameSize, NextPacket, WrittenSequence, Packet

(* What a user takes out of a batch.                                       *)
TakenFrom(slots, u) == [k \in DOMAIN slots |-> [packet |-> slots[k], user |-> u]]

(* What a user takes from a batch is its packets, in order, under its      *)
(* name.                                                                   *)
LEMMA TakenFields ==
    ASSUME NEW slots \in Seq(Packet), NEW u \in Users
    PROVE  /\ TakenFrom(slots, u) \in Seq(Delivery)
           /\ Len(TakenFrom(slots, u)) = Len(slots) /\ Len(slots) \in Nat
           /\ DOMAIN TakenFrom(slots, u) = 1 .. Len(slots) /\ DOMAIN slots = 1 .. Len(slots)
           /\ \A k \in 1 .. Len(slots) : /\ TakenFrom(slots, u)[k].packet = slots[k]
                                         /\ TakenFrom(slots, u)[k].user = u
  <1>1. DOMAIN slots = 1 .. Len(slots) /\ Len(slots) \in Nat
    BY LenProperties
  <1>2. \A k \in 1 .. Len(slots) : slots[k] \in Packet
    BY ElementOfSeq
  <1>3. TakenFrom(slots, u) = [k \in 1 .. Len(slots) |-> [packet |-> slots[k], user |-> u]]
    BY <1>1 DEF TakenFrom
  <1>4. \A k \in 1 .. Len(slots) : [packet |-> slots[k], user |-> u] \in Delivery
    BY <1>2 DEF Delivery
  <1>5. TakenFrom(slots, u) \in Seq(Delivery) /\ Len(TakenFrom(slots, u)) = Len(slots)
    BY <1>1, <1>3, <1>4
  <1> QED BY <1>1, <1>3, <1>5

(* The same for the batch of the current user.                             *)
LEMMA TakenType ==
    ASSUME TypeOK
    PROVE  /\ Taken \in Seq(Delivery) /\ Len(Taken) = Len(batches[user].slots)
           /\ batches[user].slots \in Seq(Packet) /\ Len(Taken) \in Nat
           /\ DOMAIN batches[user].slots = 1 .. Len(Taken) /\ DOMAIN Taken = 1 .. Len(Taken)
           /\ \A k \in 1 .. Len(Taken) :
                 Taken[k].packet = batches[user].slots[k] /\ Taken[k].user = user
  <1>1. batches[user].slots \in Seq(Packet) /\ user \in Users
    BY DEF TypeOK, Batch
  <1>2. Taken = TakenFrom(batches[user].slots, user)
    BY DEF Taken, TakenFrom
  <1> QED BY <1>1, <1>2, TakenFields

(* Every configuration and every slot is typed from the start.             *)
LEMMA TypesInit == Init => TypeOK
  <1> SUFFICES ASSUME Init PROVE TypeOK
    OBVIOUS
  <1>1. config \in Config /\ 0 \in 0 .. SequenceModulus - 1
        /\ 0 \in 0 .. MaxStarts /\ 0 \in 0 .. MaxPolls /\ 0 \in 0 .. 0
    BY Constants DEF Init
  <1>2. batches \in [Users -> Batch]
    BY Constants, NewBatchFields DEF Init
  <1>3. \A u \in Users : Len(batches[u].slots) <= batches[u].capacity
    <2>1. \A u \in Users : batches[u].slots = <<>> /\ batches[u].capacity \in Nat
      BY Constants, NewBatchFields DEF Init
    <2> QED BY <2>1
  <1>4. <<>> \in Seq(Delivery)
    BY EmptySeq
  <1>5. metrics \in [received : Nat, dropped : Nat] /\ madeFor \in [Users -> Nat]
    BY DEF Init
  <1> QED BY <1>1, <1>2, <1>3, <1>4, <1>5 DEF Init, TypeOK, Config, Delivery, Users

(* Whatever a step does to the batch of one user, it stays a batch that    *)
(* holds no more than its capacity.                                        *)
LEMMA BatchesType ==
    ASSUME TypeOK, NEW u \in Users, NEW b \in Batch, Len(b.slots) <= b.capacity,
           batches' = [batches EXCEPT ![u] = b]
    PROVE  /\ batches' \in [Users -> Batch]
           /\ \A v \in Users : Len(batches'[v].slots) <= batches'[v].capacity
           /\ batches'[u] = b /\ \A v \in Users : v # u => batches'[v] = batches[v]
  BY DEF TypeOK

(* A step of a poll that is under way, by what it does to the batch.       *)
LEMMA PacketSteps ==
    ASSUME TypeOK
    PROVE  /\ PacketDropped =>
                /\ batches' = [batches EXCEPT ![user] = RecordDrop(batches[user])]
                /\ RecordDrop(batches[user]) \in Batch
                /\ Len(RecordDrop(batches[user]).slots) <= RecordDrop(batches[user]).capacity
           /\ PacketPushed =>
                /\ batches' = [batches EXCEPT ![user] = Push(batches[user], NextPacket)]
                /\ Push(batches[user], NextPacket) \in Batch
                /\ Len(Push(batches[user], NextPacket).slots)
                     <= Push(batches[user], NextPacket).capacity
  <1> DEFINE b == batches[user]
  <1>1. b \in Batch /\ b.slots \in Seq(Packet) /\ Len(b.slots) \in Nat /\ b.capacity \in Nat
        /\ Len(b.slots) <= b.capacity
    BY LenProperties DEF TypeOK, Batch
  <1>2. NextPacket \in Packet
    BY NextPacketType
  <1>3. ASSUME PacketDropped
        PROVE  batches' = [batches EXCEPT ![user] = RecordDrop(b)]
    BY <1>3 DEF PacketDropped
  <1>4. ASSUME PacketPushed
        PROVE  batches' = [batches EXCEPT ![user] = Push(b, NextPacket)]
               /\ ~(Len(b.slots) >= b.capacity)
    BY <1>4 DEF PacketPushed, NextPacket, Full
  <1> HIDE DEF b
  <1>5. RecordDrop(b) \in Batch /\ Len(RecordDrop(b).slots) <= RecordDrop(b).capacity
    BY <1>1, RecordDropFields
  <1>6. Stored(b, NextPacket) \in Packet /\ Push(b, NextPacket) \in Batch
        /\ Push(b, NextPacket).slots = Append(b.slots, Stored(b, NextPacket))
        /\ Push(b, NextPacket).capacity = b.capacity
    BY <1>1, <1>2, PushFields
  <1>7. Len(Push(b, NextPacket).slots) = Len(b.slots) + 1
    BY <1>1, <1>6, AppendProperties
  <1>8. PacketPushed => Len(Push(b, NextPacket).slots) <= Push(b, NextPacket).capacity
    BY <1>1, <1>4, <1>6, <1>7
  <1> QED BY <1>3, <1>4, <1>5, <1>6, <1>8 DEF b

(* Besides the batch, both advance the source and leave the rest alone.    *)
LEMMA PacketEffects ==
    ASSUME PacketDropped \/ PacketPushed
    PROVE  /\ Advance
           /\ UNCHANGED <<config, initialized, metrics, pc, user, result, starts, polls,
                          firstOf, got>>
           /\ pc = "packets" /\ left > 0
           /\ droppedThis' = IF PacketDropped THEN droppedThis + 1 ELSE droppedThis
  <1>1. CASE PacketDropped
    BY <1>1, Zenon DEF PacketDropped
  <1>2. CASE ~PacketDropped /\ PacketPushed
    BY <1>2, Zenon DEF PacketPushed
  <1> QED BY <1>1, <1>2

(* The batch a poll begins with: the adapter's own, emptied, or a new one. *)
FreshBatch(u) == IF u = "shim" THEN NewBatch(1, FrameSize) ELSE Reset(batches[u])

(* poll_batch begins with an empty batch.                                  *)
LEMMA FreshBatches ==
    ASSUME TypeOK, NEW u \in Users, PollBegins(u)
    PROVE  /\ batches' = [batches EXCEPT ![u] = FreshBatch(u)]
           /\ FreshBatch(u) \in Batch /\ FreshBatch(u).slots = <<>>
           /\ Len(FreshBatch(u).slots) <= FreshBatch(u).capacity
  <1>1. batches[u] \in Batch /\ FrameSize \in Nat
    BY NextPacketType DEF TypeOK
  <1>2. FreshBatch(u) \in Batch /\ FreshBatch(u).slots = <<>>
    BY <1>1, NewBatchFields, ResetFields DEF FreshBatch
  <1>3. FreshBatch(u).capacity \in Nat
    BY <1>2 DEF Batch
  <1>4. batches' = [batches EXCEPT ![u] = FreshBatch(u)]
    BY DEF PollBegins, FreshBatch
  <1> QED BY <1>2, <1>3, <1>4

(* Every step keeps the types.                                             *)
LEMMA TypesStep == TypeOK /\ [Next]_vars => TypeOK'
  <1> SUFFICES ASSUME TypeOK, [Next]_vars PROVE TypeOK'
    OBVIOUS
  <1>0. 0 \in 0 .. SequenceModulus - 1 /\ MaxStarts \in Nat /\ MaxPolls \in Nat
    BY Constants
  <1>1. CASE TryNew
    BY <1>1 DEF TryNew, TypeOK, source, locals, history
  <1>2. CASE InitCall
    <2>1. starts' \in 0 .. MaxStarts
      BY <1>0, <1>2 DEF InitCall, TypeOK
    <2>2. sequence' \in 0 .. SequenceModulus - 1 /\ firstOf' \in 0 .. packets'
      BY <1>0, <1>2 DEF InitCall, TypeOK
    <2>3. initialized' \in BOOLEAN /\ result' \in {"none", "ok", "err"}
      BY <1>2 DEF InitCall, TypeOK
    <2> QED BY <1>2, <2>1, <2>2, <2>3 DEF InitCall, TypeOK, locals
  <1>3. CASE ShutdownCall
    BY <1>3 DEF ShutdownCall, TypeOK, locals, history
  <1>4. CASE SetBatchSize
    <2>1. PICK n \in BatchSizes : config' = [config EXCEPT !.batchSize = IF n = 0 THEN 1 ELSE n]
      BY <1>4 DEF SetBatchSize
    <2>2. (IF n = 0 THEN 1 ELSE n) \in Nat
      BY Constants
    <2>3. config' \in Config
      BY <2>1, <2>2 DEF TypeOK, Config
    <2> QED BY <1>4, <2>3 DEF SetBatchSize, TypeOK, locals, history, Config
  <1>5. CASE PollRefused
    BY <1>5 DEF PollRefused, TypeOK, source, locals, history
  <1>6. ASSUME NEW u \in Users, PollBegins(u)
        PROVE  TypeOK'
    <2>1. batches' \in [Users -> Batch]
          /\ \A v \in Users : Len(batches'[v].slots) <= batches'[v].capacity
      BY <1>6, FreshBatches, BatchesType
    <2>2. polls' \in 0 .. MaxPolls /\ left' \in Nat /\ pc' \in {"new", "idle", "packets"}
          /\ result' \in {"none", "ok", "err"}
      BY <1>0, <1>6 DEF PollBegins, TypeOK
    <2> QED BY <1>6, <2>1, <2>2 DEF PollBegins, TypeOK, source, history
  <1>7. CASE PacketDropped \/ PacketPushed
    <2>1. batches' \in [Users -> Batch]
          /\ \A v \in Users : Len(batches'[v].slots) <= batches'[v].capacity
      BY <1>7, PacketSteps, BatchesType DEF TypeOK
    <2>2. Advance
          /\ UNCHANGED <<config, initialized, metrics, pc, user, result, starts, polls,
                         firstOf, got>>
          /\ left > 0
      BY <1>7, PacketEffects
    <2>5. droppedThis' \in Nat
      <3>1. droppedThis' = droppedThis + 1 \/ droppedThis' = droppedThis
        BY <1>7, PacketEffects
      <3> QED BY <3>1 DEF TypeOK
    <2>3. sequence' \in 0 .. SequenceModulus - 1
      <3>1. sequence + 1 \in Nat
        BY Constants DEF TypeOK
      <3> QED BY <2>2, <3>1, Constants, DivMod DEF Advance
    <2>4. left' \in Nat /\ packets' \in Nat /\ firstOf' \in 0 .. packets'
          /\ madeFor' \in [Users -> Nat]
      BY <2>2 DEF Advance, TypeOK
    <2> QED BY <2>1, <2>2, <2>3, <2>4, <2>5 DEF TypeOK
  <1>8. CASE PollReturns
    <2>1. got' \in Seq(Delivery)
      BY <1>8, TakenType, ConcatProperties DEF PollReturns, TypeOK, Delivery
    <2>2. Len(batches[user].slots) \in Nat
      BY TakenType, LenProperties
    <2>3. metrics' \in [received : Nat, dropped : Nat]
      <3> DEFINE n == Len(batches[user].slots)
      <3>1. metrics' = [received |-> metrics.received + n, dropped |-> metrics.dropped + droppedThis]
        BY <1>8 DEF PollReturns
      <3>2. metrics.received \in Nat /\ metrics.dropped \in Nat /\ droppedThis \in Nat
        BY DEF TypeOK
      <3> HIDE DEF n
      <3>3. n \in Nat
        BY <2>2 DEF n
      <3> QED BY <3>1, <3>2, <3>3
    <2> QED BY <1>8, <2>1, <2>3 DEF PollReturns, TypeOK, source, Delivery
  <1>9. CASE UNCHANGED vars
    BY <1>9 DEF vars, TypeOK, source, locals, history
  <1> QED BY <1>1, <1>2, <1>3, <1>4, <1>5, <1>6, <1>7, <1>8, <1>9 DEF Next, Users

-----------------------------------------------------------------------------
(* The totals of the adapter's batch                                       *)

(* The calls between polls: no packet is made, and no batch is touched.    *)
Quiet == TryNew \/ InitCall \/ ShutdownCall \/ SetBatchSize \/ PollRefused \/ UNCHANGED vars

(* The calls that touch no batch leave the packets and the books alone.    *)
LEMMA QuietEffects ==
    ASSUME TypeOK, Quiet
    PROVE  /\ UNCHANGED <<batches, metrics, user, left, droppedThis, packets, madeFor, got>>
           /\ pc' = "packets" <=> pc = "packets"
           /\ config'.payloadSize = config.payloadSize /\ FrameSize' = FrameSize
           /\ ~InitCall => sequence' = sequence /\ firstOf' = firstOf
           /\ InitCall => pc # "packets" /\ pc' = pc
                          /\ \/ sequence' = sequence /\ firstOf' = firstOf
                             \/ sequence' = 0 /\ firstOf' = packets
  <1>1. CASE TryNew
    BY <1>1 DEF TryNew, source, locals, history, FrameSize, InitCall
  <1>2. CASE InitCall
    BY <1>2 DEF InitCall, locals, FrameSize
  <1>3. CASE ShutdownCall
    BY <1>3 DEF ShutdownCall, locals, history, FrameSize, InitCall
  <1>4. CASE SetBatchSize
    <2>1. config'.payloadSize = config.payloadSize
      BY <1>4 DEF SetBatchSize, TypeOK
    <2> QED BY <1>4, <2>1 DEF SetBatchSize, locals, history, FrameSize, InitCall
  <1>5. CASE PollRefused
    BY <1>5 DEF PollRefused, source, locals, history, FrameSize, InitCall
  <1>6. CASE UNCHANGED vars
    BY <1>6 DEF vars, source, locals, history, FrameSize, InitCall
  <1> QED BY <1>1, <1>2, <1>3, <1>4, <1>5, <1>6 DEF Quiet

(* Nothing has been counted before the first poll.                         *)
LEMMA TotalsInit == Init => BatchTotals /\ DropsReported /\ SequenceFollows
  <1> SUFFICES ASSUME Init PROVE BatchTotals /\ DropsReported /\ SequenceFollows
    OBVIOUS
  <1>1. DOMAIN got = {}
    BY DEF Init
  <1>2. Mine = {} /\ MineCut = {} /\ Coming = {} /\ ComingCut = {}
    BY <1>1 DEF Mine, MineCut, Coming, ComingCut, Init
  <1>3. /\ batches["adapter"].received = 0 /\ batches["adapter"].dropped = 0
        /\ batches["adapter"].truncated = 0 /\ madeFor["adapter"] = 0
    BY Constants, NewBatchFields DEF Init, Users
  <1>4. BatchTotals
    BY <1>2, <1>3, FS_EmptySet DEF BatchTotals
  <1>5. DropsReported
    BY DEF Init, DropsReported
  <1>6. SequenceFollows
    <2>1. 0 % SequenceModulus = 0
      BY Constants, ModUnique
    <2> QED BY <1>1, <2>1 DEF Init, SequenceFollows
  <1> QED BY <1>4, <1>5, <1>6

(* The sets that BatchTotals counts are finite.                            *)
LEMMA CountsAreNumbers ==
    ASSUME TypeOK
    PROVE  /\ got \in Seq(Delivery) /\ DOMAIN got = 1 .. Len(got) /\ Len(got) \in Nat
           /\ batches["adapter"] \in Batch /\ batches["adapter"].slots \in Seq(Packet)
           /\ DOMAIN batches["adapter"].slots = 1 .. Len(batches["adapter"].slots)
           /\ Len(batches["adapter"].slots) \in Nat
           /\ Mine \subseteq 1 .. Len(got) /\ MineCut \subseteq 1 .. Len(got)
           /\ IsFiniteSet(Coming) /\ IsFiniteSet(ComingCut)
           /\ Coming \subseteq 1 .. Len(batches["adapter"].slots)
           /\ ComingCut \subseteq 1 .. Len(batches["adapter"].slots)
           /\ Cardinality(Mine) \in Nat /\ Cardinality(MineCut) \in Nat
           /\ Cardinality(Coming) \in Nat /\ Cardinality(ComingCut) \in Nat
  <1> DEFINE slots == batches["adapter"].slots
  <1>1. got \in Seq(Delivery) /\ DOMAIN got = 1 .. Len(got) /\ Len(got) \in Nat
    BY LenProperties DEF TypeOK, Delivery
  <1>2. batches["adapter"] \in Batch
    BY DEF TypeOK, Users
  <1>3. slots \in Seq(Packet)
    BY <1>2 DEF Batch
  <1>4. DOMAIN slots = 1 .. Len(slots) /\ Len(slots) \in Nat
    BY <1>3, LenProperties
  <1>5. Mine \subseteq 1 .. Len(got) /\ MineCut \subseteq 1 .. Len(got)
    BY <1>1 DEF Mine, MineCut
  <1>6. Coming \subseteq 1 .. Len(slots) /\ ComingCut \subseteq 1 .. Len(slots)
    BY <1>4 DEF Coming, ComingCut
  <1>7. IsFiniteSet(1 .. Len(got)) /\ IsFiniteSet(1 .. Len(slots))
    <2>1. IsFiniteSet(DOMAIN got) /\ IsFiniteSet(DOMAIN slots)
      BY <1>1, <1>3, PlacesOfSeq
    <2> QED BY <1>1, <1>4, <2>1
  <1> HIDE DEF slots
  <1>8. /\ IsFiniteSet(Mine) /\ IsFiniteSet(MineCut)
        /\ IsFiniteSet(Coming) /\ IsFiniteSet(ComingCut)
    <2>1. \A S, T : IsFiniteSet(S) /\ T \subseteq S => IsFiniteSet(T)
      BY FS_Subset
    <2> QED BY ONLY <2>1, <1>5, <1>6, <1>7
  <1>9. /\ Cardinality(Mine) \in Nat /\ Cardinality(MineCut) \in Nat
        /\ Cardinality(Coming) \in Nat /\ Cardinality(ComingCut) \in Nat
    BY <1>8, FS_CardinalityType
  <1> QED BY <1>1, <1>2, <1>3, <1>4, <1>5, <1>6, <1>8, <1>9 DEF slots

(* A packet for the adapter is dropped, or pushed and perhaps cut.         *)
LEMMA TotalsOfPacket ==
    ASSUME TypeOK, BatchTotals, PacketDropped \/ PacketPushed
    PROVE  BatchTotals'
  <1> DEFINE b == batches["adapter"]
             c == batches'["adapter"]
  <1>1. /\ UNCHANGED <<config, pc, user, got>> /\ pc = "packets" /\ FrameSize' = FrameSize
        /\ madeFor' = [madeFor EXCEPT ![user] = madeFor[user] + 1]
        /\ madeFor \in [Users -> Nat] /\ user \in Users
    BY PacketEffects DEF Advance, TypeOK, FrameSize
  <1>2. Mine' = Mine /\ MineCut' = MineCut
    BY <1>1 DEF Mine, MineCut
  <1>3. CASE user # "adapter"
    <2>1. c = b /\ madeFor'["adapter"] = madeFor["adapter"]
      BY <1>1, <1>3, PacketSteps, BatchesType DEF Users
    <2>2. Coming' = Coming /\ ComingCut' = ComingCut
      BY <1>1, <1>3, <2>1 DEF Coming, ComingCut
    <2> QED BY <1>2, <2>1, <2>2 DEF BatchTotals
  <1>4. CASE user = "adapter" /\ PacketDropped
    <2>1. c = RecordDrop(b) /\ b \in Batch
      BY <1>1, <1>4, PacketSteps, BatchesType, CountsAreNumbers
    <2>2. /\ c.slots = b.slots /\ c.received = b.received /\ c.dropped = b.dropped + 1
          /\ c.truncated = b.truncated
      BY <2>1, RecordDropFields
    <2>3. Coming' = Coming /\ ComingCut' = ComingCut
      BY <1>1, <2>2 DEF Coming, ComingCut
    <2>4. madeFor'["adapter"] = madeFor["adapter"] + 1
      BY <1>1, <1>4
    <2>5. b.received \in Nat /\ b.dropped \in Nat
      BY <2>1 DEF Batch
    <2> QED BY <1>2, <2>2, <2>3, <2>4, <2>5 DEF BatchTotals
  <1>5. CASE user = "adapter" /\ PacketPushed
    <2> DEFINE n == Len(b.slots)
               p == Stored(b, NextPacket)
    <2>1. c = Push(b, NextPacket) /\ b \in Batch /\ NextPacket \in Packet
          /\ NextPacket.size = FrameSize
      BY <1>1, <1>5, PacketSteps, BatchesType, CountsAreNumbers, NextPacketType DEF NextPacket
    <2>2. /\ c.slots = Append(b.slots, p) /\ p \in Packet /\ b.slots \in Seq(Packet)
          /\ c.received = b.received + 1 /\ c.dropped = b.dropped
          /\ c.truncated = IF p.size < FrameSize THEN b.truncated + 1 ELSE b.truncated
      <3>1. b \in Batch /\ NextPacket \in Packet
        BY <2>1
      <3> HIDE DEF b, c
      <3> QED BY <2>1, <3>1, PushFields DEF Batch
    <2> HIDE DEF p
    <2>3. n \in Nat /\ DOMAIN b.slots = 1 .. n /\ DOMAIN c.slots = 1 .. n + 1
          /\ c.slots[n + 1] = p /\ \A k \in 1 .. n : c.slots[k] = b.slots[k]
      BY <2>2, AppendProperties, LenProperties
    <2> HIDE DEF n
    <2>4. Coming = 1 .. n /\ Coming' = 1 .. n + 1
      BY <1>1, <1>5, <2>3 DEF Coming
    <2>5. ComingCut' = IF p.size < FrameSize THEN ComingCut \cup {n + 1} ELSE ComingCut
      BY <1>1, <2>3, <2>4 DEF ComingCut
    <2>6. Cardinality(Coming') = Cardinality(Coming) + 1
      <3>1. Cardinality(1 .. n) = n /\ Cardinality(1 .. n + 1) = n + 1
        BY <2>3, FS_Interval
      <3> QED BY <2>4, <3>1
    <2>7. Cardinality(ComingCut') = IF p.size < FrameSize THEN Cardinality(ComingCut) + 1
                                                         ELSE Cardinality(ComingCut)
      <3>1. n + 1 \notin ComingCut
        BY <2>3, <2>4 DEF ComingCut
      <3> QED BY <2>5, <3>1, CountsAreNumbers, FS_AddElement
    <2>8. madeFor'["adapter"] = madeFor["adapter"] + 1
      BY <1>1, <1>5
    <2>9. b.received \in Nat /\ b.dropped \in Nat /\ b.truncated \in Nat
      BY <2>1 DEF Batch
    <2>10. /\ b.received + b.dropped = madeFor["adapter"]
           /\ b.received = Cardinality(Mine) + Cardinality(Coming)
           /\ b.truncated = Cardinality(MineCut) + Cardinality(ComingCut)
      BY DEF BatchTotals
    <2>11. /\ c.received + c.dropped = madeFor'["adapter"]
           /\ c.received = Cardinality(Mine') + Cardinality(Coming')
           /\ c.truncated = Cardinality(MineCut') + Cardinality(ComingCut')
      <3>1. /\ Cardinality(Mine) \in Nat /\ Cardinality(MineCut) \in Nat
            /\ Cardinality(Coming) \in Nat /\ Cardinality(ComingCut) \in Nat
        BY CountsAreNumbers
      <3>2. Cardinality(Mine') = Cardinality(Mine) /\ Cardinality(MineCut') = Cardinality(MineCut)
        BY <1>2
      <3> HIDE DEF b, c
      <3>3. c.received + c.dropped = madeFor'["adapter"]
        <4>1. madeFor["adapter"] \in Nat /\ c.received = b.received + 1 /\ c.dropped = b.dropped
          BY <1>1, <2>2 DEF Users
        <4> QED BY ONLY <2>8, <2>9, <2>10, <4>1
      <3>4. c.received = Cardinality(Mine') + Cardinality(Coming')
        BY <3>1, <3>2, <2>2, <2>6, <2>9, <2>10
      <3>5. c.truncated = Cardinality(MineCut') + Cardinality(ComingCut')
        <4>1. CASE p.size < FrameSize
          BY <4>1, <3>1, <3>2, <2>2, <2>7, <2>9, <2>10
        <4>2. CASE ~(p.size < FrameSize)
          BY <4>2, <3>1, <3>2, <2>2, <2>7, <2>9, <2>10
        <4> QED BY <4>1, <4>2
      <3> QED BY <3>3, <3>4, <3>5
    <2> QED BY <2>11 DEF BatchTotals
  <1> QED BY <1>3, <1>4, <1>5

(* The adapter takes the packets of its batch: what was coming is its own. *)
LEMMA TotalsOfReturn ==
    ASSUME TypeOK, BatchTotals, PollReturns
    PROVE  BatchTotals'
  <1> DEFINE b == batches["adapter"]
             n == Len(got)
             m == Len(b.slots)
  <1>1. /\ got' = got \o Taken /\ pc = "packets" /\ pc' = "idle"
        /\ UNCHANGED <<batches, user, madeFor, config>> /\ FrameSize' = FrameSize
    BY DEF PollReturns, source, FrameSize
  <1>2. /\ got \in Seq(Delivery) /\ DOMAIN got = 1 .. n /\ n \in Nat
        /\ b.slots \in Seq(Packet) /\ DOMAIN b.slots = 1 .. m /\ m \in Nat
    BY CountsAreNumbers
  <1>3. Taken \in Seq(Delivery) /\ Len(Taken) \in Nat
        /\ \A k \in 1 .. Len(Taken) :
             Taken[k].packet = batches[user].slots[k] /\ Taken[k].user = user
    BY TakenType
  <1>4. DOMAIN got' = 1 .. n + Len(Taken)
        /\ \A k \in 1 .. n + Len(Taken) : got'[k] = IF k <= n THEN got[k] ELSE Taken[k - n]
    BY <1>1, <1>2, <1>3, ConcatProperties, LenProperties
  <1>5. Coming' = {} /\ ComingCut' = {}
    BY <1>1 DEF Coming, ComingCut
  <1>6. Cardinality(Coming') = 0 /\ Cardinality(ComingCut') = 0
    BY <1>5, FS_EmptySet
  <1>7. CASE user # "adapter"
    <2>1. \A k \in 1 .. Len(Taken) : Taken[k].user # "adapter"
      BY <1>3, <1>7
    <2>2. \A k \in 1 .. n + Len(Taken) : got'[k].user = "adapter" =>
             k \in 1 .. n /\ got'[k] = got[k]
      <3> SUFFICES ASSUME NEW k \in 1 .. n + Len(Taken), got'[k].user = "adapter"
                   PROVE  k \in 1 .. n /\ got'[k] = got[k]
        OBVIOUS
      <3> HIDE DEF n
      <3>1. CASE k <= n
        BY <1>2, <1>3, <1>4, <3>1
      <3>2. CASE ~(k <= n)
        <4>1. k - n \in 1 .. Len(Taken)
          BY <1>2, <1>3, <3>2
        <4>2. got'[k] = Taken[k - n]
          BY <1>4, <3>2
        <4> QED BY <2>1, <4>1, <4>2
      <3> QED BY <3>1, <3>2
    <2>3. \A k \in 1 .. n : k \in 1 .. n + Len(Taken) /\ got'[k] = got[k]
      BY <1>2, <1>3, <1>4
    <2>4. Mine' = Mine /\ MineCut' = MineCut
      BY <1>1, <1>2, <1>4, <2>2, <2>3 DEF Mine, MineCut
    <2>5. Cardinality(Coming) = 0 /\ Cardinality(ComingCut) = 0
      BY <1>7, FS_EmptySet DEF Coming, ComingCut
    <2> QED BY <1>1, <1>6, <2>4, <2>5 DEF BatchTotals
  <1>8. CASE user = "adapter"
    <2>1. Len(Taken) = m
      BY <1>8, TakenType
    <2>2. \A k \in 1 .. m : Taken[k].user = "adapter" /\ Taken[k].packet = b.slots[k]
      BY <1>3, <1>8, <2>1
    <2>3. Coming = 1 .. m
      BY <1>1, <1>2, <1>8 DEF Coming
    <2> HIDE DEF b, n, m
    <2>4. \A k \in 1 .. n + m : got'[k] = IF k <= n THEN got[k] ELSE Taken[k - n]
      BY <1>4, <2>1
    <2>5. Mine' \subseteq 1 .. n + m
          /\ \A k \in 1 .. n + m : k \in Mine' <=> k \in Mine \/ k - n \in Coming
      <3>1. DOMAIN got' = 1 .. n + m
        BY <1>4, <2>1
      <3>2. ASSUME NEW k \in 1 .. n + m
            PROVE  got'[k].user = "adapter" <=> k \in Mine \/ k - n \in Coming
        <4>1. CASE k <= n
          <5>1. got'[k] = got[k] /\ k \in DOMAIN got /\ k - n \notin Coming
            BY <1>2, <2>3, <2>4, <4>1
          <5> QED BY <5>1 DEF Mine
        <4>2. CASE ~(k <= n)
          <5>1. k - n \in 1 .. m /\ k \notin DOMAIN got
            BY <1>2, <4>2
          <5>2. got'[k] = Taken[k - n]
            BY <2>4, <4>2
          <5> QED BY <2>2, <2>3, <5>1, <5>2
        <4> QED BY <4>1, <4>2
      <3> QED BY <3>1, <3>2 DEF Mine
    <2>6. MineCut' \subseteq 1 .. n + m
          /\ \A k \in 1 .. n + m : k \in MineCut' <=> k \in MineCut \/ k - n \in ComingCut
      <3>1. DOMAIN got' = 1 .. n + m
        BY <1>4, <2>1
      <3>2. ASSUME NEW k \in 1 .. n + m
            PROVE  got'[k].user = "adapter" /\ got'[k].packet.size < FrameSize
                     <=> k \in MineCut \/ k - n \in ComingCut
        <4>1. CASE k <= n
          <5>1. got'[k] = got[k] /\ k \in DOMAIN got /\ k - n \notin Coming
            BY <1>2, <2>3, <2>4, <4>1
          <5> QED BY <5>1 DEF MineCut, ComingCut
        <4>2. CASE ~(k <= n)
          <5>1. k - n \in 1 .. m /\ k \notin DOMAIN got
            BY <1>2, <4>2
          <5>2. got'[k] = Taken[k - n]
            BY <2>4, <4>2
          <5>3. got'[k].user = "adapter" /\ got'[k].packet = b.slots[k - n]
            BY <2>2, <5>1, <5>2
          <5>4. k - n \in ComingCut <=> b.slots[k - n].size < FrameSize
            BY <2>3, <5>1 DEF ComingCut, b
          <5> QED BY <5>1, <5>3, <5>4 DEF MineCut
        <4> QED BY <4>1, <4>2
      <3> QED BY <1>1, <3>1, <3>2 DEF MineCut
    <2>7. /\ Mine \subseteq 1 .. n /\ MineCut \subseteq 1 .. n
          /\ Coming \subseteq 1 .. m /\ ComingCut \subseteq 1 .. m
      BY <2>3, CountsAreNumbers DEF n, m, b
    <2>8. \A A \in SUBSET (1 .. n), B \in SUBSET (1 .. m), D \in SUBSET (1 .. n + m) :
             (\A k \in 1 .. n + m : k \in D <=> k \in A \/ k - n \in B)
               => Cardinality(D) = Cardinality(A) + Cardinality(B)
      <3>1. n \in Nat /\ m \in Nat
        BY <1>2
      <3> QED BY ONLY <3>1, CardinalityOfConcat
    <2>9. Cardinality(Mine') = Cardinality(Mine) + Cardinality(Coming)
      BY ONLY <2>5, <2>7, <2>8
    <2>10. Cardinality(MineCut') = Cardinality(MineCut) + Cardinality(ComingCut)
      BY ONLY <2>6, <2>7, <2>8
    <2> QED BY <1>1, <1>6, <2>9, <2>10, CountsAreNumbers DEF BatchTotals
  <1> QED BY <1>7, <1>8

(* Every step keeps the totals.                                            *)
LEMMA TotalsStep == TypeOK /\ BatchTotals /\ [Next]_vars => BatchTotals'
  <1> SUFFICES ASSUME TypeOK, BatchTotals, [Next]_vars PROVE BatchTotals'
    OBVIOUS
  <1>1. CASE Quiet
    <2>1. /\ UNCHANGED <<batches, user, madeFor, got>>
          /\ pc' = "packets" <=> pc = "packets"
          /\ FrameSize' = FrameSize
      BY <1>1, QuietEffects
    <2>2. Mine' = Mine /\ MineCut' = MineCut /\ Coming' = Coming
      BY <2>1 DEF Mine, MineCut, Coming
    <2>3. ComingCut' = ComingCut
      BY <2>1, <2>2 DEF ComingCut
    <2> QED BY <2>1, <2>2, <2>3 DEF BatchTotals
  <1>2. ASSUME NEW u \in Users, PollBegins(u)
        PROVE  BatchTotals'
    <2>1. /\ UNCHANGED <<config, madeFor, got>> /\ pc = "idle" /\ user' = u /\ FrameSize' = FrameSize
      BY <1>2 DEF PollBegins, source, history, FrameSize
    <2>2. Mine' = Mine /\ MineCut' = MineCut
      BY <2>1 DEF Mine, MineCut
    <2>3. batches'[u].slots = <<>> /\ \A v \in Users : v # u => batches'[v] = batches[v]
      BY <1>2, FreshBatches, BatchesType
    <2>4. Coming = {} /\ Coming' = {}
      BY <2>1, <2>3 DEF Coming
    <2>5. ComingCut = {} /\ ComingCut' = {}
      BY <2>4 DEF ComingCut
    <2>6. /\ batches'["adapter"].received = batches["adapter"].received
          /\ batches'["adapter"].dropped = batches["adapter"].dropped
          /\ batches'["adapter"].truncated = batches["adapter"].truncated
      <3>1. CASE u = "adapter"
        <4>1. batches'["adapter"] = Reset(batches["adapter"]) /\ batches["adapter"] \in Batch
          BY <1>2, <3>1, FreshBatches, BatchesType, CountsAreNumbers DEF FreshBatch
        <4> QED BY <4>1, ResetFields
      <3>2. CASE u # "adapter"
        BY <2>3, <3>2 DEF Users
      <3> QED BY <3>1, <3>2
    <2> QED BY <2>1, <2>2, <2>4, <2>5, <2>6 DEF BatchTotals
  <1> QED BY <1>1, <1>2, TotalsOfPacket, TotalsOfReturn DEF Next, Quiet, Users

-----------------------------------------------------------------------------
(* The drops of a poll and the sequence numbers                            *)

(* The drops of a poll are handed over at its end.                         *)
LEMMA DropsStep == TypeOK /\ DropsReported /\ [Next]_vars => DropsReported'
  <1> SUFFICES ASSUME TypeOK, DropsReported, [Next]_vars PROVE DropsReported'
    OBVIOUS
  <1>1. CASE Quiet
    BY <1>1, QuietEffects DEF DropsReported
  <1>2. CASE PacketDropped \/ PacketPushed
    BY <1>2, PacketEffects DEF DropsReported
  <1>3. ASSUME NEW u \in Users, PollBegins(u) PROVE DropsReported'
    BY <1>3 DEF PollBegins, DropsReported
  <1>4. CASE PollReturns
    BY <1>4 DEF PollReturns, DropsReported
  <1> QED BY <1>1, <1>2, <1>3, <1>4 DEF Next, Quiet, Users

(* Numbers stay right when more packets are made ...                       *)
LEMMA NumberedStays ==
    ASSUME TypeOK, packets' \in {packets, packets + 1}, firstOf' = firstOf,
           config'.payloadSize = config.payloadSize,
           NEW p \in Packet, Numbered(p)
    PROVE  Numbered(p)'
  <1>1. p.number \in Nat /\ p.number < packets /\ packets \in Nat
    BY DEF Numbered, TypeOK, Packet
  <1>2. p.number < packets'
    BY <1>1
  <1> QED BY <1>2 DEF Numbered

(* ... and say nothing any more when the source is started again.          *)
LEMMA NumberedForgotten ==
    ASSUME TypeOK, packets' = packets, firstOf' = packets, NEW p \in Packet, Numbered(p)
    PROVE  Numbered(p)'
  <1>1. p.number \in Nat /\ p.number < packets /\ packets \in Nat
    BY DEF Numbered, TypeOK, Packet
  <1>2. ~(p.number >= firstOf')
    BY <1>1
  <1> QED BY <1>1, <1>2 DEF Numbered

(* The packets that have been handed over, and those in a batch.           *)
LEMMA PacketsTyped ==
    ASSUME TypeOK
    PROVE  /\ \A k \in DOMAIN got : got[k].packet \in Packet
           /\ \A u \in Users : \A k \in DOMAIN batches[u].slots : batches[u].slots[k] \in Packet
  <1>1. got \in Seq(Delivery) /\ DOMAIN got = 1 .. Len(got)
    BY CountsAreNumbers
  <1>2. \A k \in DOMAIN got : got[k] \in Delivery
    BY <1>1, ElementOfSeq
  <1>3. \A k \in DOMAIN got : got[k].packet \in Packet
    BY <1>2 DEF Delivery
  <1>4. ASSUME NEW u \in Users, NEW k \in DOMAIN batches[u].slots
        PROVE  batches[u].slots[k] \in Packet
    <2>1. batches[u].slots \in Seq(Packet)
      BY DEF TypeOK, Batch
    <2>2. DOMAIN batches[u].slots = 1 .. Len(batches[u].slots)
      BY <2>1, LenProperties
    <2> QED BY <2>1, <2>2, ElementOfSeq
  <1> QED BY <1>3, <1>4

(* A packet that is pushed carries the number of its place.                *)
LEMMA PushedNumbered ==
    ASSUME TypeOK, SequenceFollows, PacketPushed,
           NEW p, p = Stored(batches[user], NextPacket)
    PROVE  Numbered(p)'
  <1>1. packets' = packets + 1 /\ UNCHANGED <<config, firstOf>>
    BY PacketEffects DEF Advance
  <1>2. p.number = packets /\ p.seq = WrittenSequence
    <2>1. batches[user] \in Batch /\ NextPacket \in Packet
      BY NextPacketType DEF TypeOK
    <2> QED BY <2>1, PushFields DEF NextPacket
  <1>3. config.payloadSize >= SequenceSize => p.seq = (packets - firstOf) % SequenceModulus
    BY <1>2 DEF WrittenSequence, SequenceFollows
  <1> QED BY <1>1, <1>2, <1>3 DEF Numbered, TypeOK

(* Every step keeps the numbers.                                           *)
LEMMA SequenceStep ==
    ASSUME TypeOK, SequenceFollows, [Next]_vars
    PROVE  SequenceFollows'
  <1>0. packets \in Nat /\ firstOf \in 0 .. packets /\ SequenceModulus \in Nat \ {0}
        /\ user \in Users
    BY Constants DEF TypeOK
  <1>1. CASE Quiet
    <2>1. /\ UNCHANGED <<batches, user, packets, got>>
          /\ pc' = "packets" <=> pc = "packets"
          /\ config'.payloadSize = config.payloadSize
      BY <1>1, QuietEffects
    <2>2. CASE sequence' = sequence /\ firstOf' = firstOf
      <3>1. \A p \in Packet : Numbered(p) => Numbered(p)'
        BY <2>1, <2>2, NumberedStays
      <3>2. \A k \in DOMAIN got : Numbered(got[k].packet)'
        BY <2>1, <3>1, PacketsTyped DEF SequenceFollows, Numbered
      <3>3. pc' = "packets" => \A k \in DOMAIN batches[user].slots :
                                 Numbered(batches[user].slots[k])'
        BY <1>0, <2>1, <3>1, PacketsTyped DEF SequenceFollows, Numbered
      <3> QED BY <2>1, <2>2, <3>2, <3>3 DEF SequenceFollows
    <2>3. CASE InitCall /\ sequence' = 0 /\ firstOf' = packets
      <3>1. \A p \in Packet : Numbered(p) => Numbered(p)'
        BY <2>1, <2>3, NumberedForgotten
      <3>2. \A k \in DOMAIN got : Numbered(got[k].packet)'
        BY <2>1, <3>1, PacketsTyped DEF SequenceFollows, Numbered
      <3>3. pc' # "packets"
        BY <1>1, <2>3, QuietEffects
      <3>4. 0 % SequenceModulus = 0 /\ packets - packets = 0
        BY <1>0, ModUnique
      <3> QED BY <2>1, <2>3, <3>2, <3>3, <3>4 DEF SequenceFollows
    <2> QED BY <1>1, <2>2, <2>3, QuietEffects
  <1>2. ASSUME NEW u \in Users, PollBegins(u)
        PROVE  SequenceFollows'
    <2>1. UNCHANGED <<config, sequence, packets, firstOf, got>> /\ user' = u
      BY <1>2 DEF PollBegins, source, history
    <2>2. batches'[u].slots = <<>>
      BY <1>2, FreshBatches, BatchesType
    <2>3. DOMAIN batches'[u].slots = {}
      BY <2>2
    <2> QED BY <2>1, <2>3 DEF SequenceFollows, Numbered
  <1>3. CASE PacketDropped \/ PacketPushed
    <2>1. /\ packets' = packets + 1 /\ UNCHANGED <<config, firstOf, got, pc, user>>
          /\ sequence' = (sequence + 1) % SequenceModulus /\ pc = "packets"
      BY <1>3, PacketEffects DEF Advance
    <2>2. sequence' = (packets' - firstOf') % SequenceModulus
      <3> DEFINE d == packets - firstOf
      <3>1. d \in Nat /\ sequence = d % SequenceModulus /\ packets' - firstOf' = d + 1
        BY <1>0, <2>1 DEF SequenceFollows
      <3> HIDE DEF d
      <3>2. ((d % SequenceModulus) + 1) % SequenceModulus = (d + 1) % SequenceModulus
        <4> DEFINE r == d % SequenceModulus
        <4>1. r \in 0 .. SequenceModulus - 1 /\ r \in Nat
          BY <1>0, <3>1, DivMod
        <4>2. r % SequenceModulus = r
          <5>1. r = SequenceModulus * 0 + r /\ 0 \in Nat
            BY <1>0, <4>1
          <5> QED BY ONLY <1>0, <4>1, <5>1, ModUnique
        <4> HIDE DEF r
        <4>3. (r + 1) % SequenceModulus = IF r = SequenceModulus - 1 THEN 0 ELSE r + 1
          BY <1>0, <4>1, <4>2, ModSucc
        <4>4. (d + 1) % SequenceModulus = IF r = SequenceModulus - 1 THEN 0 ELSE r + 1
          BY <1>0, <3>1, ModSucc DEF r
        <4> QED BY <4>3, <4>4 DEF r
      <3> QED BY <2>1, <3>1, <3>2
    <2>3. \A p \in Packet : Numbered(p) => Numbered(p)'
      BY <2>1, NumberedStays
    <2>4. \A k \in DOMAIN got : Numbered(got[k].packet)'
      BY <2>1, <2>3, PacketsTyped DEF SequenceFollows, Numbered
    <2>5. \A k \in DOMAIN batches[user].slots : Numbered(batches[user].slots[k])
      BY <2>1 DEF SequenceFollows
    <2>6. CASE PacketDropped
      <3>1. batches'[user] = RecordDrop(batches[user]) /\ batches[user] \in Batch
        BY <1>0, <2>6, PacketSteps, BatchesType DEF TypeOK
      <3>2. batches'[user].slots = batches[user].slots
        BY <3>1, RecordDropFields
      <3>3. \A k \in DOMAIN batches'[user].slots : Numbered(batches[user].slots[k])'
        BY <1>0, <2>1, <2>3, <2>5, <3>2, PacketsTyped DEF Numbered
      <3> QED BY <2>1, <2>2, <2>4, <3>3 DEF SequenceFollows
    <2>7. CASE PacketPushed
      <3> DEFINE old == batches[user].slots
                 n   == Len(old)
      <3>1. batches'[user] = Push(batches[user], NextPacket)
            /\ batches[user] \in Batch /\ NextPacket \in Packet
        BY <1>0, <2>7, PacketSteps, BatchesType, NextPacketType DEF TypeOK
      <3>2. PICK p \in Packet : p = Stored(batches[user], NextPacket)
        BY <3>1, PushFields
      <3>3. batches'[user].slots = Append(old, p) /\ old \in Seq(Packet)
        <4>1. PICK u \in Batch, q \in Packet : u = batches[user] /\ q = NextPacket
          BY <3>1
        <4>2. Push(u, q).slots = Append(u.slots, Stored(u, q)) /\ u.slots \in Seq(Packet)
          BY PushFields DEF Batch
        <4> QED BY <3>1, <3>2, <4>1, <4>2
      <3>4. Numbered(p)'
        BY <2>7, <3>2, PushedNumbered
      <3>5. /\ DOMAIN batches'[user].slots = 1 .. n + 1 /\ n \in Nat /\ DOMAIN old = 1 .. n
            /\ batches'[user].slots[n + 1] = p
            /\ \A k \in 1 .. n : batches'[user].slots[k] = old[k]
        BY <3>3, AppendProperties, LenProperties
      <3>6. \A k \in 1 .. n + 1 : Numbered(batches[user].slots[k])'
        <4> SUFFICES ASSUME NEW k \in 1 .. n + 1
                     PROVE  Numbered(batches[user].slots[k])'
          OBVIOUS
        <4>1. CASE k = n + 1
          BY <2>1, <3>4, <3>5, <4>1 DEF Numbered
        <4>2. CASE k \in 1 .. n
          <5>1. old[k] \in Packet /\ Numbered(old[k])
            BY <1>0, <2>5, <3>5, <4>2, PacketsTyped
          <5>2. PICK q \in Packet : q = old[k]
            BY <5>1
          <5>3. Numbered(q)'
            BY <2>3, <5>1, <5>2
          <5> QED BY <2>1, <3>5, <4>2, <5>2, <5>3 DEF Numbered
        <4> QED BY <3>5, <4>1, <4>2
      <3> QED BY <2>1, <2>2, <2>4, <3>5, <3>6 DEF SequenceFollows
    <2> QED BY <1>3, <2>6, <2>7
  <1>4. CASE PollReturns
    <2>1. /\ UNCHANGED <<config, sequence, packets, firstOf>> /\ pc = "packets" /\ pc' = "idle"
          /\ got' = got \o Taken
      BY <1>4 DEF PollReturns, source
    <2>2. /\ got \in Seq(Delivery) /\ DOMAIN got = 1 .. Len(got) /\ Len(got) \in Nat
          /\ Taken \in Seq(Delivery) /\ DOMAIN Taken = 1 .. Len(Taken) /\ Len(Taken) \in Nat
      BY CountsAreNumbers, TakenType, LenProperties
    <2>3. /\ DOMAIN got' = 1 .. Len(got) + Len(Taken)
          /\ \A k \in 1 .. Len(got) + Len(Taken) :
               got'[k] = IF k <= Len(got) THEN got[k] ELSE Taken[k - Len(got)]
      BY <2>1, <2>2, ConcatProperties, LenProperties
    <2>4. \A k \in 1 .. Len(Taken) : Numbered(Taken[k].packet)
      <3>1. \A k \in DOMAIN Taken : k \in DOMAIN batches[user].slots
              /\ Taken[k].packet = batches[user].slots[k]
        BY TakenType
      <3> QED BY <2>1, <2>2, <3>1 DEF SequenceFollows
    <2>5. \A k \in 1 .. Len(got) : Numbered(got[k].packet)
      BY <2>2 DEF SequenceFollows
    <2>6. \A k \in DOMAIN got' : Numbered(got[k].packet)'
      <3> SUFFICES ASSUME NEW k \in 1 .. Len(got) + Len(Taken)
                   PROVE  Numbered(got[k].packet)'
        BY <2>3
      <3>1. CASE k <= Len(got)
        BY <2>1, <2>2, <2>3, <2>5, <3>1 DEF Numbered
      <3>2. CASE ~(k <= Len(got))
        <4>1. k - Len(got) \in 1 .. Len(Taken)
          BY <2>2, <3>2
        <4> QED BY <2>1, <2>3, <2>4, <3>2, <4>1 DEF Numbered
      <3> QED BY <3>1, <3>2
    <2> QED BY <2>1, <2>6 DEF SequenceFollows
  <1> QED BY <1>1, <1>2, <1>3, <1>4 DEF Next, Quiet, Users

-----------------------------------------------------------------------------
(* The batch, its totals, the drops and the numbers agree between any two  *)
(* steps of a poll, whoever polls, whatever the configuration.             *)
THEOREM NetInvHolds == Spec => []NetInv
  <1>1. Init => NetInv
    BY TypesInit, TotalsInit DEF NetInv
  <1>2. NetInv /\ [Next]_vars => NetInv'
    BY TypesStep, TotalsStep, DropsStep, SequenceStep DEF NetInv
  <1> QED BY <1>1, <1>2, PTL DEF Spec

(* The sequence numbers in the payloads show every gap, after any number   *)
(* of restarts and wraps.                                                  *)
THEOREM SequencesShowGapsHolds == Spec => []SequencesShowGaps
  <1>1. NetInv => SequencesShowGaps
    BY DEF NetInv, SequenceFollows, Numbered, SequencesShowGaps
  <1> QED BY <1>1, NetInvHolds, PTL

-----------------------------------------------------------------------------
(* The source implements the ledger of packets                             *)

(* What the ledger sees as handed over.                                    *)
InHand == IF pc = "packets" THEN got \o Taken ELSE got
Numbers(s) == [k \in DOMAIN s |-> s[k].packet.number]

(* What the ledger calls handed over is the numbers of what users hold.    *)
LEMMA HandedIsNumbers == Handed = Numbers(InHand)
  BY DEF Handed, Numbers, InHand

(* The numbers of a sequence of deliveries, one by one.                    *)
LEMMA NumbersOfSeq ==
    ASSUME NEW s \in Seq(Delivery)
    PROVE  /\ Numbers(s) \in Seq(Nat) /\ Len(Numbers(s)) = Len(s) /\ Len(s) \in Nat
           /\ \A k \in 1 .. Len(s) : Numbers(s)[k] = s[k].packet.number
  <1>1. DOMAIN s = 1 .. Len(s) /\ Len(s) \in Nat
    BY LenProperties
  <1>2. \A k \in 1 .. Len(s) : s[k] \in Delivery
    BY ElementOfSeq
  <1>3. \A k \in 1 .. Len(s) : s[k].packet.number \in Nat
    BY <1>2 DEF Delivery, Packet
  <1>4. Numbers(s) = [k \in 1 .. Len(s) |-> s[k].packet.number]
    BY <1>1 DEF Numbers
  <1> QED BY <1>1, <1>3, <1>4

(* What the users hold is a sequence of deliveries.                        *)
LEMMA InHandType == TypeOK => InHand \in Seq(Delivery)
  BY CountsAreNumbers, TakenType, ConcatProperties DEF InHand

(* The elements of a concatenation, with the lengths named.                *)
LEMMA ConcatElements ==
    ASSUME NEW a \in Seq(Delivery), NEW b \in Seq(Delivery), NEW n \in Nat, NEW m \in Nat,
           Len(a) = n, Len(b) = m
    PROVE  /\ Len(a \o b) = n + m
           /\ \A k \in 1 .. n + m : (a \o b)[k] = IF k <= n THEN a[k] ELSE b[k - n]
  <1>1. /\ Len(a \o b) = Len(a) + Len(b)
        /\ \A k \in 1 .. Len(a) + Len(b) :
             (a \o b)[k] = IF k <= Len(a) THEN a[k] ELSE b[k - Len(a)]
    BY ConcatProperties
  <1> QED BY <1>1

(* A packet that is pushed is the next one handed over.                    *)
LEMMA PushedIsHandedOver ==
    ASSUME TypeOK, TypeOK', PacketPushed
    PROVE  Handed' = Append(Handed, packets)
  <1> DEFINE old == batches[user].slots
             h   == Numbers(InHand)
             n   == Len(got)
             m   == Len(old)
  <1>1. UNCHANGED <<got, pc, user>> /\ pc = "packets" /\ user \in Users /\ packets \in Nat
    BY PacketEffects DEF TypeOK
  <1>2. PICK p \in Packet : p = Stored(batches[user], NextPacket)
    BY <1>1, PushFields, NextPacketType DEF TypeOK
  <1>3. batches'[user].slots = Append(old, p) /\ old \in Seq(Packet) /\ p.number = packets
    <2>1. batches'[user] = Push(batches[user], NextPacket)
          /\ batches[user] \in Batch /\ NextPacket \in Packet
      BY <1>1, PacketSteps, BatchesType, NextPacketType DEF TypeOK
    <2> QED BY <1>2, <2>1, PushFields DEF Batch, NextPacket
  <1>4. /\ got \in Seq(Delivery) /\ n \in Nat
        /\ Taken \in Seq(Delivery) /\ Len(Taken) = m /\ m \in Nat
        /\ \A k \in 1 .. m : Taken[k].packet = old[k]
    BY CountsAreNumbers, TakenType
  <1>5. /\ Taken' \in Seq(Delivery) /\ Len(Taken') = m + 1
        /\ \A k \in 1 .. m + 1 : Taken'[k].packet = batches'[user].slots[k]
    <2>1. Taken' = TakenFrom(batches'[user].slots, user)
      BY <1>1 DEF Taken, TakenFrom
    <2>2. batches'[user].slots \in Seq(Packet) /\ Len(batches'[user].slots) = m + 1
      BY <1>3, <1>4, AppendProperties
    <2> QED BY <1>1, <2>1, <2>2, TakenFields
  <1>6. /\ InHand = got \o Taken /\ InHand' = got \o Taken'
        /\ InHand \in Seq(Delivery) /\ InHand' \in Seq(Delivery)
    BY <1>1, <1>4, <1>5, ConcatProperties DEF InHand
  <1>7. /\ Len(InHand) = n + m /\ Len(InHand') = n + m + 1
        /\ \A k \in 1 .. n + m : InHand[k] = IF k <= n THEN got[k] ELSE Taken[k - n]
        /\ \A k \in 1 .. n + m + 1 : InHand'[k] = IF k <= n THEN got[k] ELSE Taken'[k - n]
    <2>0. n = Len(got) /\ m + 1 \in Nat
      BY <1>4
    <2> HIDE DEF n, m, old
    <2>1. /\ Len(got \o Taken) = n + m
          /\ \A k \in 1 .. n + m : (got \o Taken)[k] = IF k <= n THEN got[k] ELSE Taken[k - n]
      BY <1>4, <2>0, ConcatElements
    <2>2. /\ Len(got \o Taken') = n + (m + 1)
          /\ \A k \in 1 .. n + (m + 1) :
               (got \o Taken')[k] = IF k <= n THEN got[k] ELSE Taken'[k - n]
      <3>1. /\ Len(got \o Taken') = Len(got) + Len(Taken')
            /\ \A k \in 1 .. Len(got) + Len(Taken') :
                 (got \o Taken')[k] = IF k <= Len(got) THEN got[k] ELSE Taken'[k - Len(got)]
        <4>1. got \in Seq(Delivery) /\ Taken' \in Seq(Delivery)
          BY <1>4, <1>5
        <4> QED BY ONLY <4>1, ConcatProperties, Zenon
      <3>2. Len(got) = n /\ Len(Taken') = m + 1
        BY <1>5, <2>0
      <3> QED BY ONLY <3>1, <3>2, Zenon
    <2>3. n + (m + 1) = n + m + 1
      BY <1>4
    <2> QED BY <1>6, <2>1, <2>2, <2>3
  <1>8. /\ h \in Seq(Nat) /\ Len(h) = n + m
        /\ \A k \in 1 .. n + m : h[k] = InHand[k].packet.number
        /\ h' \in Seq(Nat) /\ Len(h') = n + m + 1
        /\ \A k \in 1 .. n + m + 1 : h'[k] = InHand'[k].packet.number
    <2>1. Numbers(InHand') = Numbers(InHand)'
      BY DEF Numbers
    <2>2. /\ h \in Seq(Nat) /\ Len(h) = n + m
          /\ \A k \in 1 .. n + m : h[k] = InHand[k].packet.number
      BY <1>6, <1>7, NumbersOfSeq
    <2>3. /\ Numbers(InHand') \in Seq(Nat) /\ Len(Numbers(InHand')) = n + m + 1
          /\ \A k \in 1 .. n + m + 1 : Numbers(InHand')[k] = InHand'[k].packet.number
      BY <1>6, <1>7, NumbersOfSeq
    <2> QED BY <2>1, <2>2, <2>3
  <1>9. /\ \A k \in 1 .. m : Taken'[k].packet = old[k]
        /\ Taken'[m + 1].packet = p
    <2>1. /\ \A k \in 1 .. m : batches'[user].slots[k] = old[k]
          /\ batches'[user].slots[m + 1] = p
      BY <1>3, <1>4, AppendProperties
    <2> QED BY <1>4, <1>5, <2>1
  <1> DEFINE g == Append(h, packets)
  <1> HIDE DEF h, n, m, old
  <1>10. g \in Seq(Nat) /\ Len(g) = n + m + 1 /\ g[n + m + 1] = packets
         /\ \A k \in 1 .. n + m : g[k] = h[k]
    BY <1>1, <1>8, AppendProperties
  <1> HIDE DEF g
  <1>11. ASSUME NEW k \in 1 .. n + m + 1
         PROVE  h'[k] = g[k]
    <2>1. CASE k <= n
      <3>1. InHand'[k] = InHand[k] /\ k \in 1 .. n + m
        BY <1>4, <1>7, <2>1
      <3> QED BY <1>8, <1>10, <3>1
    <2>2. CASE n < k /\ k <= n + m
      <3>1. k - n \in 1 .. m
        BY <1>4, <2>2
      <3>2. k \in 1 .. n + m /\ ~(k <= n)
        BY <1>4, <2>2
      <3>3. InHand'[k] = Taken'[k - n] /\ InHand[k] = Taken[k - n]
        BY <1>7, <3>2
      <3>4. Taken'[k - n].packet = Taken[k - n].packet
        BY <1>4, <1>9, <3>1
      <3>5. InHand'[k].packet = InHand[k].packet
        BY <3>3, <3>4, Zenon
      <3> QED BY <1>8, <1>10, <3>2, <3>5
    <2>3. CASE k = n + m + 1
      <3>1. ~(k <= n) /\ k - n = m + 1
        BY <1>4, <2>3
      <3>2. InHand'[k].packet = p
        BY <1>4, <1>7, <1>9, <2>3, <3>1
      <3> QED BY <1>3, <1>8, <1>10, <2>3, <3>2
    <2> QED BY <1>4, <2>1, <2>2, <2>3
  <1>12. h' = Append(h, packets)
    <2>1. Len(h') = Len(g) /\ \A k \in 1 .. Len(h') : h'[k] = g[k]
      BY <1>8, <1>10, <1>11
    <2>2. h' = g
      BY <1>8, <1>10, <2>1, SeqEqual
    <2> QED BY <2>2 DEF g
  <1>13. Handed = h /\ Handed' = h'
    BY DEF h, Handed, Numbers, InHand
  <1> QED BY <1>12, <1>13

(* The other steps leave what is in hand alone.                            *)
LEMMA InHandUnchanged ==
    ASSUME TypeOK, TypeOK',
           Quiet \/ PacketDropped \/ PollReturns \/ \E u \in Users : PollBegins(u)
    PROVE  Handed' = Handed
  <1>1. CASE Quiet
    BY <1>1, QuietEffects DEF Handed, Taken
  <1>2. CASE PacketDropped
    <2>1. UNCHANGED <<got, pc, user>> /\ user \in Users
      BY <1>2, PacketEffects DEF TypeOK
    <2>2. batches'[user] = RecordDrop(batches[user]) /\ batches[user] \in Batch
      BY <1>2, <2>1, PacketSteps, BatchesType DEF TypeOK
    <2>3. batches'[user].slots = batches[user].slots
      BY <2>2, RecordDropFields
    <2> QED BY <2>1, <2>3 DEF Handed, Taken
  <1>3. CASE PollReturns
    BY <1>3 DEF PollReturns, Handed
  <1>4. ASSUME NEW u \in Users, PollBegins(u)
        PROVE  Handed' = Handed
    <2>1. UNCHANGED got /\ pc = "idle" /\ user' = u /\ got \in Seq(Delivery)
      BY <1>4, CountsAreNumbers DEF PollBegins, history
    <2>2. batches'[u].slots = <<>>
      BY <1>4, FreshBatches, BatchesType
    <2>3. Taken' = TakenFrom(<<>>, u)
      BY <2>1, <2>2 DEF Taken, TakenFrom
    <2>4. TakenFrom(<<>>, u) \in Seq(Delivery) /\ Len(TakenFrom(<<>>, u)) = 0
      BY TakenFields, EmptySeq
    <2>5. Taken' = <<>>
      BY <2>3, <2>4, EmptySeq
    <2>6. got \o <<>> = got
      BY <2>1, ConcatEmptySeq
    <2> QED BY <2>1, <2>5, <2>6 DEF Handed
  <1> QED BY <1>1, <1>2, <1>3, <1>4

(* Every packet the source makes is handed over once and in order, or      *)
(* counted as dropped, whoever polls: the source implements PacketLedger.  *)
THEOREM Implementation == Spec => ImplementsLedger
  <1>1. Init => Ledger!Init
    <2> SUFFICES ASSUME Init PROVE Ledger!Init
      OBVIOUS
    <2>1. got = <<>> /\ pc # "packets" /\ <<>> \in Seq(Delivery)
      BY EmptySeq DEF Init
    <2>2. Handed = Numbers(<<>>)
      BY <2>1 DEF Handed, Numbers
    <2>3. Numbers(<<>>) \in Seq(Nat) /\ Len(Numbers(<<>>)) = 0
      BY <2>1, NumbersOfSeq
    <2>4. Handed = <<>>
      BY <2>2, <2>3, EmptySeq
    <2> QED BY <2>4 DEF Init, Ledger!Init
  <1>2. NetInv /\ NetInv' /\ [Next]_vars => [Ledger!Next]_(Ledger!ledger)
    <2> SUFFICES ASSUME NetInv, NetInv', [Next]_vars
                 PROVE  [Ledger!Next]_(Ledger!ledger)
      OBVIOUS
    <2>0. TypeOK /\ TypeOK' /\ metrics.dropped \in Nat /\ droppedThis \in Nat
      BY DEF NetInv, TypeOK
    <2>1. CASE Quiet
      <3>1. UNCHANGED <<packets, metrics, droppedThis>> /\ Handed' = Handed
        BY <2>0, <2>1, QuietEffects, InHandUnchanged
      <3> QED BY <3>1 DEF Ledger!ledger
    <2>2. ASSUME NEW u \in Users, PollBegins(u)
          PROVE  [Ledger!Next]_(Ledger!ledger)
      <3>1. UNCHANGED <<packets, metrics>> /\ pc = "idle" /\ droppedThis' = 0
        BY <2>2 DEF PollBegins, history
      <3>2. droppedThis = 0
        BY <3>1 DEF NetInv, DropsReported
      <3>3. Handed' = Handed
        BY <2>0, <2>2, InHandUnchanged
      <3> QED BY <3>1, <3>2, <3>3 DEF Ledger!ledger
    <2>3. CASE PacketDropped
      <3>1. packets' = packets + 1 /\ UNCHANGED metrics /\ droppedThis' = droppedThis + 1
        BY <2>3, PacketEffects DEF Advance
      <3>2. Handed' = Handed
        BY <2>0, <2>3, InHandUnchanged
      <3>3. metrics'.dropped + droppedThis' = (metrics.dropped + droppedThis) + 1
        BY <2>0, <3>1
      <3> QED BY <3>1, <3>2, <3>3 DEF Ledger!Next, Ledger!Refuse
    <2>4. CASE PacketPushed /\ ~PacketDropped
      <3>1. packets' = packets + 1 /\ UNCHANGED metrics /\ droppedThis' = droppedThis
        BY <2>4, PacketEffects DEF Advance
      <3>2. Handed' = Append(Handed, packets)
        BY <2>0, <2>4, PushedIsHandedOver
      <3> QED BY <3>1, <3>2 DEF Ledger!Next, Ledger!HandOver
    <2>5. CASE PollReturns
      <3>1. UNCHANGED packets /\ droppedThis' = 0
            /\ metrics' = [received |-> metrics.received + Len(batches[user].slots),
                           dropped  |-> metrics.dropped + droppedThis]
        BY <2>5 DEF PollReturns
      <3>2. metrics'.dropped + droppedThis' = metrics.dropped + droppedThis
        BY <2>0, <3>1
      <3>3. Handed' = Handed
        BY <2>0, <2>5, InHandUnchanged
      <3> QED BY <3>1, <3>2, <3>3 DEF Ledger!ledger
    <2> QED BY <2>1, <2>2, <2>3, <2>4, <2>5 DEF Next, Quiet, Users
  <1> QED BY <1>1, <1>2, NetInvHolds, PTL DEF Spec, ImplementsLedger, Ledger!Spec
=============================================================================
