------------------------------ MODULE SpscRing ------------------------------
(***************************************************************************)
(* The lock-free single-producer single-consumer ring of flyby-memory      *)
(* (crates/flyby-memory/src/ring.rs) driven by the two-phase push and pop  *)
(* of the region that owns the slots (region.rs).                          *)
(*                                                                         *)
(* The producer thread and the consumer thread run concurrently.  Every    *)
(* action reads or writes at most one location the other thread writes, so *)
(* the interleavings of the actions are those of the machine.              *)
(*                                                                         *)
(* Memory ordering.  A load of the other thread's counter may be stale: it *)
(* returns any value of that counter from the last one this thread has     *)
(* seen up to the current one (coherence).  The Release store / Acquire    *)
(* load pairs make the slot accesses that precede a counter value visible  *)
(* to the thread that loads this value; hence slots need no staleness of   *)
(* their own.  A slot is written in place and not atomically: while the    *)
(* fill closure runs, its content is Torn.                                 *)
(***************************************************************************)
EXTENDS Naturals, Sequences

CONSTANTS
    Capacity,     \* number of slots; a power of two, so that  & mask  is  % Capacity
    CounterMod,   \* the counters are unsigned words: 2^64 in the code
    Values,       \* the messages
    Torn,         \* the content of a slot that is not a message
    MaxSent       \* bound on the number of messages, for model checking

(* The two requirements SpscRing::new states for the capacity: it divides  *)
(* the counters' range (both are powers of two) and it is at most half of  *)
(* it.                                                                     *)
ASSUME RingAssumption ==
    /\ Capacity \in Nat \ {0}
    /\ CounterMod \in Nat
    /\ 2 * Capacity <= CounterMod
    /\ CounterMod % Capacity = 0
    /\ Torn \notin Values

VARIABLES
    head, tail,   \* the two counters in the mapped region
    slots,        \* content of every slot
    pPc,          \* where the producer is in Region::push
    msg,          \* the message the producer is pushing
    tailSeen,     \* the latest value of tail the producer has loaded
    cPc,          \* where the consumer is in Region::pop
    val,          \* what the consume closure has copied out of the slot
    headSeen,     \* the latest value of head the consumer has loaded
    lastLen,      \* the latest result of len(), as <<thread, length>>
    sent, got     \* history: messages committed, messages released

vars == <<head, tail, slots, pPc, msg, tailSeen, cPc, val, headSeen, lastLen, sent, got>>

Slot == 0 .. Capacity - 1
Counter == 0 .. CounterMod - 1

(* u64 arithmetic, wrapping.                                               *)
WrappingAdd1(c) == (c + 1) % CounterMod
WrappingSub(a, b) == (a + CounterMod - b) % CounterMod

(* c & mask                                                                *)
Index(c) == c % Capacity

Init ==
    /\ head = 0 /\ tail = 0
    /\ slots = [i \in Slot |-> Torn]
    /\ pPc = "idle" /\ msg = Torn /\ tailSeen = 0
    /\ cPc = "idle" /\ val = Torn /\ headSeen = 0
    /\ lastLen = <<"none", 0>>
    /\ sent = <<>> /\ got = <<>>

(* The values an atomic load may return to a thread that has already seen  *)
(* the value seen of a counter that now holds current.                     *)
Loads(seen, current) ==
    {c \in Counter : WrappingSub(c, seen) <= WrappingSub(current, seen)}

-----------------------------------------------------------------------------
(* The producer: Region::push                                              *)

(* Mutant: off by one, a full ring takes one more message.                 *)
RingFullOffByOne(h, t) == WrappingSub(h, t) > Capacity

(* SpscRing::try_push answers None when the ring is full.                  *)
RingFull(h, t) == WrappingSub(h, t) = Capacity

(* Mutant: the slot is touched before the ring is known to have room.      *)
TryPushWritesFirst(v) ==
    /\ pPc = "idle"
    /\ Len(sent) < MaxSent
    /\ tailSeen' \in Loads(tailSeen, tail)
    /\ slots' = [slots EXCEPT ![Index(head)] = Torn]
    /\ IF RingFull(head, tailSeen')
         THEN UNCHANGED <<pPc, msg>>
         ELSE pPc' = "filling" /\ msg' = v
    /\ UNCHANGED <<head, tail, cPc, val, headSeen, lastLen, sent, got>>

(* Region::push, up to the call of the fill closure: try_push loads both   *)
(* counters; when the ring is not full the closure starts on the slot.     *)
TryPush(v) ==
    /\ pPc = "idle"
    /\ Len(sent) < MaxSent
    /\ tailSeen' \in Loads(tailSeen, tail)
    /\ IF RingFull(head, tailSeen')
         THEN UNCHANGED <<pPc, msg, slots>>
         ELSE /\ pPc' = "filling"
              /\ msg' = v
              /\ slots' = [slots EXCEPT ![Index(head)] = Torn]
    /\ UNCHANGED <<head, tail, cPc, val, headSeen, lastLen, sent, got>>

(* The fill closure succeeds: the slot holds the message.                  *)
Fill ==
    /\ pPc = "filling"
    /\ pPc' = "filled"
    /\ slots' = [slots EXCEPT ![Index(head)] = msg]
    /\ UNCHANGED <<head, tail, msg, tailSeen, cPc, val, headSeen, lastLen, sent, got>>

(* Mutant: a failed fill is committed.                                     *)
FillFailsCommits ==
    /\ pPc = "filling"
    /\ pPc' = "idle"
    /\ head' = WrappingAdd1(head)
    /\ UNCHANGED <<tail, slots, msg, tailSeen, cPc, val, headSeen, lastLen, sent, got>>

(* The fill closure fails: push returns its error and commits nothing.     *)
FillFails ==
    /\ pPc = "filling"
    /\ pPc' = "idle"
    /\ UNCHANGED <<head, tail, slots, msg, tailSeen, cPc, val, headSeen, lastLen, sent, got>>

(* SpscRing::commit_push publishes the slot.                               *)
CommitPush ==
    /\ pPc = "filled"
    /\ pPc' = "idle"
    /\ head' = WrappingAdd1(head)
    /\ sent' = Append(sent, msg)
    /\ UNCHANGED <<tail, slots, msg, tailSeen, cPc, val, headSeen, lastLen, got>>

(* len, is_empty and is_full called by the producer.                       *)
ProducerLen ==
    /\ pPc = "idle"
    /\ tailSeen' \in Loads(tailSeen, tail)
    /\ lastLen' = <<"producer", WrappingSub(head, tailSeen')>>
    /\ UNCHANGED <<head, tail, slots, pPc, msg, cPc, val, headSeen, sent, got>>

-----------------------------------------------------------------------------
(* The consumer: Region::pop                                               *)

(* Mutant: the ring is not checked for emptiness.                          *)
TryPopUnchecked ==
    /\ cPc = "idle"
    /\ headSeen' \in Loads(headSeen, head)
    /\ cPc' = "reading"
    /\ UNCHANGED <<head, tail, slots, pPc, msg, tailSeen, val, lastLen, sent, got>>

(* Mutant: off by one, the last message is taken for an empty ring.        *)
TryPopKeepsOne ==
    /\ cPc = "idle"
    /\ headSeen' \in Loads(headSeen, head)
    /\ cPc' = IF WrappingSub(headSeen', tail) <= 1 THEN "idle" ELSE "reading"
    /\ UNCHANGED <<head, tail, slots, pPc, msg, tailSeen, val, lastLen, sent, got>>

(* Region::pop, up to the call of the consume closure: try_pop.            *)
TryPop ==
    /\ cPc = "idle"
    /\ headSeen' \in Loads(headSeen, head)
    /\ cPc' = IF tail = headSeen' THEN "idle" ELSE "reading"
    /\ UNCHANGED <<head, tail, slots, pPc, msg, tailSeen, val, lastLen, sent, got>>

(* The consume closure reads the slot.                                     *)
Consume ==
    /\ cPc = "reading"
    /\ cPc' = "read"
    /\ val' = slots[Index(tail)]
    /\ UNCHANGED <<head, tail, slots, pPc, msg, tailSeen, headSeen, lastLen, sent, got>>

(* SpscRing::commit_pop gives the slot back.                               *)
CommitPop ==
    /\ cPc = "read"
    /\ cPc' = "idle"
    /\ tail' = WrappingAdd1(tail)
    /\ got' = Append(got, val)
    /\ UNCHANGED <<head, slots, pPc, msg, tailSeen, val, headSeen, lastLen, sent>>

(* Mutant: the counters are subtracted the wrong way round.                *)
ConsumerLenSwapped ==
    /\ cPc = "idle"
    /\ headSeen' \in Loads(headSeen, head)
    /\ lastLen' = <<"consumer", WrappingSub(tail, headSeen')>>
    /\ UNCHANGED <<head, tail, slots, pPc, msg, tailSeen, cPc, val, sent, got>>

(* len, is_empty and is_full called by the consumer.                       *)
ConsumerLen ==
    /\ cPc = "idle"
    /\ headSeen' \in Loads(headSeen, head)
    /\ lastLen' = <<"consumer", WrappingSub(headSeen', tail)>>
    /\ UNCHANGED <<head, tail, slots, pPc, msg, tailSeen, cPc, val, sent, got>>

-----------------------------------------------------------------------------
Next ==
    \/ \E v \in Values : TryPush(v)
    \/ Fill \/ FillFails \/ CommitPush \/ ProducerLen
    \/ TryPop \/ Consume \/ CommitPop \/ ConsumerLen

Spec == Init /\ [][Next]_vars

(* Both threads keep running, and a store becomes visible to the other     *)
(* thread in finite time: a thread that loads a counter again and again    *)
(* does not read the same stale value for ever.                            *)
FreshPop == TryPop /\ headSeen' = head
Fairness ==
    /\ SF_vars(FreshPop) /\ WF_vars(Consume) /\ WF_vars(CommitPop)

FairSpec == Spec /\ Fairness

-----------------------------------------------------------------------------
(* Properties                                                              *)

(* The types of the counters, slots, program counters, views and history.  *)
TypeOK ==
    /\ head \in Counter /\ tail \in Counter
    /\ slots \in [Slot -> Values \cup {Torn}]
    /\ pPc \in {"idle", "filling", "filled"}
    /\ msg \in Values \cup {Torn}
    /\ tailSeen \in Counter
    /\ cPc \in {"idle", "reading", "read"}
    /\ val \in Values \cup {Torn}
    /\ headSeen \in Counter
    /\ lastLen \in {"none", "producer", "consumer"} \X Counter
    /\ sent \in Seq(Values)
    /\ got \in Seq(Values \cup {Torn})

(* try_push and try_pop never hand the same slot to both threads at once:  *)
(* while the fill closure writes a slot the consume closure is not reading *)
(* it, although each thread decided on a possibly stale counter.           *)
NoSlotRace == ~(pPc = "filling" /\ cPc = "reading" /\ Index(head) = Index(tail))

(* len(), called by either of the two threads, is a number of slots: the   *)
(* wrapping subtraction of two counters read one after the other does not  *)
(* underflow to a huge length.                                             *)
LenWithinCapacity == lastLen[2] <= Capacity

(* Every slot between the two counters holds the message that was          *)
(* committed there, whatever the producer has written since: a failed fill *)
(* or a wrap-around never damages an unread message.                       *)
UnreadIntact ==
    \A n \in Len(got) .. Len(sent) - 1 : slots[Index(n)] = sent[n + 1]

(* The ring implements the abstract queue: commit_push is its Enqueue,     *)
(* commit_pop its Dequeue, everything else is invisible.                   *)
Fifo == INSTANCE BoundedFifo WITH
          Capacity <- Capacity, Values <- Values, sent <- sent, got <- got
ImplementsFifo == Fifo!Spec

(* Every message the producer commits reaches the consumer, once both      *)
(* threads keep running.                                                   *)
EveryMessageDelivered ==
    \A n \in 1 .. MaxSent : (Len(sent) >= n) ~> (Len(got) >= n)

-----------------------------------------------------------------------------
(* The inductive invariant behind these properties.                        *)

(* The counters are the numbers of commits, truncated to the word.         *)
CountersInv ==
    /\ head = Len(sent) % CounterMod
    /\ tail = Len(got) % CounterMod
    /\ Len(got) <= Len(sent)
    /\ Len(sent) - Len(got) <= Capacity

(* The producer's view of tail lags behind tail, never by more than the    *)
(* ring; it is behind head by less than the ring once a slot is claimed.   *)
ProducerViewInv ==
    /\ WrappingSub(head, tailSeen) = WrappingSub(head, tail) + WrappingSub(tail, tailSeen)
    /\ WrappingSub(head, tailSeen) <= Capacity
    /\ pPc \in {"filling", "filled"} => WrappingSub(head, tailSeen) < Capacity

(* The consumer's view of head lies between tail and head, beyond tail     *)
(* once a slot is claimed.                                                 *)
ConsumerViewInv ==
    /\ WrappingSub(head, tail) = WrappingSub(head, headSeen) + WrappingSub(headSeen, tail)
    /\ cPc \in {"reading", "read"} => headSeen # tail

(* What each thread carries from one of its steps to the next.             *)
CarriedInv ==
    /\ pPc \in {"filling", "filled"} => msg \in Values
    /\ pPc = "filled" => slots[Index(head)] = msg
    /\ cPc = "read" => val = sent[Len(got) + 1]

(* The consumer has taken exactly what was published, in order.            *)
GotInv == \A i \in 1 .. Len(got) : got[i] = sent[i]

(* The conjunction that every step of the ring preserves.                  *)
RingInv ==
    /\ TypeOK /\ CountersInv /\ ProducerViewInv /\ ConsumerViewInv
    /\ UnreadIntact /\ CarriedInv /\ GotInv
    /\ LenWithinCapacity
=============================================================================
