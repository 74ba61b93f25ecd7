--------------------------- MODULE SpscRingProofs ---------------------------
(***************************************************************************)
(* The ring is correct for every capacity, word size and set of messages.  *)
(*                                                                         *)
(* The wrapping operators are first reduced to linear arithmetic; the      *)
(* inductive invariant RingInv is then shown step by step, and the safety  *)
(* properties and the refinement of BoundedFifo follow from it.            *)
(***************************************************************************)
EXTENDS SpscRing, ModularArithmetic

-----------------------------------------------------------------------------
(* Linear forms of the wrapping operators                                  *)

(* The constants are what the other proofs need of RingAssumption.         *)
LEMMA Constants ==
    /\ Capacity \in Nat \ {0} /\ CounterMod \in Nat \ {0}
    /\ 2 * Capacity <= CounterMod /\ Capacity < CounterMod
    /\ 0 \in Counter /\ 0 \in Slot
  BY RingAssumption DEF Counter, Slot

(* wrapping_sub of two counters is the difference, plus the word size when *)
(* it would be negative.                                                   *)
LEMMA WrappingSubLinear ==
    ASSUME NEW a \in Counter, NEW b \in Counter
    PROVE  WrappingSub(a, b) = IF a >= b THEN a - b ELSE a - b + CounterMod
  <1> DEFINE x == a + CounterMod - b
  <1>0. a \in 0 .. CounterMod - 1 /\ b \in 0 .. CounterMod - 1
        /\ CounterMod \in Nat \ {0}
    BY Constants DEF Counter
  <1>1. x \in Nat
    BY <1>0
  <1>2. CASE a >= b
    <2>1. x = CounterMod * 1 + (a - b) /\ a - b \in 0 .. CounterMod - 1 /\ 1 \in Nat
      BY <1>0, <1>2
    <2>2. x % CounterMod = a - b
      BY ONLY <2>1, <1>0, <1>1, ModUnique
    <2> QED BY <2>2, <1>2 DEF WrappingSub
  <1>3. CASE ~(a >= b)
    <2>1. x = CounterMod * 0 + x /\ x \in 0 .. CounterMod - 1 /\ 0 \in Nat
      BY <1>0, <1>3
    <2>2. x % CounterMod = x
      BY ONLY <2>1, <1>0, <1>1, ModUnique
    <2> QED BY <2>2, <1>3, <1>0 DEF WrappingSub
  <1> QED BY <1>2, <1>3

(* wrapping_add(1) of a counter.                                           *)
LEMMA WrappingAddLinear ==
    ASSUME NEW a \in Counter
    PROVE  /\ WrappingAdd1(a) \in Counter
           /\ WrappingAdd1(a) = IF a = CounterMod - 1 THEN 0 ELSE a + 1
  <1>0. a \in Nat /\ a \in 0 .. CounterMod - 1 /\ CounterMod \in Nat \ {0}
    BY Constants DEF Counter
  <1>1. a = CounterMod * 0 + a /\ 0 \in Nat
    BY <1>0
  <1>2. a % CounterMod = a
    BY ONLY <1>0, <1>1, ModUnique
  <1>3. (a + 1) % CounterMod
          = IF a % CounterMod = CounterMod - 1 THEN 0 ELSE (a % CounterMod) + 1
    BY ONLY <1>0, ModSucc
  <1> QED BY <1>0, <1>2, <1>3 DEF WrappingAdd1, Counter

(* A counter that has been incremented n times from zero, and the slot it  *)
(* designates.                                                             *)
LEMMA CounterOf ==
    ASSUME NEW n \in Nat
    PROVE  /\ n % CounterMod \in Counter
           /\ WrappingAdd1(n % CounterMod) = (n + 1) % CounterMod
           /\ Index(n % CounterMod) = Index(n)
           /\ Index(n) \in Slot
  <1>0. CounterMod \in Nat \ {0} /\ Capacity \in Nat \ {0} /\ CounterMod % Capacity = 0
    BY Constants, RingAssumption
  <1>1. n % CounterMod \in Counter
    BY <1>0, DivMod DEF Counter
  <1>2. WrappingAdd1(n % CounterMod) = (n + 1) % CounterMod
    <2>1. (n + 1) % CounterMod
            = IF n % CounterMod = CounterMod - 1 THEN 0 ELSE (n % CounterMod) + 1
      BY ONLY <1>0, ModSucc
    <2> QED BY <1>1, <2>1, WrappingAddLinear
  <1>3. Index(n % CounterMod) = Index(n)
    BY ONLY <1>0, NestedMod DEF Index
  <1>4. Index(n) \in Slot
    BY <1>0, DivMod DEF Index, Slot
  <1> QED BY <1>1, <1>2, <1>3, <1>4

(* The distance of two counters is the difference of the numbers of        *)
(* increments as long as that fits the ring.                               *)
LEMMA Distance ==
    ASSUME NEW m \in Nat, NEW n \in Nat, m <= n, n - m <= Capacity
    PROVE  WrappingSub(n % CounterMod, m % CounterMod) = n - m
  <1>0. CounterMod \in Nat \ {0} /\ Capacity < CounterMod /\ Capacity \in Nat
    BY Constants
  <1>1. n - m \in 0 .. CounterMod - 1 /\ n = m + (n - m)
    BY <1>0
  <1>2. n % CounterMod = IF (m % CounterMod) + (n - m) < CounterMod
                           THEN (m % CounterMod) + (n - m)
                           ELSE (m % CounterMod) + (n - m) - CounterMod
    BY <1>0, <1>1, ModAdd
  <1>3. m % CounterMod \in Counter /\ n % CounterMod \in Counter
    BY CounterOf
  <1>4. m % CounterMod \in 0 .. CounterMod - 1
    BY <1>3 DEF Counter
  <1> HIDE DEF Counter
  <1>5. WrappingSub(n % CounterMod, m % CounterMod)
          = IF n % CounterMod >= m % CounterMod
              THEN (n % CounterMod) - (m % CounterMod)
              ELSE (n % CounterMod) - (m % CounterMod) + CounterMod
    BY <1>3, WrappingSubLinear
  <1> QED BY <1>0, <1>1, <1>2, <1>4, <1>5

(* The range of a distance, and when it is zero.                           *)
LEMMA DistanceRange ==
    ASSUME NEW a \in Counter, NEW b \in Counter
    PROVE  WrappingSub(a, b) \in 0 .. CounterMod - 1 /\ (WrappingSub(a, b) = 0 <=> a = b)
  <1>1. a \in 0 .. CounterMod - 1 /\ b \in 0 .. CounterMod - 1 /\ CounterMod \in Nat
    BY Constants DEF Counter
  <1> QED BY <1>1, WrappingSubLinear

(* Incrementing the leading counter, or the trailing one, changes their    *)
(* distance by one.                                                        *)
LEMMA IncrementLeading ==
    ASSUME NEW a \in Counter, NEW b \in Counter, WrappingSub(a, b) < CounterMod - 1
    PROVE  WrappingSub(WrappingAdd1(a), b) = WrappingSub(a, b) + 1
  <1>1. a \in 0 .. CounterMod - 1 /\ b \in 0 .. CounterMod - 1 /\ CounterMod \in Nat
    BY Constants DEF Counter
  <1>2. WrappingAdd1(a) \in Counter /\ WrappingAdd1(a) = IF a = CounterMod - 1 THEN 0 ELSE a + 1
    BY WrappingAddLinear
  <1>3. WrappingSub(a, b) = IF a >= b THEN a - b ELSE a - b + CounterMod
    BY WrappingSubLinear
  <1>4. WrappingSub(WrappingAdd1(a), b)
          = IF WrappingAdd1(a) >= b THEN WrappingAdd1(a) - b ELSE WrappingAdd1(a) - b + CounterMod
    BY <1>2, WrappingSubLinear
  <1> QED BY <1>1, <1>2, <1>3, <1>4

(* And when the counter behind moves, the difference shrinks by one.       *)
LEMMA IncrementTrailing ==
    ASSUME NEW a \in Counter, NEW b \in Counter, a # b
    PROVE  WrappingSub(a, WrappingAdd1(b)) = WrappingSub(a, b) - 1
  <1>1. a \in 0 .. CounterMod - 1 /\ b \in 0 .. CounterMod - 1 /\ CounterMod \in Nat
    BY Constants DEF Counter
  <1>2. WrappingAdd1(b) \in Counter /\ WrappingAdd1(b) = IF b = CounterMod - 1 THEN 0 ELSE b + 1
    BY WrappingAddLinear
  <1>3. WrappingSub(a, b) = IF a >= b THEN a - b ELSE a - b + CounterMod
    BY WrappingSubLinear
  <1>4. WrappingSub(a, WrappingAdd1(b))
          = IF a >= WrappingAdd1(b) THEN a - WrappingAdd1(b) ELSE a - WrappingAdd1(b) + CounterMod
    BY <1>2, WrappingSubLinear
  <1> QED BY <1>1, <1>2, <1>3, <1>4

(* A load that is not older than the last one keeps a view between the     *)
(* trailing and the leading end: the producer's view of tail ...           *)
LEMMA AdvanceTailView ==
    ASSUME NEW h \in Counter, NEW t \in Counter, NEW seen \in Counter,
           WrappingSub(h, seen) = WrappingSub(h, t) + WrappingSub(t, seen),
           NEW c \in Loads(seen, t)
    PROVE  /\ c \in Counter
           /\ WrappingSub(h, c) = WrappingSub(h, t) + WrappingSub(t, c)
           /\ WrappingSub(h, c) <= WrappingSub(h, seen)
  <1>1. c \in Counter /\ WrappingSub(c, seen) <= WrappingSub(t, seen)
    BY DEF Loads
  <1>2. CounterMod \in Nat /\ h \in 0 .. CounterMod - 1 /\ t \in 0 .. CounterMod - 1
        /\ seen \in 0 .. CounterMod - 1 /\ c \in 0 .. CounterMod - 1
    BY <1>1, Constants DEF Counter
  <1> QED BY <1>1, <1>2, WrappingSubLinear

(* ... and the consumer's view of head.                                    *)
LEMMA AdvanceHeadView ==
    ASSUME NEW h \in Counter, NEW t \in Counter, NEW seen \in Counter,
           WrappingSub(h, t) = WrappingSub(h, seen) + WrappingSub(seen, t),
           NEW c \in Loads(seen, h)
    PROVE  /\ c \in Counter
           /\ WrappingSub(h, t) = WrappingSub(h, c) + WrappingSub(c, t)
  <1>1. c \in Counter /\ WrappingSub(c, seen) <= WrappingSub(h, seen)
    BY DEF Loads
  <1>2. CounterMod \in Nat /\ h \in 0 .. CounterMod - 1 /\ t \in 0 .. CounterMod - 1
        /\ seen \in 0 .. CounterMod - 1 /\ c \in 0 .. CounterMod - 1
    BY <1>1, Constants DEF Counter
  <1> QED BY <1>1, <1>2, WrappingSubLinear

-----------------------------------------------------------------------------
(* The inductive invariant                                                 *)

(* What RingInv says about the occupied part of the ring.                  *)
LEMMA Occupancy ==
    ASSUME RingInv
    PROVE  /\ Len(sent) \in Nat /\ Len(got) \in Nat
           /\ WrappingSub(head, tail) = Len(sent) - Len(got)
           /\ Index(head) = Index(Len(sent)) /\ Index(head) \in Slot
           /\ Index(tail) = Index(Len(got)) /\ Index(tail) \in Slot
  <1>1. Len(sent) \in Nat /\ Len(got) \in Nat
    BY DEF RingInv, TypeOK
  <1>2. WrappingSub(head, tail) = Len(sent) - Len(got)
    BY <1>1, Distance DEF RingInv, CountersInv
  <1>3. Index(head) = Index(Len(sent)) /\ Index(head) \in Slot
    BY <1>1, CounterOf DEF RingInv, CountersInv
  <1>4. Index(tail) = Index(Len(got)) /\ Index(tail) \in Slot
    BY <1>1, CounterOf DEF RingInv, CountersInv
  <1> QED BY <1>1, <1>2, <1>3, <1>4

(* A claimed slot holds no unread message: the producer's next slot is     *)
(* distinct from every slot between the counters.                          *)
LEMMA ClaimedSlotIsFree ==
    ASSUME RingInv, WrappingSub(head, tailSeen) < Capacity
    PROVE  /\ Len(sent) - Len(got) < Capacity
           /\ \A n \in Len(got) .. Len(sent) - 1 : Index(n) # Index(head)
  <1>1. head \in Counter /\ tail \in Counter /\ tailSeen \in Counter
    BY DEF RingInv, TypeOK
  <1>2. WrappingSub(tail, tailSeen) \in Nat
    BY <1>1, DistanceRange, Constants
  <1>3. WrappingSub(head, tail) = Len(sent) - Len(got) /\ Len(sent) \in Nat /\ Len(got) \in Nat
    BY Occupancy
  <1>4. Len(sent) - Len(got) < Capacity
    BY <1>2, <1>3, Constants DEF RingInv, ProducerViewInv
  <1>5. ASSUME NEW n \in Len(got) .. Len(sent) - 1 PROVE Index(n) # Index(head)
    <2>1. n \in Nat /\ n < Len(sent) /\ Len(sent) - n < Capacity /\ Capacity \in Nat \ {0}
      BY <1>3, <1>4, <1>5, Constants
    <2>2. n % Capacity # Len(sent) % Capacity
      BY ONLY <2>1, <1>3, ModDistinct
    <2>3. Index(head) = Index(Len(sent))
      BY Occupancy
    <2> QED BY <2>2, <2>3 DEF Index
  <1> QED BY <1>4, <1>5

(* The ring starts in the invariant.                                       *)
LEMMA InitInv == Init => RingInv
  <1> SUFFICES ASSUME Init PROVE RingInv
    OBVIOUS
  <1> USE DEF Init
  <1>1. TypeOK
    BY Constants DEF TypeOK
  <1>2. 0 % CounterMod = 0
    BY Constants
  <1>3. WrappingSub(0, 0) = 0
    BY Constants, DistanceRange
  <1>4. CountersInv
    BY <1>2, Constants DEF CountersInv
  <1>5. ProducerViewInv /\ ConsumerViewInv
    BY <1>3, Constants DEF ProducerViewInv, ConsumerViewInv
  <1>6. UnreadIntact /\ CarriedInv /\ GotInv /\ LenWithinCapacity
    BY Constants DEF UnreadIntact, CarriedInv, GotInv, LenWithinCapacity
  <1> QED BY <1>1, <1>4, <1>5, <1>6 DEF RingInv

(* Every step of the producer preserves the invariant.                     *)
LEMMA ProducerInv ==
    ASSUME RingInv,
           (\E v \in Values : TryPush(v)) \/ Fill \/ FillFails \/ CommitPush \/ ProducerLen
    PROVE  RingInv'
  <1>0. /\ TypeOK /\ CountersInv /\ ProducerViewInv /\ ConsumerViewInv
        /\ UnreadIntact /\ CarriedInv /\ GotInv /\ LenWithinCapacity
    BY DEF RingInv
  <1>a. head \in Counter /\ tail \in Counter /\ tailSeen \in Counter /\ headSeen \in Counter
    BY <1>0 DEF TypeOK
  <1>b. /\ Len(sent) \in Nat /\ Len(got) \in Nat
        /\ WrappingSub(head, tail) = Len(sent) - Len(got)
        /\ Index(head) = Index(Len(sent)) /\ Index(head) \in Slot
    BY Occupancy
  <1>1. ASSUME NEW v \in Values, TryPush(v) PROVE RingInv'
    <2>1. PICK c \in Loads(tailSeen, tail) : tailSeen' = c
      BY <1>1 DEF TryPush
    <2>2. /\ c \in Counter
          /\ WrappingSub(head, c) = WrappingSub(head, tail) + WrappingSub(tail, c)
          /\ WrappingSub(head, c) <= WrappingSub(head, tailSeen)
      BY <1>0, <1>a, AdvanceTailView DEF ProducerViewInv
    <2>3. WrappingSub(head, c) \in Nat /\ WrappingSub(head, tailSeen) \in Nat
      BY <2>2, <1>a, DistanceRange, Constants
    <2>4. WrappingSub(head, c) <= Capacity
      BY <1>0, <2>2, <2>3, Constants DEF ProducerViewInv
    <2>5. CASE RingFull(head, c)
      <3>1. UNCHANGED <<head, tail, slots, pPc, msg, cPc, val, headSeen, lastLen, sent, got>>
        BY <1>1, <2>1, <2>5 DEF TryPush
      <3>2. pPc' = "idle"
        BY <1>1, <3>1 DEF TryPush
      <3>3. TypeOK'
        BY <1>0, <2>1, <2>2, <3>1 DEF TypeOK
      <3>4. ProducerViewInv'
        BY <1>0, <2>1, <2>2, <2>4, <3>1, <3>2 DEF ProducerViewInv, WrappingSub
      <3>5. (CountersInv /\ ConsumerViewInv /\ UnreadIntact /\ CarriedInv /\ GotInv
             /\ LenWithinCapacity)'
        BY <1>0, <3>1 DEF CountersInv, ConsumerViewInv, UnreadIntact, CarriedInv, GotInv,
                          LenWithinCapacity, WrappingSub, Index
      <3> QED BY <3>3, <3>4, <3>5 DEF RingInv
    <2>6. CASE ~RingFull(head, c)
      <3>1. /\ pPc' = "filling" /\ msg' = v
            /\ slots' = [slots EXCEPT ![Index(head)] = Torn]
            /\ UNCHANGED <<head, tail, cPc, val, headSeen, lastLen, sent, got>>
        BY <1>1, <2>1, <2>6 DEF TryPush
      <3>2. WrappingSub(head, c) < Capacity
        BY <2>3, <2>4, <2>6, Constants DEF RingFull
      <3>3. TypeOK'
        BY <1>0, <1>1, <2>1, <2>2, <3>1 DEF TypeOK
      <3>4. ProducerViewInv'
        BY <1>0, <2>1, <2>2, <2>4, <3>1, <3>2 DEF ProducerViewInv, WrappingSub
      <3>5. (CountersInv /\ ConsumerViewInv /\ GotInv /\ LenWithinCapacity)'
        BY <1>0, <3>1 DEF CountersInv, ConsumerViewInv, GotInv, LenWithinCapacity, WrappingSub
      <3>6. CarriedInv'
        BY <1>0, <1>1, <3>1 DEF CarriedInv
      <3>7. UnreadIntact'
        <4>1. WrappingSub(tail, c) \in Nat
          BY <2>2, <1>a, DistanceRange, Constants
        <4>2. Len(sent) - Len(got) < Capacity
          BY <1>b, <2>2, <3>2, <4>1, Constants
        <4> SUFFICES ASSUME NEW n \in Len(got) .. Len(sent) - 1
                     PROVE  slots'[Index(n)] = sent[n + 1]
          BY <3>1 DEF UnreadIntact, Index
        <4>3. n \in Nat /\ n < Len(sent) /\ Len(sent) - n < Capacity /\ Capacity \in Nat \ {0}
          BY <1>b, <4>2, Constants
        <4>4. Index(n) # Index(head)
          BY <1>b, <4>3, ModDistinct DEF Index
        <4>5. Index(n) \in Slot
          BY <4>3, CounterOf
        <4> QED BY <1>0, <3>1, <4>4, <4>5 DEF UnreadIntact, TypeOK
      <3> QED BY <3>3, <3>4, <3>5, <3>6, <3>7 DEF RingInv
    <2> QED BY <2>5, <2>6
  <1>2. CASE Fill
    <2>1. /\ pPc = "filling" /\ pPc' = "filled" /\ slots' = [slots EXCEPT ![Index(head)] = msg]
          /\ UNCHANGED <<head, tail, msg, tailSeen, cPc, val, headSeen, lastLen, sent, got>>
      BY <1>2 DEF Fill
    <2>2. msg \in Values
      BY <1>0, <2>1 DEF CarriedInv
    <2>3. TypeOK'
      BY <1>0, <2>1, <2>2 DEF TypeOK
    <2>4. (CountersInv /\ ConsumerViewInv /\ ProducerViewInv /\ GotInv /\ LenWithinCapacity)'
      BY <1>0, <2>1 DEF CountersInv, ConsumerViewInv, ProducerViewInv, GotInv,
                        LenWithinCapacity, WrappingSub
    <2>5. CarriedInv'
      BY <1>0, <1>b, <2>1, <2>2 DEF CarriedInv, TypeOK, Index
    <2>6. UnreadIntact'
      <3>1. WrappingSub(head, tailSeen) < Capacity
        BY <1>0, <2>1 DEF ProducerViewInv
      <3>2. \A n \in Len(got) .. Len(sent) - 1 : Index(n) # Index(head)
        BY <3>1, ClaimedSlotIsFree
      <3> SUFFICES ASSUME NEW n \in Len(got) .. Len(sent) - 1
                   PROVE  slots'[Index(n)] = sent[n + 1]
        BY <2>1 DEF UnreadIntact, Index
      <3>3. n \in Nat
        BY <1>b
      <3>4. Index(n) \in Slot
        BY <3>3, CounterOf
      <3> QED BY <1>0, <2>1, <3>2, <3>4 DEF UnreadIntact, TypeOK
    <2> QED BY <2>3, <2>4, <2>5, <2>6 DEF RingInv
  <1>3. CASE FillFails
    <2>1. /\ pPc' = "idle"
          /\ UNCHANGED <<head, tail, slots, msg, tailSeen, cPc, val, headSeen, lastLen, sent, got>>
      BY <1>3 DEF FillFails
    <2>2. TypeOK'
      BY <1>0, <2>1 DEF TypeOK
    <2> QED BY <1>0, <2>1, <2>2
      DEF RingInv, CountersInv, ProducerViewInv, ConsumerViewInv, UnreadIntact, CarriedInv, GotInv,
          LenWithinCapacity, WrappingSub, Index
  <1>4. CASE CommitPush
    <2>1. /\ pPc = "filled" /\ pPc' = "idle" /\ head' = WrappingAdd1(head)
          /\ sent' = Append(sent, msg)
          /\ UNCHANGED <<tail, slots, msg, tailSeen, cPc, val, headSeen, lastLen, got>>
      BY <1>4 DEF CommitPush
    <2>2. msg \in Values /\ slots[Index(head)] = msg
      BY <1>0, <2>1 DEF CarriedInv
    <2>3. sent \in Seq(Values) /\ sent' \in Seq(Values) /\ Len(sent') = Len(sent) + 1
          /\ (\A i \in 1 .. Len(sent) : sent'[i] = sent[i]) /\ sent'[Len(sent) + 1] = msg
      BY <1>0, <2>1, <2>2 DEF TypeOK
    <2>4. WrappingSub(head, tailSeen) < Capacity
      BY <1>0, <2>1 DEF ProducerViewInv
    <2>5. Len(sent) - Len(got) < Capacity
      BY <2>4, ClaimedSlotIsFree
    <2>6. head' \in Counter
      BY <1>a, <2>1, WrappingAddLinear
    <2>7. TypeOK'
      BY <1>0, <2>1, <2>3, <2>6 DEF TypeOK
    <2>8. CountersInv'
      <3>1. head' = Len(sent') % CounterMod
        BY <1>0, <1>b, <2>1, <2>3, CounterOf DEF CountersInv
      <3> QED BY <1>0, <1>b, <2>1, <2>3, <2>5, <3>1, Constants DEF CountersInv
    <2>9. ProducerViewInv' /\ ConsumerViewInv'
      <3>1. /\ WrappingSub(head, tailSeen) \in Nat /\ WrappingSub(head, tail) \in Nat
            /\ WrappingSub(tail, tailSeen) \in Nat /\ WrappingSub(head, headSeen) \in Nat
            /\ WrappingSub(headSeen, tail) \in Nat
        BY <1>a, DistanceRange, Constants
      <3>2. /\ WrappingSub(head, tailSeen) < CounterMod - 1 /\ WrappingSub(head, tail) < CounterMod - 1
            /\ WrappingSub(head, headSeen) < CounterMod - 1
        BY <1>0, <2>4, <3>1, Constants DEF ProducerViewInv, ConsumerViewInv
      <3>3. /\ WrappingSub(head', tailSeen) = WrappingSub(head, tailSeen) + 1
            /\ WrappingSub(head', tail) = WrappingSub(head, tail) + 1
            /\ WrappingSub(head', headSeen) = WrappingSub(head, headSeen) + 1
        BY <1>a, <2>1, <3>2, IncrementLeading
      <3>4. /\ WrappingSub(head', tailSeen) = WrappingSub(head', tail) + WrappingSub(tail, tailSeen)
            /\ WrappingSub(head', tailSeen) <= Capacity
            /\ WrappingSub(head', tail) = WrappingSub(head', headSeen) + WrappingSub(headSeen, tail)
        BY <1>0, <2>4, <3>1, <3>3, Constants DEF ProducerViewInv, ConsumerViewInv
      <3>5. ProducerViewInv'
        BY <2>1, <3>4 DEF ProducerViewInv, WrappingSub
      <3>6. ConsumerViewInv'
        BY <1>0, <2>1, <3>4 DEF ConsumerViewInv, WrappingSub
      <3> QED BY <3>5, <3>6
    <2>10. UnreadIntact'
      <3> SUFFICES ASSUME NEW n \in Len(got) .. Len(sent)
                   PROVE  slots[Index(n)] = sent'[n + 1]
        BY <1>b, <2>1, <2>3 DEF UnreadIntact, Index
      <3>1. CASE n = Len(sent)
        BY <1>b, <2>2, <2>3, <3>1
      <3>2. CASE n # Len(sent)
        <4>1. n \in Len(got) .. Len(sent) - 1 /\ n + 1 \in 1 .. Len(sent)
          BY <1>b, <3>2
        <4> QED BY <1>0, <2>3, <4>1 DEF UnreadIntact
      <3> QED BY <3>1, <3>2
    <2>11. CarriedInv'
      <3>1. CASE cPc = "read"
        <4>1. headSeen # tail
          BY <1>0, <3>1 DEF ConsumerViewInv
        <4>2. Len(got) < Len(sent)
          <5>1. WrappingSub(headSeen, tail) \in 1 .. CounterMod - 1 /\ WrappingSub(head, headSeen) \in Nat
            BY <1>a, <4>1, DistanceRange, Constants
          <5> QED BY <1>0, <1>b, <5>1, Constants DEF ConsumerViewInv
        <4>3. Len(got) + 1 \in 1 .. Len(sent)
          BY <1>b, <4>2
        <4> QED BY <1>0, <2>1, <2>3, <3>1, <4>3 DEF CarriedInv
      <3>2. CASE cPc # "read"
        BY <2>1, <3>2 DEF CarriedInv
      <3> QED BY <3>1, <3>2
    <2>12. GotInv' /\ LenWithinCapacity'
      <3>1. \A i \in 1 .. Len(got) : i \in 1 .. Len(sent)
        BY <1>0, <1>b DEF CountersInv
      <3> QED BY <1>0, <2>1, <2>3, <3>1 DEF GotInv, LenWithinCapacity
    <2> QED BY <2>7, <2>8, <2>9, <2>10, <2>11, <2>12 DEF RingInv
  <1>5. CASE ProducerLen
    <2>1. PICK c \in Loads(tailSeen, tail) : tailSeen' = c
      BY <1>5 DEF ProducerLen
    <2>2. /\ lastLen' = <<"producer", WrappingSub(head, c)>> /\ pPc = "idle"
          /\ UNCHANGED <<head, tail, slots, pPc, msg, cPc, val, headSeen, sent, got>>
      BY <1>5, <2>1 DEF ProducerLen
    <2>3. /\ c \in Counter
          /\ WrappingSub(head, c) = WrappingSub(head, tail) + WrappingSub(tail, c)
          /\ WrappingSub(head, c) <= WrappingSub(head, tailSeen)
      BY <1>0, <1>a, AdvanceTailView DEF ProducerViewInv
    <2>4. WrappingSub(head, c) \in Counter /\ WrappingSub(head, tailSeen) \in Nat
      BY <2>3, <1>a, DistanceRange, Constants DEF Counter
    <2>5. WrappingSub(head, c) <= Capacity
      BY <1>0, <2>3, <2>4, Constants DEF ProducerViewInv, Counter
    <2>6. TypeOK'
      BY <1>0, <2>1, <2>2, <2>3, <2>4 DEF TypeOK
    <2>7. ProducerViewInv'
      BY <1>0, <2>1, <2>2, <2>3, <2>5 DEF ProducerViewInv, WrappingSub
    <2>8. (CountersInv /\ ConsumerViewInv /\ UnreadIntact /\ CarriedInv /\ GotInv)'
      BY <1>0, <2>2 DEF CountersInv, ConsumerViewInv, UnreadIntact, CarriedInv, GotInv,
                        WrappingSub, Index
    <2>9. LenWithinCapacity'
      BY <2>2, <2>5 DEF LenWithinCapacity
    <2> QED BY <2>6, <2>7, <2>8, <2>9 DEF RingInv
  <1> QED BY <1>1, <1>2, <1>3, <1>4, <1>5

(* Every step of the consumer preserves the invariant.                     *)
LEMMA ConsumerInv ==
    ASSUME RingInv, TryPop \/ Consume \/ CommitPop \/ ConsumerLen
    PROVE  RingInv'
  <1>0. /\ TypeOK /\ CountersInv /\ ProducerViewInv /\ ConsumerViewInv
        /\ UnreadIntact /\ CarriedInv /\ GotInv /\ LenWithinCapacity
    BY DEF RingInv
  <1>a. head \in Counter /\ tail \in Counter /\ tailSeen \in Counter /\ headSeen \in Counter
    BY <1>0 DEF TypeOK
  <1>b. /\ Len(sent) \in Nat /\ Len(got) \in Nat
        /\ WrappingSub(head, tail) = Len(sent) - Len(got)
        /\ Index(tail) = Index(Len(got)) /\ Index(tail) \in Slot
    BY Occupancy
  <1>c. /\ WrappingSub(head, tail) \in Nat /\ WrappingSub(head, headSeen) \in Nat
        /\ WrappingSub(headSeen, tail) \in Nat /\ WrappingSub(tail, tailSeen) \in Nat
        /\ WrappingSub(head, tailSeen) \in Nat
    BY <1>a, DistanceRange, Constants
  <1>d. cPc \in {"reading", "read"} => head # tail /\ Len(got) < Len(sent)
    <2> SUFFICES ASSUME cPc \in {"reading", "read"} PROVE head # tail /\ Len(got) < Len(sent)
      OBVIOUS
    <2>1. headSeen # tail
      BY <1>0 DEF ConsumerViewInv
    <2>2. WrappingSub(headSeen, tail) # 0
      BY <1>a, <2>1, DistanceRange
    <2>3. WrappingSub(head, tail) # 0
      BY <1>0, <1>c, <2>2 DEF ConsumerViewInv
    <2> QED BY <1>a, <1>b, <1>c, <2>3, DistanceRange
  <1>1. CASE TryPop
    <2>1. PICK c \in Loads(headSeen, head) : headSeen' = c
      BY <1>1 DEF TryPop
    <2>2. /\ cPc' = IF tail = c THEN "idle" ELSE "reading"
          /\ cPc = "idle"
          /\ UNCHANGED <<head, tail, slots, pPc, msg, tailSeen, val, lastLen, sent, got>>
      BY <1>1, <2>1 DEF TryPop
    <2>3. c \in Counter /\ WrappingSub(head, tail) = WrappingSub(head, c) + WrappingSub(c, tail)
      BY <1>0, <1>a, AdvanceHeadView DEF ConsumerViewInv
    <2>4. TypeOK'
      BY <1>0, <2>1, <2>2, <2>3 DEF TypeOK
    <2>5. ConsumerViewInv'
      BY <2>1, <2>2, <2>3 DEF ConsumerViewInv, WrappingSub
    <2>6. CarriedInv'
      BY <1>0, <2>2 DEF CarriedInv, Index
    <2>7. (CountersInv /\ ProducerViewInv /\ UnreadIntact /\ GotInv /\ LenWithinCapacity)'
      BY <1>0, <2>2 DEF CountersInv, ProducerViewInv, UnreadIntact, GotInv, LenWithinCapacity,
                        WrappingSub, Index
    <2> QED BY <2>4, <2>5, <2>6, <2>7 DEF RingInv
  <1>2. CASE Consume
    <2>1. /\ cPc = "reading" /\ cPc' = "read" /\ val' = slots[Index(tail)]
          /\ UNCHANGED <<head, tail, slots, pPc, msg, tailSeen, headSeen, lastLen, sent, got>>
      BY <1>2 DEF Consume
    <2>2. TypeOK'
      BY <1>0, <1>b, <2>1 DEF TypeOK
    <2>3. CarriedInv'
      <3>1. Len(got) \in Len(got) .. Len(sent) - 1
        BY <1>b, <1>d, <2>1
      <3>2. val' = sent[Len(got) + 1]
        BY <1>0, <1>b, <2>1, <3>1 DEF UnreadIntact
      <3> QED BY <1>0, <2>1, <3>2 DEF CarriedInv, Index
    <2>4. (CountersInv /\ ProducerViewInv /\ ConsumerViewInv /\ UnreadIntact /\ GotInv
           /\ LenWithinCapacity)'
      BY <1>0, <2>1 DEF CountersInv, ProducerViewInv, ConsumerViewInv, UnreadIntact, GotInv,
                        LenWithinCapacity, WrappingSub, Index
    <2> QED BY <2>2, <2>3, <2>4 DEF RingInv
  <1>3. CASE CommitPop
    <2>1. /\ cPc = "read" /\ cPc' = "idle" /\ tail' = WrappingAdd1(tail) /\ got' = Append(got, val)
          /\ UNCHANGED <<head, slots, pPc, msg, tailSeen, val, headSeen, lastLen, sent>>
      BY <1>3 DEF CommitPop
    <2>2. val = sent[Len(got) + 1] /\ Len(got) < Len(sent) /\ head # tail /\ headSeen # tail
      BY <1>0, <1>d, <2>1 DEF CarriedInv, ConsumerViewInv
    <2>3. /\ got' \in Seq(Values \cup {Torn}) /\ Len(got') = Len(got) + 1
          /\ (\A i \in 1 .. Len(got) : got'[i] = got[i]) /\ got'[Len(got) + 1] = val
      BY <1>0, <2>1 DEF TypeOK
    <2>4. tail' \in Counter
      BY <1>a, <2>1, WrappingAddLinear
    <2>5. TypeOK'
      BY <1>0, <2>1, <2>3, <2>4 DEF TypeOK
    <2>6. CountersInv'
      <3>1. tail' = Len(got') % CounterMod
        BY <1>0, <1>b, <2>1, <2>3, CounterOf DEF CountersInv
      <3> QED BY <1>0, <1>b, <2>1, <2>2, <2>3, <3>1, Constants DEF CountersInv
    <2>7. ProducerViewInv' /\ ConsumerViewInv'
      <3>0. WrappingSub(head, tail) # 0
        BY <1>a, <2>2, DistanceRange
      <3>1. WrappingSub(tail, tailSeen) < CounterMod - 1
        BY <1>0, <1>c, <3>0, Constants DEF ProducerViewInv
      <3>2. /\ WrappingSub(tail', tailSeen) = WrappingSub(tail, tailSeen) + 1
            /\ WrappingSub(head, tail') = WrappingSub(head, tail) - 1
            /\ WrappingSub(headSeen, tail') = WrappingSub(headSeen, tail) - 1
        BY <1>a, <2>1, <2>2, <3>1, IncrementLeading, IncrementTrailing
      <3>3. /\ WrappingSub(head, tailSeen) = WrappingSub(head, tail') + WrappingSub(tail', tailSeen)
            /\ WrappingSub(head, tail') = WrappingSub(head, headSeen) + WrappingSub(headSeen, tail')
        BY <1>0, <1>c, <3>2 DEF ProducerViewInv, ConsumerViewInv
      <3>4. ProducerViewInv'
        BY <1>0, <2>1, <3>3 DEF ProducerViewInv, WrappingSub
      <3>5. ConsumerViewInv'
        BY <2>1, <3>3 DEF ConsumerViewInv, WrappingSub
      <3> QED BY <3>4, <3>5
    <2>8. UnreadIntact'
      <3>1. \A n \in Len(got) + 1 .. Len(sent) - 1 : n \in Len(got) .. Len(sent) - 1
        BY <1>b
      <3> QED BY <1>0, <2>1, <2>3, <3>1 DEF UnreadIntact, Index
    <2>9. CarriedInv'
      BY <1>0, <2>1 DEF CarriedInv, Index
    <2>10. GotInv'
      <3> SUFFICES ASSUME NEW i \in 1 .. Len(got) + 1 PROVE got'[i] = sent[i]
        BY <2>1, <2>3 DEF GotInv
      <3>1. CASE i = Len(got) + 1
        BY <2>2, <2>3, <3>1
      <3>2. CASE i # Len(got) + 1
        <4>1. i \in 1 .. Len(got)
          BY <1>b, <3>2
        <4> QED BY <1>0, <2>3, <4>1 DEF GotInv
      <3> QED BY <3>1, <3>2
    <2>11. LenWithinCapacity'
      BY <1>0, <2>1 DEF LenWithinCapacity
    <2> QED BY <2>5, <2>6, <2>7, <2>8, <2>9, <2>10, <2>11 DEF RingInv
  <1>4. CASE ConsumerLen
    <2>1. PICK c \in Loads(headSeen, head) : headSeen' = c
      BY <1>4 DEF ConsumerLen
    <2>2. /\ lastLen' = <<"consumer", WrappingSub(c, tail)>> /\ cPc = "idle"
          /\ UNCHANGED <<head, tail, slots, pPc, msg, tailSeen, cPc, val, sent, got>>
      BY <1>4, <2>1 DEF ConsumerLen
    <2>3. c \in Counter /\ WrappingSub(head, tail) = WrappingSub(head, c) + WrappingSub(c, tail)
      BY <1>0, <1>a, AdvanceHeadView DEF ConsumerViewInv
    <2>4. WrappingSub(c, tail) \in Counter /\ WrappingSub(head, c) \in Nat
      BY <2>3, <1>a, DistanceRange, Constants DEF Counter
    <2>5. WrappingSub(c, tail) <= Capacity
      BY <1>0, <1>b, <2>3, <2>4, Constants DEF CountersInv, Counter
    <2>6. TypeOK'
      BY <1>0, <2>1, <2>2, <2>3, <2>4 DEF TypeOK
    <2>7. ConsumerViewInv'
      BY <2>1, <2>2, <2>3 DEF ConsumerViewInv, WrappingSub
    <2>8. (CountersInv /\ ProducerViewInv /\ UnreadIntact /\ CarriedInv /\ GotInv)'
      BY <1>0, <2>2 DEF CountersInv, ProducerViewInv, UnreadIntact, CarriedInv, GotInv,
                        WrappingSub, Index
    <2>9. LenWithinCapacity'
      BY <2>2, <2>5 DEF LenWithinCapacity
    <2> QED BY <2>6, <2>7, <2>8, <2>9 DEF RingInv
  <1> QED BY <1>1, <1>2, <1>3, <1>4

(* The inductive step, for every step of the ring.                         *)
LEMMA NextInv == RingInv /\ [Next]_vars => RingInv'
  <1> SUFFICES ASSUME RingInv, [Next]_vars PROVE RingInv'
    OBVIOUS
  <1>1. CASE UNCHANGED vars
    BY <1>1 DEF vars, RingInv, TypeOK, CountersInv, ProducerViewInv, ConsumerViewInv, UnreadIntact,
                CarriedInv, GotInv, LenWithinCapacity, WrappingSub, Index
  <1>2. CASE Next
    BY <1>2, ProducerInv, ConsumerInv DEF Next
  <1> QED BY <1>1, <1>2

(* The invariant holds in every reachable state of the ring.               *)
THEOREM RingInvariant == Spec => []RingInv
  BY InitInv, NextInv, PTL DEF Spec

(* The counters, slots, views and histories keep their types: in           *)
(* particular both counters stay words, however often they wrap.           *)
THEOREM TypeCorrect == Spec => []TypeOK
  <1>1. RingInv => TypeOK
    BY DEF RingInv
  <1> QED BY <1>1, RingInvariant, PTL

(* try_push and try_pop never give the same slot to both threads at once,  *)
(* whatever stale counters the two decisions were made on.                 *)
THEOREM SlotExclusion == Spec => []NoSlotRace
  <1>1. RingInv => NoSlotRace
    <2> SUFFICES ASSUME RingInv, pPc = "filling", cPc = "reading", Index(head) = Index(tail)
                 PROVE  FALSE
      BY DEF NoSlotRace
    <2>1. WrappingSub(head, tailSeen) < Capacity
      BY DEF RingInv, ProducerViewInv
    <2>2. \A n \in Len(got) .. Len(sent) - 1 : Index(n) # Index(head)
      BY <2>1, ClaimedSlotIsFree
    <2>3. head \in Counter /\ tail \in Counter /\ headSeen \in Counter /\ headSeen # tail
      BY DEF RingInv, TypeOK, ConsumerViewInv
    <2>4. /\ WrappingSub(headSeen, tail) \in Nat \ {0} /\ WrappingSub(head, headSeen) \in Nat
      BY <2>3, DistanceRange, Constants
    <2>5. WrappingSub(head, tail) = Len(sent) - Len(got) /\ Len(sent) \in Nat /\ Len(got) \in Nat
          /\ Index(tail) = Index(Len(got))
      BY Occupancy
    <2>6. Len(got) \in Len(got) .. Len(sent) - 1
      BY <2>4, <2>5 DEF RingInv, ConsumerViewInv
    <2> QED BY <2>2, <2>5, <2>6
  <1> QED BY <1>1, RingInvariant, PTL

(* len() never underflows: what either thread computes from the two        *)
(* counters is at most the capacity.                                       *)
THEOREM LenBounded == Spec => []LenWithinCapacity
  <1>1. RingInv => LenWithinCapacity
    BY DEF RingInv
  <1> QED BY <1>1, RingInvariant, PTL

(* No write of the producer, finished, failed or wrapped around, damages a *)
(* message the consumer has not taken yet.                                 *)
THEOREM UnreadMessagesIntact == Spec => []UnreadIntact
  <1>1. RingInv => UnreadIntact
    BY DEF RingInv
  <1> QED BY <1>1, RingInvariant, PTL

(* The ring implements the bounded FIFO: nothing is lost, duplicated,      *)
(* reordered or invented, and at most Capacity messages are in flight.     *)
THEOREM RingImplementsFifo == Spec => ImplementsFifo
  <1>1. Init => Fifo!Init
    BY DEF Init, Fifo!Init
  <1>2. RingInv /\ [Next]_vars => [Fifo!Next]_(Fifo!fifoVars)
    <2> SUFFICES ASSUME RingInv, [Next]_vars
                 PROVE  Fifo!Next \/ UNCHANGED <<sent, got>>
      BY DEF Fifo!fifoVars
    <2>1. CASE CommitPush
      <3>1. pPc = "filled" /\ sent' = Append(sent, msg) /\ got' = got
        BY <2>1 DEF CommitPush
      <3>2. msg \in Values /\ WrappingSub(head, tailSeen) < Capacity
        BY <3>1 DEF RingInv, CarriedInv, ProducerViewInv
      <3>3. Len(sent) - Len(got) < Capacity
        BY <3>2, ClaimedSlotIsFree
      <3> QED BY <3>1, <3>2, <3>3 DEF Fifo!Next, Fifo!Enqueue
    <2>2. CASE CommitPop
      <3>1. cPc = "read" /\ got' = Append(got, val) /\ sent' = sent
        BY <2>2 DEF CommitPop
      <3>2. val = sent[Len(got) + 1] /\ headSeen # tail
        BY <3>1 DEF RingInv, CarriedInv, ConsumerViewInv
      <3>3. head \in Counter /\ tail \in Counter /\ headSeen \in Counter
        BY DEF RingInv, TypeOK
      <3>4. WrappingSub(headSeen, tail) \in Nat \ {0} /\ WrappingSub(head, headSeen) \in Nat
        BY <3>2, <3>3, DistanceRange, Constants
      <3>5. Len(got) < Len(sent)
        BY <3>4, Occupancy DEF RingInv, ConsumerViewInv
      <3> QED BY <3>1, <3>2, <3>5 DEF Fifo!Next, Fifo!Dequeue
    <2>3. CASE UNCHANGED vars
      BY <2>3 DEF vars
    <2>4. CASE (\E v \in Values : TryPush(v)) \/ Fill \/ FillFails \/ ProducerLen
      BY <2>4 DEF TryPush, Fill, FillFails, ProducerLen
    <2>5. CASE TryPop \/ Consume \/ ConsumerLen
      BY <2>5 DEF TryPop, Consume, ConsumerLen
    <2> QED BY <2>1, <2>2, <2>3, <2>4, <2>5 DEF Next
  <1> QED BY <1>1, <1>2, RingInvariant, PTL DEF Spec, ImplementsFifo, Fifo!Spec
=============================================================================
