-------------------------- MODULE SlotRegionProofs --------------------------
(***************************************************************************)
(* The bytes of the shared-memory sink hold what was written, for every    *)
(* number of slots, payload size, word size and set of messages.           *)
(*                                                                         *)
(* The slots do not overlap, the slot that is written next is none of the  *)
(* unread ones, and both stay true when a counter wraps because the number *)
(* of slots divides the range of the counters.                             *)
(***************************************************************************)
EXTENDS SlotRegion, ModularArithmetic, SequenceTheorems

-----------------------------------------------------------------------------
(* The counters                                                            *)

(* len(), without the remainder.                                           *)
LEMMA RegionLenValue ==
    ASSUME head \in 0 .. CounterMod - 1, tail \in 0 .. CounterMod - 1
    PROVE  /\ RegionLen = IF tail <= head THEN head - tail ELSE head + CounterMod - tail
           /\ RegionLen \in 0 .. CounterMod - 1
           /\ head = (tail + RegionLen) % CounterMod
  <1> DEFINE M == CounterMod
  <1>0. M \in Nat \ {0}
    BY SlotRegionAssumption
  <1> HIDE DEF M
  <1>1. head \in 0 .. M - 1 /\ tail \in 0 .. M - 1 /\ RegionLen = (head + M - tail) % M
    BY DEF M, RegionLen
  <1>2. CASE tail <= head
    <2>1. head + M - tail = M * 1 + (head - tail) /\ head - tail \in 0 .. M - 1
      BY <1>0, <1>1, <1>2
    <2>2. RegionLen = head - tail
      BY <1>0, <1>1, <2>1, ModUnique
    <2>3. head = M * 0 + head
      BY <1>0, <1>1
    <2>4. head % M = head
      BY <1>0, <1>1, <2>3, ModUnique
    <2> QED BY <1>0, <1>1, <1>2, <2>1, <2>2, <2>4 DEF M
  <1>3. CASE ~(tail <= head)
    <2>1. /\ head + M - tail = M * 0 + (head + M - tail) /\ head + M - tail \in 0 .. M - 1
          /\ head + M = M * 1 + head
      BY <1>0, <1>1, <1>3
    <2>2. RegionLen = head + M - tail
      BY <1>0, <1>1, <2>1, ModUnique
    <2>3. (head + M) % M = head
      BY <1>0, <1>1, <2>1, ModUnique
    <2>4. tail + RegionLen = head + M
      BY <1>0, <1>1, <2>2
    <2> QED BY <1>0, <1>1, <1>3, <2>1, <2>2, <2>3, <2>4 DEF M
  <1> QED BY <1>2, <1>3

(* A counter moves by one, or wraps.                                       *)
LEMMA CounterSucc ==
    ASSUME NEW n \in 0 .. CounterMod - 1
    PROVE  /\ (n + 1) % CounterMod \in 0 .. CounterMod - 1
           /\ (n + 1) % CounterMod = IF n = CounterMod - 1 THEN 0 ELSE n + 1
  <1>1. CounterMod \in Nat \ {0} /\ n \in Nat
    BY SlotRegionAssumption
  <1>2. n = CounterMod * 0 + n
    BY <1>1
  <1>3. n % CounterMod = n
    BY <1>1, <1>2, ModUnique
  <1>4. (n + 1) % CounterMod = IF n % CounterMod = CounterMod - 1 THEN 0 ELSE (n % CounterMod) + 1
    BY <1>1, ModSucc
  <1> QED BY <1>1, <1>3, <1>4

(* The length after a push, a pop and a reset.                             *)
LEMMA LenAfter ==
    ASSUME head \in 0 .. CounterMod - 1, tail \in 0 .. CounterMod - 1
    PROVE  /\ head' = (head + 1) % CounterMod /\ tail' = tail /\ RegionLen < CounterMod - 1
                => RegionLen' = RegionLen + 1
           /\ tail' = (tail + 1) % CounterMod /\ head' = head /\ RegionLen > 0
                => RegionLen' = RegionLen - 1
           /\ tail' = head /\ head' = head => RegionLen' = 0
  <1>1. RegionLen = IF tail <= head THEN head - tail ELSE head + CounterMod - tail
    BY RegionLenValue
  <1>2. ASSUME head' \in 0 .. CounterMod - 1, tail' \in 0 .. CounterMod - 1
        PROVE  RegionLen' = IF tail' <= head' THEN head' - tail' ELSE head' + CounterMod - tail'
    <2>1. ASSUME NEW h \in 0 .. CounterMod - 1, NEW t \in 0 .. CounterMod - 1
          PROVE  (h + CounterMod - t) % CounterMod
                   = IF t <= h THEN h - t ELSE h + CounterMod - t
      <3>1. CounterMod \in Nat \ {0}
        BY SlotRegionAssumption
      <3>2. CASE t <= h
        <4>1. h + CounterMod - t = CounterMod * 1 + (h - t) /\ h - t \in 0 .. CounterMod - 1
              /\ h + CounterMod - t \in Nat
          BY <3>1, <3>2
        <4> QED BY <3>1, <3>2, <4>1, ModUnique
      <3>3. CASE ~(t <= h)
        <4>1. h + CounterMod - t = CounterMod * 0 + (h + CounterMod - t)
              /\ h + CounterMod - t \in 0 .. CounterMod - 1 /\ h + CounterMod - t \in Nat
          BY <3>1, <3>3
        <4> QED BY <3>1, <3>3, <4>1, ModUnique
      <3> QED BY <3>2, <3>3
    <2> QED BY <1>2, <2>1 DEF RegionLen
  <1>3. CounterMod \in Nat \ {0}
    BY SlotRegionAssumption
  <1>4. ASSUME head' = (head + 1) % CounterMod, tail' = tail, RegionLen < CounterMod - 1
        PROVE  RegionLen' = RegionLen + 1
    BY <1>1, <1>2, <1>3, <1>4, CounterSucc
  <1>5. ASSUME tail' = (tail + 1) % CounterMod, head' = head, RegionLen > 0
        PROVE  RegionLen' = RegionLen - 1
    BY <1>1, <1>2, <1>3, <1>5, CounterSucc
  <1>6. ASSUME tail' = head, head' = head PROVE RegionLen' = 0
    BY <1>2, <1>3, <1>6
  <1> QED BY <1>4, <1>5, <1>6

(* The index of the slot of the k-th unread message.                       *)
SlotOf(k) == (tail + k - 1) % slotCount

(* The slot to be written is none of the unread ones.                      *)
LEMMA NextSlotIsFree ==
    ASSUME TypeOK
    PROVE  /\ head % slotCount \in 0 .. slotCount - 1
           /\ \A k \in 1 .. CounterMod : SlotOf(k) \in 0 .. slotCount - 1
           /\ head % slotCount = SlotOf(RegionLen + 1)
           /\ RegionLen < slotCount =>
                \A k \in 1 .. RegionLen : SlotOf(k) # head % slotCount
  <1>1. /\ slotCount \in Nat \ {0} /\ CounterMod % slotCount = 0 /\ CounterMod \in Nat \ {0}
        /\ head \in Nat /\ tail \in Nat /\ RegionLen \in Nat
        /\ head = (tail + RegionLen) % CounterMod
    <2>1. head \in 0 .. CounterMod - 1 /\ tail \in 0 .. CounterMod - 1
      BY DEF TypeOK
    <2>2. RegionLen \in 0 .. CounterMod - 1 /\ head = (tail + RegionLen) % CounterMod
      BY <2>1, RegionLenValue
    <2> QED BY <2>1, <2>2, SlotRegionAssumption DEF TypeOK, GeometryOK
  <1>2. head % slotCount = (tail + RegionLen) % slotCount
    <2>1. tail + RegionLen \in Nat
      BY <1>1
    <2>2. ASSUME NEW n \in Nat PROVE (n % CounterMod) % slotCount = n % slotCount
      BY <1>1, NestedMod
    <2> QED BY <1>1, <2>1, <2>2
  <1>3. head % slotCount \in 0 .. slotCount - 1
    BY <1>1, DivMod
  <1>4. ASSUME NEW k \in 1 .. CounterMod PROVE SlotOf(k) \in 0 .. slotCount - 1
    <2>1. tail + k - 1 \in Nat
      BY <1>1
    <2> QED BY <1>1, <2>1, DivMod DEF SlotOf
  <1>5. head % slotCount = SlotOf(RegionLen + 1)
    <2>1. tail + (RegionLen + 1) - 1 = tail + RegionLen
      BY <1>1
    <2> QED BY <1>2, <2>1 DEF SlotOf
  <1>6. ASSUME RegionLen < slotCount, NEW k \in 1 .. RegionLen
        PROVE  SlotOf(k) # head % slotCount
    <2>1. /\ tail + k - 1 \in Nat /\ tail + RegionLen \in Nat
          /\ tail + k - 1 < tail + RegionLen
          /\ (tail + RegionLen) - (tail + k - 1) < slotCount
      BY <1>1, <1>6
    <2>2. (tail + k - 1) % slotCount # (tail + RegionLen) % slotCount
      BY <1>1, <2>1, ModDistinct
    <2> QED BY <1>2, <2>2 DEF SlotOf
  <1> QED BY <1>3, <1>4, <1>5, <1>6

(* After a pop the k-th unread slot is the one that was the next.          *)
LEMMA SlotsAfterPop ==
    ASSUME TypeOK, tail' = (tail + 1) % CounterMod, slotCount' = slotCount, NEW k \in Nat \ {0}
    PROVE  SlotOf(k)' = SlotOf(k + 1)
  <1>1. /\ slotCount \in Nat \ {0} /\ CounterMod % slotCount = 0 /\ CounterMod \in Nat \ {0}
        /\ tail \in 0 .. CounterMod - 1
    BY SlotRegionAssumption DEF TypeOK, GeometryOK
  <1>2. tail' = IF tail = CounterMod - 1 THEN 0 ELSE tail + 1
    BY <1>1, CounterSucc
  <1>3. CASE tail # CounterMod - 1
    <2>1. tail' + k - 1 = tail + (k + 1) - 1
      BY <1>1, <1>2, <1>3
    <2> QED BY <2>1 DEF SlotOf
  <1>4. CASE tail = CounterMod - 1
    <2>1. tail' + k - 1 \in Nat /\ tail + (k + 1) - 1 \in Nat
      BY <1>1, <1>2, <1>4
    <2>2. tail + (k + 1) - 1 = (tail' + k - 1) + CounterMod
      BY <1>1, <1>2, <1>4
    <2>3. ASSUME NEW n \in Nat PROVE (n + CounterMod) % slotCount = n % slotCount
      <3>1. CounterMod \in Nat
        BY <1>1
      <3> QED BY <1>1, <3>1, ModPlusMultiple
    <2>4. (tail + (k + 1) - 1) % slotCount = (tail' + k - 1) % slotCount
      BY <2>1, <2>2, <2>3
    <2> QED BY <2>4 DEF SlotOf
  <1> QED BY <1>3, <1>4


-----------------------------------------------------------------------------
(* The cells of the slots                                                  *)

(* The mapping and its geometry.                                           *)
RegionOK ==
    /\ GeometryOK
    /\ memory \in Seq(Nat) /\ Len(memory) = SlotsOffset + slotCount * slotSize

(* A slot lies behind the counters and inside the mapping.                 *)
LEMMA SlotInside ==
    ASSUME RegionOK, NEW i \in 0 .. slotCount - 1
    PROVE  /\ SlotOffset(i) \in Nat /\ SlotsOffset <= SlotOffset(i)
           /\ SlotOffset(i) + slotSize <= Len(memory)
  <1>1. /\ slotCount \in Nat /\ slotSize \in Nat /\ SlotsOffset \in Nat
        /\ Len(memory) = SlotsOffset + slotCount * slotSize
    BY SlotRegionAssumption DEF RegionOK, GeometryOK
  <1>2. i \in Nat /\ i + 1 \in Nat /\ i + 1 <= slotCount
    BY <1>1
  <1>3. (i + 1) * slotSize <= slotCount * slotSize /\ i * slotSize \in Nat
    BY <1>1, <1>2, TimesMonotone
  <1>4. (i + 1) * slotSize = i * slotSize + slotSize
    BY <1>1, <1>2
  <1> QED BY <1>1, <1>3, <1>4 DEF SlotOffset

(* Two slots share no cell.                                                *)
LEMMA SlotsApart ==
    ASSUME RegionOK, NEW i \in 0 .. slotCount - 1, NEW j \in 0 .. slotCount - 1, i # j,
           NEW c \in 1 .. slotSize
    PROVE  (SlotOffset(j) + c) - SlotOffset(i) \notin 1 .. slotSize
  <1>1. slotCount \in Nat /\ slotSize \in Nat /\ SlotsOffset \in Nat
    BY SlotRegionAssumption DEF RegionOK, GeometryOK
  <1>2. ASSUME NEW a \in 0 .. slotCount - 1, NEW b \in 0 .. slotCount - 1, a < b
        PROVE  /\ SlotOffset(a) \in Nat /\ SlotOffset(b) \in Nat
               /\ SlotOffset(a) + slotSize <= SlotOffset(b)
    <2>1. a \in Nat /\ a + 1 \in Nat /\ b \in Nat /\ a + 1 <= b /\ a <= b
      BY <1>1, <1>2
    <2>2. (a + 1) * slotSize <= b * slotSize
      BY <1>1, <2>1, TimesMonotone
    <2>3. (a + 1) * slotSize = a * slotSize + slotSize
      BY <1>1, <2>1
    <2>4. a * slotSize \in Nat /\ b * slotSize \in Nat
      BY <1>1, <2>1
    <2> QED BY <1>1, <2>2, <2>3, <2>4 DEF SlotOffset
  <1>3. CASE i < j
    <2>1. SlotOffset(i) \in Nat /\ SlotOffset(j) \in Nat /\ SlotOffset(i) + slotSize <= SlotOffset(j)
      BY <1>2, <1>3
    <2> QED BY <1>1, <2>1
  <1>4. CASE j < i
    <2>1. SlotOffset(i) \in Nat /\ SlotOffset(j) \in Nat /\ SlotOffset(j) + slotSize <= SlotOffset(i)
      BY <1>2, <1>4
    <2> QED BY <1>1, <2>1
  <1> QED BY <1>1, <1>3, <1>4

(* slot_ref gives the cells of the slot.                                   *)
LEMMA SlotRefCells ==
    ASSUME RegionOK, NEW i \in 0 .. slotCount - 1
    PROVE  /\ SlotRef(i) \in Seq(Nat) /\ Len(SlotRef(i)) = slotSize
           /\ \A c \in 1 .. slotSize : SlotRef(i)[c] = memory[SlotOffset(i) + c]
  <1>1. /\ slotSize \in Nat /\ SlotOffset(i) \in Nat
        /\ SlotOffset(i) + slotSize <= Len(memory)
    BY SlotInside DEF RegionOK, GeometryOK
  <1>2. memory \in Seq(Nat) /\ Len(memory) \in Nat
    BY LenProperties DEF RegionOK
  <1>a. PICK o \in Nat, z \in Nat, L \in Nat :
           o = SlotOffset(i) /\ z = slotSize /\ L = Len(memory) /\ o + z <= L
    BY <1>1, <1>2
  <1>b. PICK m \in Nat, n \in Nat : m = o + 1 /\ n = o + z
    OBVIOUS
  <1>3. /\ m \in Int /\ n \in Int /\ n - m + 1 = z
        /\ m <= n => n - m + 1 = z
        /\ ~(m <= n) => z = 0
        /\ \A c \in m .. n : c \in 1 .. L
        /\ \A c \in 1 .. z : m + c - 1 = o + c
    <2>1. ASSUME NEW c \in m .. n PROVE c \in 1 .. L
      BY ONLY <1>a, <1>b, o \in Nat, z \in Nat, L \in Nat, c \in m .. n
    <2>2. ASSUME NEW c \in 1 .. z PROVE m + c - 1 = o + c
      BY <1>b
    <2>3. m \in Int /\ n \in Int /\ n - m + 1 = z /\ (m <= n => n - m + 1 = z)
      BY <1>b
    <2>4. ~(m <= n) => z = 0
      BY <1>b
    <2> QED BY <2>1, <2>2, <2>3, <2>4
  <1>4. SlotRef(i) = SubSeq(memory, m, n)
    BY <1>a, <1>b DEF SlotRef
  <1>5. \A c \in m .. n : memory[c] \in Nat
    BY <1>2, <1>3, <1>a, ElementOfSeq
  <1>6. /\ SubSeq(memory, m, n) \in Seq(Nat)
        /\ Len(SubSeq(memory, m, n)) = IF m <= n THEN n - m + 1 ELSE 0
        /\ \A c \in 1 .. n - m + 1 : SubSeq(memory, m, n)[c] = memory[m + c - 1]
    BY <1>3, <1>5, SubSeqProperties
  <1> QED BY <1>3, <1>4, <1>6, <1>a

SlotsReadable ==
    \A i \in 0 .. slotCount - 1 :
        /\ SlotRef(i) \in Seq(Nat) /\ Len(SlotRef(i)) = slotSize
        /\ \A c \in 1 .. slotSize : SlotRef(i)[c] = memory[SlotOffset(i) + c]

(* The same of all slots.                                                  *)
LEMMA AllSlotsReadable == RegionOK => SlotsReadable
  BY SlotRefCells DEF SlotsReadable

-----------------------------------------------------------------------------
(* encode and decode                                                       *)

(* The cells a fitting message is encoded to.                              *)
Holds(s, m) ==
    /\ s[1] = Magic /\ s[3] = m.suspect /\ s[4] = m.sequence /\ s[5] = m.len
    /\ \A k \in 1 .. m.len : s[5 + k] = m.bytes[k]

(* encode succeeds on a slot with room for the message and fills the start *)
(* of it.                                                                  *)
LEMMA EncodeFits ==
    ASSUME NEW m, m.suspect \in Nat, m.sequence \in Nat, m.len \in Nat,
           m.bytes \in Seq(Nat), Len(m.bytes) = m.len,
           NEW dst \in Seq(Nat), HeaderSize + m.len <= Len(dst)
    PROVE  \E cells \in Seq(Nat) :
              /\ Encode(SlotHeader(m), m.bytes, dst) = {cells}
              /\ Len(cells) = Len(dst) /\ Holds(cells, m)
  <1>a. PICK su \in Nat, sq \in Nat, n \in Nat, b \in Seq(Nat) :
           su = m.suspect /\ sq = m.sequence /\ n = m.len /\ b = m.bytes
    OBVIOUS
  <1>b. PICK L \in Nat : L = Len(dst) /\ 5 + n <= L /\ Len(b) = n
    BY <1>a, LenProperties, SlotRegionAssumption
  <1> DEFINE h == <<Magic, 1, su, sq, n>>
             p == h \o b
             r == SubSeq(dst, 5 + n + 1, L)
             e == p \o r
  <1>1. /\ h \in Seq(Nat) /\ Len(h) = 5
        /\ h[1] = Magic /\ h[3] = su /\ h[4] = sq /\ h[5] = n
    BY DEF Magic
  <1>2. HeaderCells(SlotHeader(m)) = h
    BY <1>a DEF HeaderCells, SlotHeader
  <1> HIDE DEF h
  <1>3. /\ p \in Seq(Nat) /\ Len(p) = 5 + n
        /\ \A i \in 1 .. 5 + n : p[i] = IF i <= 5 THEN h[i] ELSE b[i - 5]
    <2>1. /\ h \o b \in Seq(Nat) /\ Len(h \o b) = Len(h) + Len(b)
          /\ \A i \in 1 .. Len(h) + Len(b) :
               (h \o b)[i] = IF i <= Len(h) THEN h[i] ELSE b[i - Len(h)]
      BY ONLY <1>1, ConcatProperties, b \in Seq(Nat)
    <2> QED BY <1>1, <1>b, <2>1
  <1>5. Encode(SlotHeader(m), m.bytes, dst) = {e}
    <2>1. ~(Len(dst) < Len(p))
      BY <1>3, <1>b
    <2> QED BY <1>2, <1>3, <1>a, <1>b, <2>1 DEF Encode
  <1> HIDE DEF p
  <1>4. /\ p[1] = Magic /\ p[3] = su /\ p[4] = sq /\ p[5] = n
        /\ \A k \in 1 .. n : p[5 + k] = b[k]
    <2>1. 1 \in 1 .. 5 + n /\ 3 \in 1 .. 5 + n /\ 4 \in 1 .. 5 + n /\ 5 \in 1 .. 5 + n
      OBVIOUS
    <2>2. p[1] = h[1] /\ p[3] = h[3] /\ p[4] = h[4] /\ p[5] = h[5]
      BY <1>3, <2>1
    <2>3. ASSUME NEW k \in 1 .. n PROVE p[5 + k] = b[k]
      <3>1. 5 + k \in 1 .. 5 + n /\ ~(5 + k <= 5) /\ (5 + k) - 5 = k
        OBVIOUS
      <3> QED BY <1>3, <3>1
    <2> QED BY <1>1, <2>2, <2>3
  <1>6. r \in Seq(Nat) /\ Len(r) = L - (5 + n)
    <2>1. \A i \in 5 + n + 1 .. L : dst[i] \in Nat
      BY <1>b, ElementOfSeq
    <2>2. 5 + n + 1 \in Int /\ L \in Int
      OBVIOUS
    <2>3. /\ SubSeq(dst, 5 + n + 1, L) \in Seq(Nat)
          /\ Len(SubSeq(dst, 5 + n + 1, L)) = IF 5 + n + 1 <= L THEN L - (5 + n + 1) + 1 ELSE 0
      BY <2>1, <2>2, SubSeqProperties
    <2> QED BY <1>b, <2>3
  <1> HIDE DEF r
  <1>7. /\ e \in Seq(Nat) /\ Len(e) = Len(p) + Len(r)
        /\ \A i \in 1 .. Len(p) + Len(r) : e[i] = IF i <= Len(p) THEN p[i] ELSE r[i - Len(p)]
    BY <1>3, <1>6, ConcatProperties
  <1> HIDE DEF e
  <1>8. Len(e) = L /\ \A i \in 1 .. 5 + n : e[i] = p[i]
    <2>1. Len(p) + Len(r) = L /\ \A i \in 1 .. 5 + n : i \in 1 .. L /\ i <= 5 + n
      BY <1>3, <1>6, <1>b
    <2> QED BY <1>3, <1>7, <2>1
  <1>9. Holds(e, m)
    <2>1. /\ 1 \in 1 .. 5 + n /\ 3 \in 1 .. 5 + n /\ 4 \in 1 .. 5 + n /\ 5 \in 1 .. 5 + n
          /\ \A k \in 1 .. n : 5 + k \in 1 .. 5 + n
      OBVIOUS
    <2>2. /\ e[1] = Magic /\ e[3] = su /\ e[4] = sq /\ e[5] = n
          /\ \A k \in 1 .. n : e[5 + k] = b[k]
      BY <1>4, <1>8, <2>1
    <2> QED BY <1>a, <2>2 DEF Holds
  <1> QED BY <1>5, <1>7, <1>8, <1>9, <1>b

(* decode gives back the message, whatever is behind it in the slot.       *)
LEMMA DecodeOfEncoded ==
    ASSUME NEW m, m.len \in Nat, m.bytes \in Seq(Nat), Len(m.bytes) = m.len,
           NEW s \in Seq(Nat), HeaderSize + m.len <= Len(s), Holds(s, m)
    PROVE  Decode(s) = {[suspect |-> m.suspect, sequence |-> m.sequence, payload |-> m.bytes]}
  <1>1. HeaderSize = 5 /\ Len(s) \in Nat
    BY SlotRegionAssumption, LenProperties
  <1>2. /\ s[1] = Magic /\ s[3] = m.suspect /\ s[4] = m.sequence /\ s[5] = m.len
        /\ \A k \in 1 .. m.len : s[5 + k] = m.bytes[k]
    BY DEF Holds
  <1>3. ~(Len(s) < HeaderSize) /\ ~(Len(s) < HeaderSize + s[5])
    BY <1>1, <1>2
  <1>4. Decode(s) = {[suspect |-> s[3], sequence |-> s[4],
                      payload |-> SubSeq(s, HeaderSize + 1, HeaderSize + s[5])]}
    BY <1>2, <1>3 DEF Decode
  <1>a. PICK n \in Nat, bs \in Seq(Nat) : n = m.len /\ bs = m.bytes
    OBVIOUS
  <1> DEFINE b == SubSeq(s, 6, 5 + n)
  <1>5. b = bs
    <2>1. 6 \in Int /\ 5 + n \in Int /\ 5 + n <= Len(s)
      BY <1>1, <1>a
    <2>2. \A i \in 6 .. 5 + n : s[i] \in Nat
      BY <1>1, <2>1, ElementOfSeq
    <2> HIDE DEF b
    <2>4. b \in Seq(Nat) /\ Len(b) = n /\ \A i \in 1 .. n : b[i] = s[5 + i]
      <3>1. PICK f \in Nat, t \in Nat : f = 6 /\ t = 5 + n
        OBVIOUS
      <3>2. /\ SubSeq(s, f, t) \in Seq(Nat)
            /\ Len(SubSeq(s, f, t)) = IF f <= t THEN t - f + 1 ELSE 0
            /\ \A i \in 1 .. t - f + 1 : SubSeq(s, f, t)[i] = s[f + i - 1]
        BY ONLY <2>2, <3>1, SubSeqProperties, f \in Nat, t \in Nat
      <3>3. t - f + 1 = n /\ (f <= t <=> n # 0) /\ \A i \in 1 .. n : f + i - 1 = 5 + i
        BY <3>1
      <3>4. b = SubSeq(s, f, t)
        BY <3>1 DEF b
      <3> QED BY <3>2, <3>3, <3>4
    <2>5. Len(bs) = n /\ \A i \in 1 .. Len(b) : b[i] = bs[i]
      BY <1>2, <1>a, <2>4
    <2> QED BY ONLY <2>4, <2>5, SeqEqual, bs \in Seq(Nat)
  <1>6. SubSeq(s, HeaderSize + 1, HeaderSize + s[5]) = m.bytes
    BY <1>1, <1>2, <1>5, <1>a
  <1> QED BY <1>2, <1>4, <1>6


-----------------------------------------------------------------------------
(* Writing into a slot                                                     *)

(* push changes the cells of one slot and no others.                       *)
LEMMA SlotFilled ==
    ASSUME RegionOK, NEW i \in 0 .. slotCount - 1,
           NEW cells \in Seq(Nat), Len(cells) = slotSize,
           memory' = SlotMut(i, cells), UNCHANGED geometry
    PROVE  /\ RegionOK'
           /\ \A c \in 1 .. SlotsOffset : memory'[c] = memory[c]
           /\ SlotRef(i)' = cells
           /\ \A j \in 0 .. slotCount - 1 : j # i => SlotRef(j)' = SlotRef(j)
  <1>1. PICK o \in Nat, z \in Nat, L \in Nat :
           /\ o = SlotOffset(i) /\ z = slotSize /\ L = Len(memory)
           /\ SlotsOffset <= o /\ o + z <= L
    BY SlotInside, LenProperties DEF RegionOK, GeometryOK
  <1>2. DOMAIN memory = 1 .. L /\ SlotsOffset \in Nat /\ memory \in Seq(Nat)
    BY <1>1, LenProperties, SlotRegionAssumption DEF RegionOK
  <1>3. memory' = [c \in 1 .. L |-> IF c - o \in 1 .. z THEN cells[c - o] ELSE memory[c]]
    BY <1>1, <1>2 DEF SlotMut
  <1>4. \A c \in 1 .. L : memory'[c] = IF c - o \in 1 .. z THEN cells[c - o] ELSE memory[c]
    BY <1>3
  <1>5. memory' \in Seq(Nat) /\ Len(memory') = L
    <2>1. \A c \in 1 .. z : cells[c] \in Nat
      BY <1>1, ElementOfSeq
    <2>2. \A c \in 1 .. L : memory[c] \in Nat
      BY <1>1, <1>2, ElementOfSeq
    <2>3. \A c \in 1 .. L : memory'[c] \in Nat
      BY <1>4, <2>1, <2>2
    <2>4. memory' \in [1 .. L -> Nat]
      BY <1>3, <2>3
    <2> QED BY <2>4
  <1>6. RegionOK'
    BY <1>1, <1>5 DEF RegionOK, GeometryOK, geometry
  <1>7. \A c \in 1 .. SlotsOffset : memory'[c] = memory[c]
    <2>1. ASSUME NEW c \in 1 .. SlotsOffset PROVE c \in 1 .. L /\ c - o \notin 1 .. z
      BY <1>1, <1>2
    <2> QED BY <1>4, <2>1
  <1>8. ASSUME NEW j \in 0 .. slotCount - 1
        PROVE  /\ SlotRef(j)' \in Seq(Nat) /\ Len(SlotRef(j)') = slotSize
               /\ \A c \in 1 .. slotSize : SlotRef(j)'[c] = memory'[SlotOffset(j) + c]
    <2>1. (RegionOK => SlotsReadable)'
      BY AllSlotsReadable, PTL
    <2>3. SlotOffset(j)' = SlotOffset(j) /\ slotSize' = slotSize /\ slotCount' = slotCount
      BY DEF SlotOffset, geometry
    <2> QED BY <1>6, <2>1, <2>3 DEF SlotsReadable
  <1>9. SlotRef(i)' = cells
    <2>1. ASSUME NEW c \in 1 .. z PROVE memory'[o + c] = cells[c]
      <3>1. o + c \in 1 .. L /\ (o + c) - o = c
        BY <1>1
      <3> QED BY <1>4, <3>1
    <2>2. \A c \in 1 .. slotSize : SlotRef(i)'[c] = cells[c]
      BY <1>1, <1>8, <2>1
    <2> QED BY <1>8, <2>2, SeqEqual
  <1>10. ASSUME NEW j \in 0 .. slotCount - 1, j # i PROVE SlotRef(j)' = SlotRef(j)
    <2>1. PICK oj \in Nat : oj = SlotOffset(j) /\ oj + z <= L
      BY <1>1, SlotInside
    <2>2. ASSUME NEW c \in 1 .. z PROVE memory'[oj + c] = memory[oj + c]
      <3>1. (oj + c) - o \notin 1 .. z
        BY <1>1, <1>10, <2>1, SlotsApart
      <3>2. oj + c \in 1 .. L
        BY <2>1
      <3> QED BY <1>4, <3>1, <3>2
    <2>3. /\ SlotRef(j) \in Seq(Nat) /\ Len(SlotRef(j)) = slotSize
          /\ \A c \in 1 .. slotSize : SlotRef(j)[c] = memory[SlotOffset(j) + c]
      BY SlotRefCells
    <2>4. \A c \in 1 .. slotSize : SlotRef(j)'[c] = SlotRef(j)[c]
      BY <1>1, <1>8, <2>1, <2>2, <2>3
    <2>5. SlotRef(j)' \in Seq(Nat) /\ Len(SlotRef(j)') = slotSize
      BY <1>8
    <2> QED BY <2>3, <2>4, <2>5, SeqEqual
  <1> QED BY <1>6, <1>7, <1>9, <1>10


-----------------------------------------------------------------------------
(* The invariant                                                           *)

(* The fields of a message the sink takes.                                 *)
LEMMA FittingFields ==
    ASSUME NEW m \in Fitting
    PROVE  /\ m \in Messages /\ m.len <= maxPayload /\ Len(m.bytes) = m.len
           /\ m \in [suspect : Nat, sequence : Nat, len : Nat, bytes : Seq(Nat)]
           /\ m.suspect \in Nat /\ m.sequence \in Nat /\ m.len \in Nat /\ m.bytes \in Seq(Nat)
  <1>1. m \in Messages /\ m.len <= maxPayload /\ Len(m.bytes) = m.len
    BY DEF Fitting
  <1>2. m \in [suspect : Nat, sequence : Nat, len : Nat, bytes : Seq(Nat)]
    BY <1>1, SlotRegionAssumption
  <1> QED BY <1>1, <1>2

(* What new accepts is a geometry the rest relies on.                      *)
LEMMA GeometryValidated == Init => GeometryOK
  <1> SUFFICES ASSUME Init PROVE GeometryOK
    OBVIOUS
  <1>1. /\ CacheLine \in Nat \ {0} /\ HeaderSize \in Nat /\ maxPayload \in Nat
        /\ slotCount \in 1 .. CounterMod - 1 /\ CounterMod % slotCount = 0
        /\ slotSize % CacheLine = 0
    BY SlotRegionAssumption DEF Init, ValidateParams
  <1>2. PICK x \in Nat : x = HeaderSize + maxPayload + CacheLine - 1
    BY <1>1
  <1>3. slotSize = (x \div CacheLine) * CacheLine
    BY <1>2 DEF Init, SlotSize
  <1>4. PICK q \in Nat, r \in 0 .. CacheLine - 1 :
           q = x \div CacheLine /\ x = CacheLine * q + r
    <2>1. x \div CacheLine \in Nat /\ x % CacheLine \in 0 .. CacheLine - 1
          /\ x = CacheLine * (x \div CacheLine) + (x % CacheLine)
      BY ONLY <1>1, DivMod, x \in Nat
    <2> QED BY <2>1
  <1>5. slotSize = CacheLine * q /\ CacheLine * q \in Nat
    BY <1>1, <1>3, <1>4
  <1>6. HeaderSize + maxPayload <= slotSize
    BY <1>1, <1>2, <1>4, <1>5
  <1> QED BY <1>1, <1>5, <1>6 DEF GeometryOK

(* A new region is empty.                                                  *)
LEMMA SlotInvInit == Init => SlotInv
  <1> SUFFICES ASSUME Init PROVE SlotInv
    OBVIOUS
  <1>1. GeometryOK
    BY GeometryValidated
  <1>2. PICK n \in Nat : n = SlotsOffset - 1 + slotCount * slotSize
    <2>1. slotCount * slotSize \in Nat /\ SlotsOffset - 1 \in Nat
      BY <1>1, SlotRegionAssumption DEF GeometryOK
    <2> QED BY <2>1
  <1> DEFINE z == [c \in 1 .. n |-> 0]
  <1>3. z \in Seq(Nat) /\ Len(z) = n
    OBVIOUS
  <1> HIDE DEF z
  <1>4. <<RegionMagic>> \in Seq(Nat) /\ Len(<<RegionMagic>>) = 1
    BY DEF RegionMagic
  <1>5. memory = <<RegionMagic>> \o z
    BY <1>2 DEF Init, Anonymous, z
  <1>6. memory \in Seq(Nat) /\ Len(memory) = 1 + n
    BY <1>3, <1>4, <1>5, ConcatProperties
  <1>7. Len(memory) = SlotsOffset + slotCount * slotSize
    BY <1>1, <1>2, <1>6, SlotRegionAssumption DEF GeometryOK
  <1>8. memory = Anonymous(slotCount, slotSize)
    BY DEF Init
  <1>9. /\ head = 0 /\ tail = 0 /\ written = 0 /\ unread = <<>>
        /\ CounterMod \in Nat \ {0} /\ slotCount \in Nat
    BY <1>1, SlotRegionAssumption DEF Init, GeometryOK
  <1>10. RegionLen = 0
    BY <1>9, RegionLenValue
  <1>11. unread \in Seq(Fitting) /\ Len(unread) = 0
    BY <1>9
  <1>12. TypeOK
    BY <1>1, <1>6, <1>7, <1>8, <1>9, <1>10, <1>11 DEF TypeOK
  <1>13. UnreadDecodes
    BY <1>9 DEF UnreadDecodes
  <1> QED BY <1>12, <1>13 DEF SlotInv

(* The mapping and the counters of a state that is well typed.             *)
LEMMA TypeFacts ==
    ASSUME TypeOK
    PROVE  /\ RegionOK /\ RegionLen \in Nat /\ RegionLen <= slotCount
           /\ slotCount \in Nat \ {0} /\ slotCount < CounterMod /\ CounterMod \in Nat
           /\ unread \in Seq(Fitting) /\ Len(unread) = RegionLen
           /\ DOMAIN unread = 1 .. RegionLen
           /\ \A k \in 1 .. RegionLen : unread[k] \in Fitting
  <1>1. RegionLen \in Nat
    BY RegionLenValue DEF TypeOK
  <1>2. unread \in Seq(Fitting) /\ Len(unread) = RegionLen
    BY DEF TypeOK
  <1>3. DOMAIN unread = 1 .. RegionLen /\ \A k \in 1 .. RegionLen : unread[k] \in Fitting
    BY <1>2, LenProperties, ElementOfSeq
  <1>4. slotCount \in Nat \ {0} /\ slotCount < CounterMod /\ CounterMod \in Nat
    BY SlotRegionAssumption DEF TypeOK, GeometryOK
  <1> QED BY <1>1, <1>2, <1>3, <1>4 DEF TypeOK, RegionOK

(* push: encode finds the room it needs in the next slot, which then holds *)
(* the message; the unread slots are left alone.                           *)
LEMMA PushFills ==
    ASSUME TypeOK, NEW m \in Messages, WritePushed(m)
    PROVE  \E cells \in Seq(Nat) :
              /\ Len(cells) = slotSize /\ Holds(cells, m)
              /\ m \in Fitting /\ RegionLen < slotCount
              /\ memory' = SlotMut(head % slotCount, cells)
              /\ head' = (head + 1) % CounterMod /\ tail' = tail
              /\ written' = written + 1 /\ outcome' = "Ok" /\ unread' = Append(unread, m)
              /\ UNCHANGED geometry
  <1>1. m \in Fitting
    BY DEF WritePushed, Fitting
  <1>2. /\ m.suspect \in Nat /\ m.sequence \in Nat /\ m.len \in Nat /\ m.bytes \in Seq(Nat)
        /\ Len(m.bytes) = m.len /\ m.len <= maxPayload
    BY <1>1, FittingFields
  <1>3. PICK i : i = head % slotCount /\ i \in 0 .. slotCount - 1
    BY NextSlotIsFree
  <1>4. PICK dst \in Seq(Nat) : dst = SlotRef(i) /\ Len(dst) = slotSize
    BY <1>3, TypeFacts, SlotRefCells
  <1>5. HeaderSize + m.len <= Len(dst)
    <2>1. HeaderSize + maxPayload <= slotSize /\ maxPayload \in Nat /\ slotSize \in Nat
      BY DEF TypeOK, GeometryOK
    <2> QED BY <1>2, <1>4, <2>1, SlotRegionAssumption
  <1>6. PICK cells \in Seq(Nat) :
           /\ Encode(SlotHeader(m), m.bytes, dst) = {cells}
           /\ Len(cells) = Len(dst) /\ Holds(cells, m)
    BY <1>2, <1>5, EncodeFits
  <1>7. Encode(SlotHeader(m), m.bytes, SlotRef(head % slotCount)) = {cells}
    BY <1>3, <1>4, <1>6
  <1>8. /\ memory' = SlotMut(head % slotCount, cells)
        /\ head' = (head + 1) % CounterMod /\ tail' = tail
        /\ written' = written + 1 /\ outcome' = "Ok" /\ unread' = Append(unread, m)
        /\ UNCHANGED geometry /\ RegionLen < slotCount
    BY <1>7 DEF WritePushed
  <1> QED BY <1>1, <1>4, <1>6, <1>8


(* A push keeps the unread messages and adds one.                          *)
LEMMA PushKeeps ==
    ASSUME SlotInv, NEW m \in Messages, WritePushed(m)
    PROVE  SlotInv'
  <1>1. PICK cells \in Seq(Nat) :
           /\ Len(cells) = slotSize /\ Holds(cells, m)
           /\ m \in Fitting /\ RegionLen < slotCount
           /\ memory' = SlotMut(head % slotCount, cells)
           /\ head' = (head + 1) % CounterMod /\ tail' = tail
           /\ written' = written + 1 /\ unread' = Append(unread, m)
           /\ UNCHANGED geometry
    BY PushFills DEF SlotInv
  <1>2. TypeOK /\ UnreadDecodes
    BY DEF SlotInv
  <1>3. /\ RegionOK /\ RegionLen \in Nat /\ RegionLen < CounterMod - 1
        /\ slotCount \in Nat \ {0} /\ CounterMod \in Nat /\ slotCount < CounterMod
        /\ unread \in Seq(Fitting) /\ Len(unread) = RegionLen
    BY <1>1, <1>2, TypeFacts
  <1>4. PICK i \in 0 .. slotCount - 1 : i = head % slotCount
    BY <1>2, NextSlotIsFree
  <1>5. /\ RegionOK'
        /\ \A c \in 1 .. SlotsOffset : memory'[c] = memory[c]
        /\ SlotRef(i)' = cells
        /\ \A j \in 0 .. slotCount - 1 : j # i => SlotRef(j)' = SlotRef(j)
    BY <1>1, <1>3, <1>4, SlotFilled
  <1>6. RegionLen' = RegionLen + 1
    BY <1>1, <1>2, <1>3, LenAfter DEF TypeOK
  <1> DEFINE u == Append(unread, m)
  <1>7. /\ u \in Seq(Fitting) /\ Len(u) = RegionLen + 1
        /\ \A k \in 1 .. RegionLen : u[k] = unread[k]
        /\ u[RegionLen + 1] = m
    BY <1>1, <1>3, AppendProperties
  <1>8. unread' = u
    BY <1>1
  <1> HIDE DEF u
  <1>9. TypeOK'
    <2>1. GeometryOK' /\ memory' \in Seq(Nat)
          /\ (Len(memory) = SlotsOffset + slotCount * slotSize)'
      BY <1>5 DEF RegionOK
    <2>2. head' \in 0 .. CounterMod - 1 /\ tail' \in 0 .. CounterMod - 1 /\ written' \in Nat
      BY <1>1, <1>2, CounterSucc DEF TypeOK
    <2>3. \A c \in 1 .. SlotsOffset : memory'[c] = Anonymous(slotCount, slotSize)[c]
      BY <1>2, <1>5 DEF TypeOK
    <2>4. (\A c \in 1 .. SlotsOffset : memory[c] = Anonymous(slotCount, slotSize)[c])'
      BY <1>1, <2>3 DEF Anonymous, geometry
    <2>5. (unread \in Seq(Fitting))' /\ Len(unread') = RegionLen'
      BY <1>1, <1>6, <1>7, <1>8 DEF Fitting, geometry
    <2>6. RegionLen' <= slotCount'
      BY <1>1, <1>3, <1>6 DEF geometry
    <2> QED BY <2>1, <2>2, <2>4, <2>5, <2>6 DEF TypeOK
  <1>10. ASSUME NEW k \in 1 .. RegionLen + 1
         PROVE  Decode(UnreadSlot(k))' = {[suspect |-> u[k].suspect,
                                           sequence |-> u[k].sequence,
                                           payload |-> u[k].bytes]}
    <2>1. PICK j : j = SlotOf(k) /\ j \in 0 .. slotCount - 1
      <3>1. k \in 1 .. CounterMod
        BY <1>3
      <3> QED BY <1>2, <3>1, NextSlotIsFree
    <2>2. UnreadSlot(k) = SlotRef(j)
      BY <2>1 DEF UnreadSlot, SlotOf
    <2>3. UnreadSlot(k)' = SlotRef(j)'
      <3>1. (tail' + k - 1) % slotCount' = j
        BY <1>1, <2>1 DEF SlotOf, geometry
      <3> QED BY <3>1 DEF UnreadSlot, SlotRef, SlotOffset
    <2>4. Decode(UnreadSlot(k))' = Decode(SlotRef(j)')
      BY <2>3 DEF Decode
    <2>5. CASE k = RegionLen + 1
      <3>1. j = i
        BY <1>2, <1>4, <2>1, <2>5, NextSlotIsFree
      <3>2. Decode(UnreadSlot(k))' = Decode(cells)
        BY <1>5, <2>4, <3>1
      <3>3. HeaderSize + m.len <= Len(cells)
        <4>1. HeaderSize + maxPayload <= slotSize /\ maxPayload \in Nat /\ slotSize \in Nat
          BY <1>2 DEF TypeOK, GeometryOK
        <4>2. m.len \in Nat /\ m.len <= maxPayload
          BY <1>1, FittingFields
        <4> QED BY <1>1, <4>1, <4>2, SlotRegionAssumption
      <3>4. Decode(cells) = {[suspect |-> m.suspect, sequence |-> m.sequence, payload |-> m.bytes]}
        BY <1>1, <3>3, FittingFields, DecodeOfEncoded
      <3> QED BY <1>7, <2>5, <3>2, <3>4
    <2>6. CASE k # RegionLen + 1
      <3>1. k \in 1 .. RegionLen /\ k \in DOMAIN unread
        BY <1>2, <1>3, <2>6, TypeFacts
      <3>2. j # i
        BY <1>1, <1>2, <1>4, <2>1, <3>1, NextSlotIsFree
      <3>3. Decode(UnreadSlot(k))' = Decode(UnreadSlot(k))
        BY <1>5, <2>1, <2>2, <2>4, <3>2
      <3>4. Decode(UnreadSlot(k)) = {[suspect |-> unread[k].suspect,
                                      sequence |-> unread[k].sequence,
                                      payload |-> unread[k].bytes]}
        BY <1>2, <3>1 DEF UnreadDecodes
      <3> QED BY <1>7, <3>1, <3>3, <3>4
    <2> QED BY <2>5, <2>6
  <1>11. UnreadDecodes'
    <2>1. DOMAIN unread' = 1 .. RegionLen + 1
      BY <1>7, <1>8, LenProperties
    <2> QED BY <1>8, <1>10, <2>1 DEF UnreadDecodes
  <1> QED BY <1>9, <1>11 DEF SlotInv


(* The memory and the geometry stay: what is not about the counters or the *)
(* unread messages stays true.                                             *)
LEMMA MemoryKept ==
    ASSUME TypeOK, UNCHANGED <<geometry, memory>>,
           head' \in 0 .. CounterMod - 1, tail' \in 0 .. CounterMod - 1, written' \in Nat,
           unread' \in Seq(Fitting), Len(unread') = RegionLen', RegionLen' <= slotCount
    PROVE  TypeOK' /\ \A j \in 0 .. slotCount - 1 : SlotRef(j)' = SlotRef(j)
  <1>1. slotCount' = slotCount /\ maxPayload' = maxPayload /\ slotSize' = slotSize /\ memory' = memory
    BY DEF geometry
  <1>2. GeometryOK' /\ Fitting' = Fitting /\ Anonymous(slotCount, slotSize)' = Anonymous(slotCount, slotSize)
    BY <1>1 DEF TypeOK, GeometryOK, Fitting, Anonymous
  <1>3. TypeOK'
    BY <1>1, <1>2 DEF TypeOK
  <1>4. ASSUME NEW j \in 0 .. slotCount - 1 PROVE SlotRef(j)' = SlotRef(j)
    BY <1>1 DEF SlotRef, SlotOffset
  <1> QED BY <1>3, <1>4

(* A pop leaves the other unread messages, one place further in front.     *)
LEMMA PopKeeps ==
    ASSUME SlotInv, Pop
    PROVE  SlotInv'
  <1>1. /\ RegionLen > 0 /\ tail' = (tail + 1) % CounterMod /\ head' = head /\ written' = written
        /\ UNCHANGED <<geometry, memory>> /\ slotCount' = slotCount /\ slotSize' = slotSize
    BY DEF Pop, geometry
  <1>2. TypeOK /\ UnreadDecodes
    BY DEF SlotInv
  <1>3. /\ RegionLen \in Nat /\ RegionLen <= slotCount /\ slotCount \in Nat \ {0}
        /\ unread \in Seq(Fitting) /\ Len(unread) = RegionLen /\ DOMAIN unread = 1 .. RegionLen
        /\ slotCount < CounterMod /\ CounterMod \in Nat
    BY <1>2, TypeFacts
  <1>4. RegionLen' = RegionLen - 1
    BY <1>1, <1>2, LenAfter DEF TypeOK
  <1>5. unread # <<>>
    BY <1>1, <1>3
  <1> DEFINE u == Tail(unread)
  <1>6. /\ u \in Seq(Fitting) /\ Len(u) = RegionLen - 1
        /\ \A k \in 1 .. RegionLen - 1 : u[k] = unread[k + 1]
    BY <1>3, <1>5, HeadTailProperties
  <1>7. unread' = u
    BY DEF Pop
  <1> HIDE DEF u
  <1>8. TypeOK' /\ \A j \in 0 .. slotCount - 1 : SlotRef(j)' = SlotRef(j)
    <2>1. head' \in 0 .. CounterMod - 1 /\ tail' \in 0 .. CounterMod - 1 /\ written' \in Nat
      BY <1>1, <1>2, CounterSucc DEF TypeOK
    <2>2. RegionLen' <= slotCount /\ Len(unread') = RegionLen' /\ unread' \in Seq(Fitting)
      BY <1>3, <1>4, <1>6, <1>7
    <2> QED BY <1>1, <1>2, <2>1, <2>2, MemoryKept
  <1>9. ASSUME NEW k \in 1 .. RegionLen - 1
        PROVE  Decode(UnreadSlot(k))' = {[suspect |-> u[k].suspect,
                                          sequence |-> u[k].sequence,
                                          payload |-> u[k].bytes]}
    <2>1. /\ k \in Nat \ {0} /\ k + 1 \in 1 .. RegionLen /\ k + 1 \in 1 .. CounterMod
          /\ k + 1 \in DOMAIN unread
      BY <1>3
    <2>2. PICK j : j = SlotOf(k + 1) /\ j \in 0 .. slotCount - 1
      BY <1>2, <2>1, NextSlotIsFree
    <2>3. SlotOf(k)' = j
      BY <1>1, <1>2, <2>1, <2>2, SlotsAfterPop
    <2>4. UnreadSlot(k)' = SlotRef(j)'
      <3>1. (tail' + k - 1) % slotCount' = j
        BY <2>3 DEF SlotOf
      <3> QED BY <3>1 DEF UnreadSlot, SlotRef, SlotOffset
    <2>5. UnreadSlot(k + 1) = SlotRef(j)
      BY <2>2 DEF UnreadSlot, SlotOf
    <2>6. Decode(UnreadSlot(k))' = Decode(UnreadSlot(k + 1))
      <3>1. UnreadSlot(k)' = UnreadSlot(k + 1)
        BY <1>8, <2>2, <2>4, <2>5
      <3> QED BY <3>1 DEF Decode
    <2>7. Decode(UnreadSlot(k + 1)) = {[suspect |-> unread[k + 1].suspect,
                                        sequence |-> unread[k + 1].sequence,
                                        payload |-> unread[k + 1].bytes]}
      BY <1>2, <2>1 DEF UnreadDecodes
    <2> QED BY <1>6, <2>6, <2>7
  <1>10. UnreadDecodes'
    <2>1. DOMAIN unread' = 1 .. RegionLen - 1
      BY <1>6, <1>7, LenProperties
    <2> QED BY <1>7, <1>9, <2>1 DEF UnreadDecodes
  <1> QED BY <1>8, <1>10 DEF SlotInv

(* init empties the ring.                                                  *)
LEMMA InitKeeps ==
    ASSUME SlotInv, InitCall
    PROVE  SlotInv'
  <1>1. /\ tail' = head /\ head' = head /\ written' = 0 /\ unread' = <<>>
        /\ UNCHANGED <<geometry, memory>>
    BY DEF InitCall, geometry
  <1>2. TypeOK
    BY DEF SlotInv
  <1>3. RegionLen' = 0
    BY <1>1, <1>2, LenAfter DEF TypeOK
  <1>4. unread' \in Seq(Fitting) /\ Len(unread') = 0
    BY <1>1
  <1>5. TypeOK'
    <2>1. head' \in 0 .. CounterMod - 1 /\ tail' \in 0 .. CounterMod - 1 /\ written' \in Nat
      BY <1>1, <1>2 DEF TypeOK
    <2>2. RegionLen' <= slotCount
      BY <1>2, <1>3, TypeFacts
    <2> QED BY <1>1, <1>2, <1>3, <1>4, <2>1, <2>2, MemoryKept
  <1>6. UnreadDecodes'
    BY <1>1 DEF UnreadDecodes
  <1> QED BY <1>5, <1>6 DEF SlotInv

(* A call that is refused, and a step outside the sink, leave it alone.    *)
LEMMA RefusedKeeps ==
    ASSUME SlotInv, UNCHANGED <<geometry, memory, head, tail, written, unread>>
    PROVE  SlotInv'
  <1>1. /\ slotCount' = slotCount /\ maxPayload' = maxPayload /\ slotSize' = slotSize
        /\ memory' = memory /\ head' = head /\ tail' = tail /\ written' = written
        /\ unread' = unread
    BY DEF geometry
  <1>2. TypeOK'
    <2>1. RegionLen' = RegionLen
      BY <1>1 DEF RegionLen
    <2> QED BY <1>1, <2>1, MemoryKept DEF SlotInv, TypeOK, geometry
  <1>3. UnreadDecodes'
    <2>1. \A k \in DOMAIN unread : UnreadSlot(k)' = UnreadSlot(k)
      BY <1>1 DEF UnreadSlot, SlotRef, SlotOffset
    <2>2. \A k \in DOMAIN unread : Decode(UnreadSlot(k))' = Decode(UnreadSlot(k))
      BY <2>1 DEF Decode
    <2> QED BY <1>1, <2>2 DEF SlotInv, UnreadDecodes
  <1> QED BY <1>2, <1>3 DEF SlotInv

(* Every call keeps the invariant of the slots.                            *)
LEMMA SlotInvNext == SlotInv /\ [Next]_vars => SlotInv'
  <1> SUFFICES ASSUME SlotInv, [Next]_vars PROVE SlotInv'
    OBVIOUS
  <1>1. ASSUME NEW m \in Messages, WriteRefused(m) \/ WriteFull(m) PROVE SlotInv'
    BY <1>1, RefusedKeeps DEF WriteRefused, WriteFull
  <1>2. ASSUME NEW m \in Messages, WritePushed(m) PROVE SlotInv'
    BY <1>2, PushKeeps
  <1>3. CASE Pop
    BY <1>3, PopKeeps
  <1>4. CASE InitCall
    BY <1>4, InitKeeps
  <1>5. CASE UNCHANGED vars
    BY <1>5, RefusedKeeps DEF vars
  <1> QED BY <1>1, <1>2, <1>3, <1>4, <1>5 DEF Next

(* The region is well formed and every unread slot decodes to the message  *)
(* that was written into it, for every geometry SharedMemorySink::new      *)
(* accepts and every word size: a slot is used again only when its message *)
(* has been read, a longer message of an earlier turn never shows through, *)
(* and no message touches its neighbour or the header of the region.       *)
THEOREM SlotInvHolds == Spec => []SlotInv
  BY SlotInvInit, SlotInvNext, PTL DEF Spec

-----------------------------------------------------------------------------
(* The abstract sink                                                       *)

(* What the region shows is what was written and not read.                 *)
LEMMA ViewIsUnread == SlotInv => View = [ring |-> unread, written |-> written]
  <1> SUFFICES ASSUME SlotInv PROVE View = [ring |-> unread, written |-> written]
    OBVIOUS
  <1>1. TypeOK /\ UnreadDecodes
    BY DEF SlotInv
  <1>2. /\ DOMAIN unread = 1 .. RegionLen /\ unread \in Seq(Fitting)
        /\ \A k \in 1 .. RegionLen : unread[k] \in Fitting
    BY <1>1, TypeFacts
  <1> DEFINE r == [k \in 1 .. RegionLen |->
                     LET d == CHOOSE x \in Decode(UnreadSlot(k)) : TRUE
                     IN  [suspect |-> d.suspect, sequence |-> d.sequence,
                          len |-> Len(d.payload), bytes |-> d.payload]]
  <1>3. ASSUME NEW k \in 1 .. RegionLen PROVE r[k] = unread[k]
    <2> DEFINE e == [suspect |-> unread[k].suspect, sequence |-> unread[k].sequence,
                     payload |-> unread[k].bytes]
               d == CHOOSE x \in Decode(UnreadSlot(k)) : TRUE
    <2>1. Decode(UnreadSlot(k)) = {e}
      BY <1>1, <1>2 DEF UnreadDecodes
    <2>2. d = e
      BY <2>1
    <2> HIDE DEF d
    <2>3. /\ d.suspect = unread[k].suspect /\ d.sequence = unread[k].sequence
          /\ d.payload = unread[k].bytes
      BY <2>2
    <2>4. /\ unread[k] \in [suspect : Nat, sequence : Nat, len : Nat, bytes : Seq(Nat)]
          /\ Len(unread[k].bytes) = unread[k].len
      BY <1>2, FittingFields
    <2>5. unread[k] = [suspect |-> d.suspect, sequence |-> d.sequence,
                       len |-> Len(d.payload), bytes |-> d.payload]
      BY <2>3, <2>4
    <2> QED BY <2>5 DEF d
  <1>4. r = unread
    <2> HIDE DEF r
    <2>1. r = [k \in DOMAIN r |-> r[k]] /\ DOMAIN r = 1 .. RegionLen
      BY DEF r
    <2>2. unread = [k \in 1 .. RegionLen |-> unread[k]]
      BY <1>2, LenProperties
    <2> QED BY <1>3, <2>1, <2>2
  <1> QED BY <1>4 DEF View

(* The bytes implement the queue of messages of SharedMemorySink: what     *)
(* write answers and what write, pop and init do to the decoded contents   *)
(* of the region is what the abstract sink says.                           *)
THEOREM SinkAsPromisedHolds == Spec => SinkAsPromised
  <1> DEFINE Step ==
        /\ \A m \in Messages : Write(m) =>
             /\ outcome' = Sink!WriteResult(View, KindOf(m))
             /\ View' = IF outcome' = "Ok" THEN Sink!Written(View, m) ELSE View
        /\ Pop => View' = Sink!Popped(View)
        /\ InitCall => View' = Sink!ResetRing(View)
  <1>1. SlotInv /\ SlotInv' /\ Next => Step
    <2> SUFFICES ASSUME SlotInv, SlotInv' PROVE Step
      OBVIOUS
    <2>1. View = [ring |-> unread, written |-> written]
      BY ViewIsUnread
    <2>2. View' = [ring |-> unread', written |-> written']
      <3>1. (SlotInv => View = [ring |-> unread, written |-> written])'
        BY ViewIsUnread, PTL
      <3> QED BY <3>1
    <2>3. Len(unread) = RegionLen /\ RegionLen \in Nat /\ slotCount \in Nat
      BY TypeFacts DEF SlotInv
    <2>4. View.ring = unread /\ View.written = written
      BY <2>1
    <2> HIDE DEF View
    <2>5. ASSUME NEW m \in Messages, WriteRefused(m)
          PROVE  /\ outcome' = Sink!WriteResult(View, KindOf(m))
                 /\ View' = IF outcome' = "Ok" THEN Sink!Written(View, m) ELSE View
      <3>1. View' = View
        BY <2>1, <2>2, <2>5 DEF WriteRefused
      <3>2. m.len \in Nat /\ maxPayload \in Nat
        BY SlotRegionAssumption DEF SlotInv, TypeOK, GeometryOK
      <3>3. outcome' = Sink!WriteResult(View, KindOf(m)) /\ outcome' # "Ok"
        BY <2>5, <3>2 DEF WriteRefused, Sink!WriteResult, KindOf
      <3> QED BY <3>1, <3>3
    <2>6. ASSUME NEW m \in Messages, WriteFull(m)
          PROVE  /\ outcome' = Sink!WriteResult(View, KindOf(m))
                 /\ View' = IF outcome' = "Ok" THEN Sink!Written(View, m) ELSE View
      <3>1. View' = View
        BY <2>1, <2>2, <2>6 DEF WriteFull
      <3>2. m.len \in Nat /\ maxPayload \in Nat
        BY SlotRegionAssumption DEF SlotInv, TypeOK, GeometryOK
      <3>3. KindOf(m) = "msg"
        BY <2>6, <3>2 DEF WriteFull, KindOf
      <3>4. outcome' = Sink!WriteResult(View, KindOf(m)) /\ outcome' # "Ok"
        BY <2>3, <2>4, <2>6, <3>3 DEF WriteFull, Sink!WriteResult
      <3> QED BY <3>1, <3>4
    <2>7. ASSUME NEW m \in Messages, WritePushed(m)
          PROVE  /\ outcome' = Sink!WriteResult(View, KindOf(m))
                 /\ View' = IF outcome' = "Ok" THEN Sink!Written(View, m) ELSE View
      <3>1. /\ outcome' = "Ok" /\ unread' = Append(unread, m) /\ written' = written + 1
            /\ m \in Fitting /\ RegionLen < slotCount
        BY <2>7, PushFills DEF SlotInv
      <3>2. KindOf(m) = "msg"
        <4>1. m.len \in Nat /\ maxPayload \in Nat /\ m.len <= maxPayload /\ Len(m.bytes) = m.len
          BY <3>1, FittingFields DEF SlotInv, TypeOK, GeometryOK
        <4> QED BY <4>1 DEF KindOf
      <3>3. Sink!WriteResult(View, KindOf(m)) = "Ok"
        BY <2>3, <2>4, <3>1, <3>2 DEF Sink!WriteResult
      <3>4. View' = Sink!Written(View, m)
        BY <2>2, <2>4, <3>1 DEF Sink!Written
      <3> QED BY <3>1, <3>3, <3>4
    <2>8. ASSUME Pop PROVE View' = Sink!Popped(View)
      <3>1. unread' = Tail(unread) /\ written' = written
        BY <2>8 DEF Pop
      <3>2. Sink!Popped(View) = [ring |-> Tail(unread), written |-> written]
        <4>1. ASSUME NEW r, NEW w, NEW t
              PROVE  [[ring |-> r, written |-> w] EXCEPT !.ring = t]
                       = [ring |-> t, written |-> w]
          OBVIOUS
        <4>2. Sink!Popped(View) = [View EXCEPT !.ring = Tail(View.ring)]
          BY DEF Sink!Popped
        <4> QED BY <2>1, <2>4, <4>1, <4>2
      <3> QED BY <2>2, <3>1, <3>2
    <2>9. ASSUME InitCall PROVE View' = Sink!ResetRing(View)
      BY <2>2, <2>9 DEF InitCall, Sink!ResetRing
    <2> QED BY <2>5, <2>6, <2>7, <2>8, <2>9 DEF Write
  <1>2. SlotInv /\ SlotInv' /\ [Next]_vars => [Step]_vars
    BY <1>1
  <1> QED BY <1>2, SlotInvHolds, PTL DEF Spec, SinkAsPromised
=============================================================================
