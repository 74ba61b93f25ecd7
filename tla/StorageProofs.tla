--------------------------- MODULE StorageProofs ----------------------------
(***************************************************************************)
(* The file source cuts its file into the right records for every file,    *)
(* framing strategy, end-of-file policy, size of the reads and capacity of *)
(* the batch, when the caller resets its batch before a poll and does not  *)
(* poll again after a failed read.  The virtual storage around it and the  *)
(* replay of what it passes on are correct for every fault, size of the    *)
(* batches and replay mode as well, without the reset of the batch.        *)
(*                                                                         *)
(* What a framer says of the buffer it also says of the whole file from    *)
(* there on; with that FileInv is inductive.  The scratch batch of the     *)
(* virtual storage is never reset, so the records it holds may be of an    *)
(* earlier poll or session.  They are still records of the file, because   *)
(* the file keeps its records when it grows.                               *)
(***************************************************************************)
EXTENDS VirtualStorage, ModularArithmetic, SequenceTheorems, FiniteSetTheorems

-----------------------------------------------------------------------------
(* Pieces of sequences                                                     *)

(* The bytes of a sequence between two offsets.                            *)
LEMMA Slice ==
    ASSUME NEW s \in Seq(Bytes), NEW a \in Nat, NEW b \in Nat, a <= b, b <= Len(s)
    PROVE  /\ SubSeq(s, a + 1, b) \in Seq(Bytes)
           /\ Len(SubSeq(s, a + 1, b)) = b - a
           /\ \A i \in 1 .. b - a : SubSeq(s, a + 1, b)[i] = s[a + i]
  <1>1. \A i \in a + 1 .. b : s[i] \in Bytes
    BY ElementOfSeq
  <1>2. /\ SubSeq(s, a + 1, b) \in Seq(Bytes)
        /\ Len(SubSeq(s, a + 1, b)) = IF a + 1 <= b THEN b - (a + 1) + 1 ELSE 0
        /\ \A i \in 1 .. b - (a + 1) + 1 : SubSeq(s, a + 1, b)[i] = s[a + 1 + i - 1]
    BY <1>1, SubSeqProperties
  <1>3. b - (a + 1) + 1 = b - a /\ \A i \in Nat : a + 1 + i - 1 = a + i
    OBVIOUS
  <1> QED BY <1>2, <1>3

(* One sequence begins with the other.                                     *)
Begins(s, t) == Len(s) <= Len(t) /\ \A i \in 1 .. Len(s) : s[i] = t[i]

(* The same piece of two sequences that begin alike.                       *)
LEMMA SameSlice ==
    ASSUME NEW s \in Seq(Bytes), NEW t \in Seq(Bytes), Begins(s, t),
           NEW a \in Nat, NEW b \in Nat, a <= b, b <= Len(s)
    PROVE  SubSeq(s, a + 1, b) = SubSeq(t, a + 1, b)
  <1> DEFINE u == SubSeq(s, a + 1, b)
             v == SubSeq(t, a + 1, b)
  <1>1. Len(s) \in Nat /\ Len(t) \in Nat /\ b <= Len(t)
    BY LenProperties DEF Begins
  <1>2. /\ u \in Seq(Bytes) /\ Len(u) = b - a
        /\ \A i \in 1 .. b - a : u[i] = s[a + i]
    BY <1>1, Slice
  <1>3. /\ v \in Seq(Bytes) /\ Len(v) = b - a
        /\ \A i \in 1 .. b - a : v[i] = t[a + i]
    BY <1>1, Slice
  <1>4. \A i \in 1 .. b - a : s[a + i] = t[a + i]
    BY <1>1 DEF Begins
  <1> HIDE DEF u, v
  <1>5. \A i \in 1 .. Len(u) : u[i] = v[i]
    BY <1>2, <1>3, <1>4
  <1>6. u = v
    BY <1>2, <1>3, <1>5, SeqEqual
  <1> QED BY <1>6 DEF u, v

(* A piece of a piece.                                                     *)
LEMMA SliceOfSlice ==
    ASSUME NEW s \in Seq(Bytes), NEW a \in Nat, NEW b \in Nat, a <= b, b <= Len(s),
           NEW c \in Nat, NEW d \in Nat, c <= d, d <= b - a
    PROVE  SubSeq(SubSeq(s, a + 1, b), c + 1, d) = SubSeq(s, a + c + 1, a + d)
  <1> DEFINE w == SubSeq(s, a + 1, b)
             u == SubSeq(w, c + 1, d)
             v == SubSeq(s, (a + c) + 1, a + d)
  <1>1. Len(s) \in Nat
    BY LenProperties
  <1>2. /\ w \in Seq(Bytes) /\ Len(w) = b - a
        /\ \A i \in 1 .. b - a : w[i] = s[a + i]
    BY <1>1, Slice
  <1>3. /\ v \in Seq(Bytes) /\ Len(v) = (a + d) - (a + c)
        /\ \A i \in 1 .. (a + d) - (a + c) : v[i] = s[(a + c) + i]
    <2>1. a + c \in Nat /\ a + d \in Nat /\ a + c <= a + d /\ a + d <= Len(s)
      BY <1>1
    <2> QED BY <2>1, Slice
  <1> HIDE DEF w, v
  <1>4. /\ u \in Seq(Bytes) /\ Len(u) = d - c
        /\ \A i \in 1 .. d - c : u[i] = w[c + i]
    BY <1>1, <1>2, Slice
  <1> HIDE DEF u
  <1>5. \A i \in 1 .. Len(u) : u[i] = v[i]
    <2> SUFFICES ASSUME NEW i \in 1 .. d - c PROVE u[i] = v[i]
      BY <1>4
    <2>1. c + i \in 1 .. b - a /\ i \in 1 .. (a + d) - (a + c)
      OBVIOUS
    <2>2. u[i] = s[a + (c + i)] /\ v[i] = s[(a + c) + i]
      BY <1>2, <1>3, <1>4, <2>1
    <2>3. a + (c + i) = (a + c) + i
      OBVIOUS
    <2> QED BY <2>2, <2>3
  <1>6. Len(u) = Len(v)
    BY <1>3, <1>4
  <1>7. u = v
    BY <1>3, <1>4, <1>5, <1>6, SeqEqual
  <1> QED BY <1>7 DEF u, v, w

-----------------------------------------------------------------------------
(* The framing strategies                                                  *)

(* Min is the smallest one.                                                *)
LEMMA Smallest ==
    ASSUME NEW S, S \subseteq Nat, S # {}
    PROVE  Min(S) \in S /\ \A y \in S : Min(S) <= y
  <1>1. \E x \in S : \A y \in S : x <= y
    BY SmallestNumber
  <1> QED BY <1>1 DEF Min

(* What a framer finds in a buffer it finds as well when the buffer goes   *)
(* on: later bytes do not move the end of a record.                        *)
LEMMA FramerStable ==
    ASSUME NEW f \in Framer, NEW a \in Seq(Bytes), NEW b \in Seq(Bytes), Begins(a, b),
           NextRecordLen(f, a) \in 1 .. Len(a)
    PROVE  NextRecordLen(f, b) = NextRecordLen(f, a)
  <1>0. Len(a) \in Nat /\ Len(b) \in Nat /\ Len(a) <= Len(b) /\ Len(a) >= 1
    BY LenProperties DEF Begins
  <1>1. CASE f.kind = "fixed"
    <2>1. f.recordLen \in Nat
      BY <1>1 DEF Framer
    <2>2. NextRecordLen(f, a) = FixedLength(f, a) /\ NextRecordLen(f, b) = FixedLength(f, b)
      BY <1>1 DEF NextRecordLen
    <2> QED BY <1>0, <2>1, <2>2 DEF FixedLength, NeedMore
  <1>2. CASE f.kind = "prefixed"
    <2>1. f.width \in Nat /\ f.maxPayload \in Nat
      BY <1>2 DEF Framer
    <2>2. NextRecordLen(f, a) = LengthPrefixed(f, a) /\ NextRecordLen(f, b) = LengthPrefixed(f, b)
      BY <1>2 DEF NextRecordLen
    <2>3. Len(a) >= f.width
      BY <1>0, <2>1, <2>2 DEF LengthPrefixed, NeedMore
    <2>4. SubSeq(a, 1, f.width) = SubSeq(b, 1, f.width)
      <3>1. \A z, w \in Nat : z <= w /\ w <= Len(a) =>
                SubSeq(a, z + 1, w) = SubSeq(b, z + 1, w)
        BY SameSlice
      <3>2. 0 \in Nat /\ 0 <= f.width
        BY <2>1
      <3>3. SubSeq(a, 0 + 1, f.width) = SubSeq(b, 0 + 1, f.width)
        BY <2>1, <2>3, <3>1, <3>2, Zenon
      <3>4. 0 + 1 = 1
        OBVIOUS
      <3> QED BY <3>3, <3>4, Zenon
    <2>5. ReadPrefix(a, f.width) = ReadPrefix(b, f.width)
      BY <2>4 DEF ReadPrefix
    <2> QED BY <1>0, <2>1, <2>2, <2>3, <2>5 DEF LengthPrefixed, NeedMore, FrameError
  <1>3. CASE f.kind = "delimited"
    <2> DEFINE A == {i \in DOMAIN a : i <= f.maxLen /\ a[i] = f.byte}
               B == {i \in DOMAIN b : i <= f.maxLen /\ b[i] = f.byte}
    <2>1. DOMAIN a = 1 .. Len(a) /\ DOMAIN b = 1 .. Len(b)
      BY LenProperties
    <2>2. A \subseteq 1 .. Len(a) /\ B \subseteq Nat
      BY <1>0, <2>1
    <2>3. A \subseteq B /\ \A y \in B : y <= Len(a) => y \in A
      BY <1>0, <2>1 DEF Begins
    <2>4. NextRecordLen(f, a) = Delimiter(f, a) /\ NextRecordLen(f, b) = Delimiter(f, b)
      BY <1>3 DEF NextRecordLen
    <2>5. /\ A # {} => Delimiter(f, a) = Min(A)
          /\ A = {} => Delimiter(f, a) \in {FrameError, NeedMore}
          /\ B # {} => Delimiter(f, b) = Min(B)
      BY DEF Delimiter
    <2> HIDE DEF A, B
    <2>6. A # {}
      BY <2>4, <2>5 DEF NeedMore, FrameError
    <2>7. Min(A) \in A /\ \A y \in A : Min(A) <= y
      <3>1. A \subseteq Nat
        BY <2>2
      <3> QED BY <2>6, <3>1, Smallest
    <2>8. Min(B) \in B /\ \A y \in B : Min(B) <= y
      BY <2>2, <2>3, <2>6, Smallest
    <2>9. Min(A) = Min(B)
      <3>1. PICK m \in Nat, n \in Nat : m = Min(A) /\ n = Min(B)
        BY <2>2, <2>3, <2>7, <2>8
      <3>2. n <= m /\ m <= Len(a)
        BY <2>2, <2>3, <2>7, <2>8, <3>1
      <3>3. n \in A
        BY <1>0, <2>3, <2>8, <3>1, <3>2
      <3>4. m <= n
        BY <2>7, <3>1, <3>3
      <3> QED BY <3>1, <3>2, <3>4
    <2> QED BY <2>3, <2>4, <2>5, <2>6, <2>9
  <1>4. CASE f.kind = "custom"
    <2>1. NextRecordLen(f, a) = Custom(a) /\ NextRecordLen(f, b) = Custom(b)
      BY <1>4 DEF NextRecordLen
    <2>2. Head(a) = a[1] /\ Head(b) = b[1] /\ a[1] = b[1]
      BY <1>0, HeadTailProperties DEF Begins
    <2> QED BY <2>1, <2>2 DEF Custom
  <1> QED BY <1>1, <1>2, <1>3, <1>4 DEF Framer


(* What the framer says of a record that is complete stays as it is when   *)
(* bytes are added to the file.                                            *)
LEMMA LenAtStable ==
    ASSUME framer \in Framer, NEW s \in Seq(Bytes), NEW t \in Seq(Bytes), Begins(s, t),
           NEW o \in Nat, o <= Len(s), LenAt(s, o) \in 1 .. Len(s) - o
    PROVE  LenAt(t, o) = LenAt(s, o)
  <1> DEFINE u == SubSeq(s, o + 1, Len(s))
             v == SubSeq(t, o + 1, Len(t))
  <1>1. Len(s) \in Nat /\ Len(t) \in Nat /\ Len(s) <= Len(t)
    BY LenProperties DEF Begins
  <1>2. /\ u \in Seq(Bytes) /\ Len(u) = Len(s) - o
        /\ \A i \in 1 .. Len(s) - o : u[i] = s[o + i]
    BY <1>1, Slice
  <1>3. /\ v \in Seq(Bytes) /\ Len(v) = Len(t) - o
        /\ \A i \in 1 .. Len(t) - o : v[i] = t[o + i]
    BY <1>1, Slice
  <1>4. NextRecordLen(framer, u) \in 1 .. Len(u)
    BY <1>2 DEF LenAt
  <1> HIDE DEF u, v
  <1>5. Begins(u, v)
    BY <1>1, <1>2, <1>3 DEF Begins
  <1>6. NextRecordLen(framer, v) = NextRecordLen(framer, u)
    BY <1>2, <1>3, <1>4, <1>5, FramerStable
  <1> QED BY <1>6 DEF LenAt, u, v

(* So a record of the file stays a record of the file.                     *)
LEMMA CompleteStays ==
    ASSUME framer \in Framer, NEW s \in Seq(Bytes), NEW t \in Seq(Bytes), Begins(s, t),
           NEW o \in Nat, Complete(s, o)
    PROVE  Complete(t, o) /\ LenAt(t, o) = LenAt(s, o) /\ BytesAt(t, o) = BytesAt(s, o)
  <1>1. Len(s) \in Nat /\ Len(t) \in Nat /\ Len(s) <= Len(t)
    BY LenProperties DEF Begins
  <1>2. o <= Len(s) /\ LenAt(s, o) \in 1 .. Len(s) - o /\ LenAt(s, o) <= MaxRecordSize
    BY <1>1 DEF Complete
  <1>3. LenAt(t, o) = LenAt(s, o)
    BY <1>2, LenAtStable
  <1>4. PICK n \in Nat : n = LenAt(s, o) /\ n >= 1 /\ n <= Len(s) - o
    BY <1>1, <1>2
  <1>5. SubSeq(s, o + 1, o + n) = SubSeq(t, o + 1, o + n)
    <2>1. o + n \in Nat /\ o <= o + n /\ o + n <= Len(s)
      BY <1>1, <1>4
    <2> QED BY <2>1, SameSlice
  <1>6. BytesAt(t, o) = BytesAt(s, o)
    BY <1>3, <1>4, <1>5 DEF BytesAt
  <1>7. Complete(t, o)
    BY <1>1, <1>2, <1>3 DEF Complete
  <1> QED BY <1>3, <1>6, <1>7

(* The length and the bytes of a record that is complete.                  *)
LEMMA CompleteBytes ==
    ASSUME NEW s \in Seq(Bytes), NEW o \in Nat, Complete(s, o)
    PROVE  /\ BytesAt(s, o) \in Seq(Bytes) /\ Len(BytesAt(s, o)) = LenAt(s, o)
           /\ LenAt(s, o) \in Nat \ {0} /\ o + LenAt(s, o) <= Len(s)
  <1>1. Len(s) \in Nat
    BY LenProperties
  <1>2. PICK n \in Nat : n = LenAt(s, o) /\ n >= 1 /\ n <= Len(s) - o
    BY <1>1 DEF Complete
  <1>3. o + n \in Nat /\ o <= o + n /\ o + n <= Len(s)
    BY <1>1, <1>2
  <1>4. SubSeq(s, o + 1, o + n) \in Seq(Bytes) /\ Len(SubSeq(s, o + 1, o + n)) = (o + n) - o
    BY <1>3, Slice
  <1>5. (o + n) - o = n
    BY <1>2
  <1>6. BytesAt(s, o) \in Seq(Bytes) /\ Len(BytesAt(s, o)) = LenAt(s, o)
    BY <1>2, <1>4, <1>5, Zenon DEF BytesAt
  <1> QED BY <1>2, <1>3, <1>6

-----------------------------------------------------------------------------
(* The records of a whole file                                             *)

(* A record of a file, and where the records after the first k go on.      *)
Piece == [offset : Nat, bytes : Seq(Bytes)]

PieceAt(s, o) == [offset |-> o, bytes |-> BytesAt(s, o)]

Place(R, o, k) == IF k = 0 THEN o ELSE R[k].offset + Len(R[k].bytes)

(* The records of s from the offset o on.                                  *)
IsFraming(R, s, o) ==
    /\ R \in Seq(Piece)
    /\ \A k \in 0 .. Len(R) - 1 :
         /\ Place(R, o, k) \in Nat /\ Complete(s, Place(R, o, k))
         /\ R[k + 1] = PieceAt(s, Place(R, o, k))
    /\ Place(R, o, Len(R)) \in Nat /\ ~Complete(s, Place(R, o, Len(R)))

(* One step of the recursion.                                              *)
Unfolds(f, s, o) ==
    f[o] = IF ~Complete(s, o) THEN <<>>
           ELSE <<PieceAt(s, o)>> \o f[o + LenAt(s, o)]

(* The recursion is well founded: it has a solution.                       *)
LEMMA FramingExists ==
    ASSUME NEW s \in Seq(Bytes)
    PROVE  \E f : f = [o \in 0 .. Len(s) |->
                         IF ~Complete(s, o) THEN <<>>
                         ELSE <<PieceAt(s, o)>> \o f[o + LenAt(s, o)]]
  <1>1. PICK N \in Nat : N = Len(s)
    BY LenProperties
  <1>2. \A o \in 0 .. N : Complete(s, o) =>
          LenAt(s, o) \in Nat \ {0} /\ o + LenAt(s, o) \in 0 .. N
    BY <1>1, CompleteBytes
  <1> DEFINE Step(g, o) == IF ~Complete(s, o) THEN <<>>
                           ELSE <<PieceAt(s, o)>> \o g[o + LenAt(s, o)]
             Solves(g, k) == g = [o \in N - k .. N |-> Step(g, o)]
             T == {k \in Nat : k <= N => \E g : Solves(g, k)}
  <1>3. 0 \in T
    <2>1. Solves([o \in N - 0 .. N |-> <<>>], 0)
      <3>1. \A o \in N - 0 .. N : o = N
        BY <1>1
      <3>2. \A o \in N - 0 .. N : ~Complete(s, o)
        BY <1>1, <3>1 DEF Complete
      <3> QED BY <3>2
    <2> HIDE DEF Solves
    <2> QED BY <2>1
  <1>4. ASSUME NEW k \in Nat, k \in T PROVE k + 1 \in T
    <2>1. SUFFICES ASSUME k + 1 <= N PROVE \E g : Solves(g, k + 1)
      OBVIOUS
    <2>2. PICK g : Solves(g, k)
      BY <1>1, <1>4, <2>1
    <2> DEFINE m == N - (k + 1)
               h == [o \in m .. N |-> IF o = m THEN Step(g, m) ELSE g[o]]
    <2>3. m \in Nat /\ m + 1 = N - k /\ m < N /\ m = N - (k + 1)
      BY <1>1, <2>1
    <2> HIDE DEF m
    <2>4. \A o \in N - k .. N : o \in m .. N /\ o # m /\ h[o] = g[o]
      BY <1>1, <2>3
    <2>5. \A o \in m .. N : Complete(s, o) => h[o + LenAt(s, o)] = g[o + LenAt(s, o)]
      <3> SUFFICES ASSUME NEW o \in m .. N, Complete(s, o)
                   PROVE  h[o + LenAt(s, o)] = g[o + LenAt(s, o)]
        OBVIOUS
      <3>1. o \in 0 .. N /\ LenAt(s, o) \in Nat \ {0} /\ o + LenAt(s, o) \in 0 .. N
        BY <1>2, <2>3
      <3>2. o + LenAt(s, o) \in N - k .. N
        BY <1>1, <2>3, <3>1
      <3> HIDE DEF h
      <3> QED BY <2>4, <3>2
    <2>6. \A o \in m .. N : Step(h, o) = Step(g, o)
      <3> HIDE DEF h
      <3> QED BY <2>5
    <2>7. \A o \in N - k .. N : g[o] = Step(g, o)
      <3> HIDE DEF Step
      <3> QED BY <2>2
    <2>8. \A o \in m .. N : h[o] = Step(h, o)
      <3> SUFFICES ASSUME NEW o \in m .. N PROVE h[o] = Step(h, o)
        OBVIOUS
      <3>1. CASE o = m
        <4>1. h[o] = Step(g, o)
          <5> HIDE DEF Step
          <5> QED BY <3>1
        <4> HIDE DEF Step, h
        <4> QED BY <4>1, <2>6
      <3>2. CASE o # m
        <4>1. o \in N - k .. N
          BY <1>1, <2>3, <3>2
        <4> HIDE DEF Step, h
        <4> QED BY <2>4, <2>6, <2>7, <4>1
      <3> QED BY <3>1, <3>2
    <2>9. h = [o \in m .. N |-> h[o]]
      OBVIOUS
    <2>10. Solves(h, k + 1)
      <3>1. h = [o \in m .. N |-> Step(h, o)]
        <4> HIDE DEF Step, h
        <4> QED BY <2>8, <2>9
      <3> HIDE DEF Step, h
      <3> QED BY <2>3, <3>1
    <2> HIDE DEF Solves
    <2> QED BY <2>10
  <1>5. N \in T
    <2> HIDE DEF T
    <2>1. \A n \in Nat : n \in T
      BY <1>3, <1>4, Induction
    <2> QED BY <2>1, <1>1
  <1>6. PICK g : Solves(g, N)
    <2> HIDE DEF Solves
    <2> QED BY <1>5, <1>1
  <1>7. N - N = 0
    OBVIOUS
  <1>8. g = [o \in 0 .. Len(s) |-> Step(g, o)]
    BY <1>1, <1>6, <1>7
  <1> QED BY <1>8

(* RecordsOf is what its definition says.                                  *)
LEMMA RecordsUnfold ==
    ASSUME NEW s \in Seq(Bytes)
    PROVE  \E f : /\ RecordsOf(s) = f[0]
                  /\ \A o \in 0 .. Len(s) : Unfolds(f, s, o)
  <1> DEFINE f == CHOOSE f : f = [o \in 0 .. Len(s) |->
                         IF ~Complete(s, o) THEN <<>>
                         ELSE <<PieceAt(s, o)>> \o f[o + LenAt(s, o)]]
  <1>1. f = [o \in 0 .. Len(s) |->
                         IF ~Complete(s, o) THEN <<>>
                         ELSE <<PieceAt(s, o)>> \o f[o + LenAt(s, o)]]
    BY FramingExists
  <1>2. RecordsOf(s) = f[0]
    BY DEF RecordsOf, PieceAt
  <1> HIDE DEF f
  <1>3. \A o \in 0 .. Len(s) : Unfolds(f, s, o)
    BY <1>1 DEF Unfolds
  <1> QED BY <1>2, <1>3

(* The records in front of the others: what a framing is with one more.    *)
LEMMA FramingCons ==
    ASSUME NEW s \in Seq(Bytes), NEW o \in Nat, Complete(s, o),
           NEW T, IsFraming(T, s, o + LenAt(s, o))
    PROVE  IsFraming(<<PieceAt(s, o)>> \o T, s, o)
  <1> DEFINE p == PieceAt(s, o)
             R == <<p>> \o T
             q == o + LenAt(s, o)
  <1>1. /\ BytesAt(s, o) \in Seq(Bytes) /\ Len(BytesAt(s, o)) = LenAt(s, o)
        /\ LenAt(s, o) \in Nat \ {0}
    BY CompleteBytes
  <1>2. p \in Piece /\ p.offset = o /\ Len(p.bytes) = LenAt(s, o)
    BY <1>1 DEF Piece, PieceAt
  <1>3. PICK n \in Nat : n = Len(T)
    BY LenProperties DEF IsFraming
  <1>4. T \in Seq(Piece)
    BY DEF IsFraming
  <1> HIDE DEF p
  <1>5. <<p>> \in Seq(Piece) /\ Len(<<p>>) = 1 /\ <<p>>[1] = p
    BY <1>2
  <1>6. /\ R \in Seq(Piece) /\ Len(R) = n + 1
        /\ \A i \in 1 .. n + 1 : R[i] = IF i <= 1 THEN <<p>>[i] ELSE T[i - 1]
    <2>1. /\ <<p>> \o T \in Seq(Piece) /\ Len(<<p>> \o T) = Len(<<p>>) + Len(T)
          /\ \A i \in 1 .. Len(<<p>>) + Len(T) : (<<p>> \o T)[i] =
               IF i <= Len(<<p>>) THEN <<p>>[i] ELSE T[i - Len(<<p>>)]
      BY <1>4, <1>5, ConcatProperties
    <2>2. Len(<<p>>) + Len(T) = n + 1
      BY <1>3, <1>5
    <2> QED BY <2>1, <2>2, <1>5
  <1> HIDE DEF R
  <1>7. R[1] = p /\ \A k \in 1 .. n : R[k + 1] = T[k]
    BY <1>3, <1>5, <1>6
  <1>8. Place(R, o, 0) = o /\ \A k \in 0 .. n : Place(R, o, k + 1) = Place(T, q, k)
    <2>1. Place(R, o, 1) = q
      BY <1>1, <1>2, <1>7 DEF Place
    <2>2. \A k \in 1 .. n : Place(R, o, k + 1) = Place(T, q, k)
      BY <1>3, <1>7 DEF Place
    <2>3. Place(T, q, 0) = q /\ Place(R, o, 0) = o
      BY DEF Place
    <2> QED BY <1>3, <2>1, <2>2, <2>3
  <1>9. \A k \in 0 .. n - 1 : /\ Place(T, q, k) \in Nat /\ Complete(s, Place(T, q, k))
                              /\ T[k + 1] = PieceAt(s, Place(T, q, k))
    BY <1>3 DEF IsFraming
  <1>10. Place(T, q, n) \in Nat /\ ~Complete(s, Place(T, q, n))
    BY <1>3 DEF IsFraming
  <1>11. ASSUME NEW k \in 0 .. n
         PROVE  /\ Place(R, o, k) \in Nat /\ Complete(s, Place(R, o, k))
                /\ R[k + 1] = PieceAt(s, Place(R, o, k))
    <2>1. CASE k = 0
      BY <1>7, <1>8, <2>1 DEF p
    <2>2. CASE k # 0
      <3>1. k - 1 \in 0 .. n - 1 /\ k - 1 \in 0 .. n /\ (k - 1) + 1 = k /\ k \in 1 .. n
        BY <1>3, <2>2
      <3>2. Place(R, o, k) = Place(T, q, k - 1)
        BY <1>8, <3>1
      <3>3. R[k + 1] = T[k]
        BY <1>7, <3>1
      <3>4. T[(k - 1) + 1] = PieceAt(s, Place(T, q, k - 1))
        BY <1>9, <3>1
      <3> QED BY <1>9, <3>1, <3>2, <3>3, <3>4
    <2> QED BY <2>1, <2>2
  <1>12. Place(R, o, n + 1) \in Nat /\ ~Complete(s, Place(R, o, n + 1))
    <2>1. Place(R, o, n + 1) = Place(T, q, n)
      BY <1>3, <1>8
    <2> QED BY <1>10, <2>1
  <1>13. Len(R) - 1 = n
    BY <1>3, <1>6
  <1>14. IsFraming(R, s, o)
    BY <1>6, <1>11, <1>12, <1>13 DEF IsFraming
  <1> QED BY <1>14 DEF R, p

(* RecordsOf is the framing of the file: each record is the one the framer *)
(* finds where the one before it ends, and none is left after the last.    *)
LEMMA RecordsAreFramed ==
    ASSUME NEW s \in Seq(Bytes)
    PROVE  IsFraming(RecordsOf(s), s, 0)
  <1>1. PICK N \in Nat : N = Len(s)
    BY LenProperties
  <1>2. PICK f : RecordsOf(s) = f[0] /\ \A o \in 0 .. N : Unfolds(f, s, o)
    BY <1>1, RecordsUnfold
  <1> DEFINE T == {k \in Nat : \A o \in 0 .. N : o + k >= N => IsFraming(f[o], s, o)}
  <1>3. ASSUME NEW o \in 0 .. N, ~Complete(s, o) PROVE IsFraming(f[o], s, o)
    <2>1. f[o] = <<>>
      BY <1>2, <1>3 DEF Unfolds
    <2>2. <<>> \in Seq(Piece) /\ Len(<<>>) = 0
      BY EmptySeq
    <2>3. Place(<<>>, o, 0) = o
      BY DEF Place
    <2>4. o \in Nat /\ 0 .. 0 - 1 = {}
      BY <1>1
    <2> QED BY <1>3, <2>1, <2>2, <2>3, <2>4 DEF IsFraming
  <1>4. 0 \in T
    <2> SUFFICES ASSUME NEW o \in 0 .. N, o + 0 >= N PROVE IsFraming(f[o], s, o)
      OBVIOUS
    <2>1. o = N
      BY <1>1
    <2>2. ~Complete(s, o)
      BY <1>1, <2>1 DEF Complete
    <2> QED BY <1>3, <2>2
  <1>5. ASSUME NEW k \in Nat, k \in T PROVE k + 1 \in T
    <2> SUFFICES ASSUME NEW o \in 0 .. N, o + (k + 1) >= N PROVE IsFraming(f[o], s, o)
      OBVIOUS
    <2>1. CASE Complete(s, o)
      <3> DEFINE q == o + LenAt(s, o)
      <3>1. LenAt(s, o) \in Nat \ {0} /\ q <= N /\ o \in Nat
        BY <1>1, <2>1, CompleteBytes
      <3>2. q \in 0 .. N /\ q + k >= N
        BY <1>1, <3>1
      <3>3. IsFraming(f[q], s, q)
        BY <1>5, <3>2
      <3>4. f[o] = <<PieceAt(s, o)>> \o f[q]
        BY <1>2, <2>1 DEF Unfolds
      <3> QED BY <2>1, <3>1, <3>3, <3>4, FramingCons
    <2> QED BY <1>3, <2>1
  <1>6. N \in T
    <2> HIDE DEF T
    <2>1. \A n \in Nat : n \in T
      BY <1>4, <1>5, Induction
    <2> QED BY <1>1, <2>1
  <1>7. 0 \in 0 .. N /\ 0 + N >= N
    BY <1>1
  <1> QED BY <1>2, <1>6, <1>7

(* What the records of a file are, in the terms of the source: the record  *)
(* after the first k is at their end, if there is a complete one.          *)
LEMMA RecordAfter ==
    ASSUME NEW s \in Seq(Bytes)
    PROVE  /\ RecordsOf(s) \in Seq(Piece) /\ Len(RecordsOf(s)) \in Nat
           /\ \A k \in 0 .. Len(RecordsOf(s)) :
                /\ Place(RecordsOf(s), 0, k) \in Nat
                /\ Complete(s, Place(RecordsOf(s), 0, k)) <=> k < Len(RecordsOf(s))
           /\ \A k \in 0 .. Len(RecordsOf(s)) - 1 :
                /\ RecordsOf(s)[k + 1] = PieceAt(s, Place(RecordsOf(s), 0, k))
                /\ Place(RecordsOf(s), 0, k + 1)
                     = Place(RecordsOf(s), 0, k) + LenAt(s, Place(RecordsOf(s), 0, k))
  <1> DEFINE R == RecordsOf(s)
  <1>1. IsFraming(R, s, 0)
    BY RecordsAreFramed
  <1> HIDE DEF R
  <1>2. R \in Seq(Piece)
    BY <1>1 DEF IsFraming
  <1>3. PICK n \in Nat : n = Len(R)
    BY <1>2, LenProperties
  <1>4. \A k \in 0 .. n - 1 : /\ Place(R, 0, k) \in Nat /\ Complete(s, Place(R, 0, k))
                              /\ R[k + 1] = PieceAt(s, Place(R, 0, k))
    BY <1>1, <1>3 DEF IsFraming
  <1>5. Place(R, 0, n) \in Nat /\ ~Complete(s, Place(R, 0, n))
    BY <1>1, <1>3 DEF IsFraming
  <1>6. \A k \in 0 .. n : k \in 0 .. n - 1 \/ k = n
    BY <1>3
  <1>7. \A k \in 0 .. n : Place(R, 0, k) \in Nat /\ (Complete(s, Place(R, 0, k)) <=> k < n)
    <2> SUFFICES ASSUME NEW k \in 0 .. n
                 PROVE  Place(R, 0, k) \in Nat /\ (Complete(s, Place(R, 0, k)) <=> k < n)
      OBVIOUS
    <2>1. CASE k \in 0 .. n - 1
      BY <1>3, <1>4, <2>1
    <2>2. CASE k = n
      BY <1>3, <1>5, <2>2
    <2> QED BY <1>6, <2>1, <2>2
  <1>8. ASSUME NEW k \in 0 .. n - 1
        PROVE  Place(R, 0, k + 1) = Place(R, 0, k) + LenAt(s, Place(R, 0, k))
    <2>1. /\ Place(R, 0, k) \in Nat /\ Complete(s, Place(R, 0, k))
          /\ R[k + 1] = PieceAt(s, Place(R, 0, k))
      BY <1>4
    <2>2. Len(BytesAt(s, Place(R, 0, k))) = LenAt(s, Place(R, 0, k))
      BY <2>1, CompleteBytes
    <2>3. k + 1 # 0
      BY <1>3
    <2>4. Place(R, 0, k + 1) = R[k + 1].offset + Len(R[k + 1].bytes)
      BY <2>3 DEF Place
    <2> QED BY <2>1, <2>2, <2>4 DEF PieceAt
  <1>9. /\ R \in Seq(Piece) /\ Len(R) \in Nat
        /\ \A k \in 0 .. Len(R) :
             /\ Place(R, 0, k) \in Nat /\ (Complete(s, Place(R, 0, k)) <=> k < Len(R))
        /\ \A k \in 0 .. Len(R) - 1 :
             /\ R[k + 1] = PieceAt(s, Place(R, 0, k))
             /\ Place(R, 0, k + 1) = Place(R, 0, k) + LenAt(s, Place(R, 0, k))
    BY <1>2, <1>3, <1>4, <1>7, <1>8
  <1> QED BY <1>9 DEF R

(* A file that grows keeps its records.                                    *)
LEMMA RecordsStay ==
    ASSUME framer \in Framer, NEW s \in Seq(Bytes), NEW t \in Seq(Bytes), Begins(s, t)
    PROVE  /\ Len(RecordsOf(s)) <= Len(RecordsOf(t))
           /\ \A k \in 0 .. Len(RecordsOf(s)) :
                Place(RecordsOf(t), 0, k) = Place(RecordsOf(s), 0, k)
           /\ \A k \in 1 .. Len(RecordsOf(s)) : RecordsOf(t)[k] = RecordsOf(s)[k]
  <1> DEFINE R == RecordsOf(s)
             Q == RecordsOf(t)
  <1>1. PICK n \in Nat : n = Len(R)
    BY RecordAfter
  <1>2. PICK m \in Nat : m = Len(Q)
    BY RecordAfter
  <1>3. /\ \A k \in 0 .. n : Place(R, 0, k) \in Nat /\ (Complete(s, Place(R, 0, k)) <=> k < n)
        /\ \A k \in 0 .. n - 1 :
             /\ R[k + 1] = PieceAt(s, Place(R, 0, k))
             /\ Place(R, 0, k + 1) = Place(R, 0, k) + LenAt(s, Place(R, 0, k))
    BY <1>1, RecordAfter
  <1>4. /\ \A k \in 0 .. m : Place(Q, 0, k) \in Nat /\ (Complete(t, Place(Q, 0, k)) <=> k < m)
        /\ \A k \in 0 .. m - 1 :
             /\ Q[k + 1] = PieceAt(t, Place(Q, 0, k))
             /\ Place(Q, 0, k + 1) = Place(Q, 0, k) + LenAt(t, Place(Q, 0, k))
    BY <1>2, RecordAfter
  <1> HIDE DEF R, Q
  <1> DEFINE Same(k) == /\ k <= m /\ Place(Q, 0, k) = Place(R, 0, k)
                        /\ k > 0 => Q[k] = R[k]
             T == {k \in Nat : k <= n => Same(k)}
  <1>5. 0 \in T
    BY <1>2 DEF Place
  <1>6. ASSUME NEW k \in Nat, k \in T PROVE k + 1 \in T
    <2> SUFFICES ASSUME k + 1 <= n PROVE Same(k + 1)
      OBVIOUS
    <2>1. k \in 0 .. n - 1 /\ k \in 0 .. n /\ k < n /\ Same(k)
      BY <1>1, <1>6
    <2> DEFINE o == Place(R, 0, k)
    <2>2. o \in Nat /\ Complete(s, o) /\ Place(Q, 0, k) = o /\ k <= m
      BY <1>3, <2>1
    <2>3. Complete(t, o) /\ LenAt(t, o) = LenAt(s, o) /\ BytesAt(t, o) = BytesAt(s, o)
      <3> HIDE DEF o
      <3> QED BY <2>2, CompleteStays
    <2>4. k \in 0 .. m
      BY <1>2, <2>2
    <2>5. k < m
      BY <1>4, <2>2, <2>3, <2>4
    <2>6. k \in 0 .. m - 1 /\ k + 1 <= m /\ k + 1 > 0
      BY <1>2, <2>5
    <2>7. Q[k + 1] = PieceAt(t, o) /\ Place(Q, 0, k + 1) = o + LenAt(t, o)
      BY <1>4, <2>2, <2>6
    <2>8. R[k + 1] = PieceAt(s, o) /\ Place(R, 0, k + 1) = o + LenAt(s, o)
      BY <1>3, <2>1
    <2>9. PieceAt(t, o) = PieceAt(s, o)
      BY <2>3 DEF PieceAt
    <2> HIDE DEF o
    <2> QED BY <2>3, <2>6, <2>7, <2>8, <2>9
  <1>7. \A k \in 0 .. n : Same(k)
    <2>1. \A k \in Nat : k \in T
      <3> HIDE DEF T
      <3> QED BY <1>5, <1>6, Induction
    <2> SUFFICES ASSUME NEW k \in 0 .. n PROVE Same(k)
      OBVIOUS
    <2>2. k \in Nat /\ k <= n /\ k \in T
      BY <1>1, <2>1
    <2> HIDE DEF Same
    <2> QED BY <2>2
  <1>8. n <= m
    BY <1>1, <1>7
  <1>9. \A k \in 0 .. n : Place(Q, 0, k) = Place(R, 0, k)
    BY <1>7
  <1>10. \A k \in 1 .. n : Q[k] = R[k]
    <2> SUFFICES ASSUME NEW k \in 1 .. n PROVE Q[k] = R[k]
      OBVIOUS
    <2>1. k \in 0 .. n /\ k > 0
      BY <1>1
    <2> QED BY <1>7, <2>1
  <1> QED BY <1>1, <1>2, <1>8, <1>9, <1>10 DEF R, Q

-----------------------------------------------------------------------------
(* The caller of the theorems: it resets its batch before every poll, and  *)
(* does not poll after a read has failed.                                  *)
CarefulCaller == ResetsBatch /\ ~PollAfterReadError

(* The assumptions on the constants.                                       *)
LEMMA Constants ==
    /\ Framers \subseteq Framer /\ Bytes \subseteq Nat /\ 0 \in Bytes
    /\ ReadChunk \in Nat \ {0} /\ Capacity \in Nat \ {0} /\ MaxRecordSize \in Nat \ {0}
    /\ MaxFile \in Nat /\ MaxLoops \in Nat /\ MaxStarts \in Nat /\ MaxIoErrors \in Nat
  BY FileAssumption

(* The record that is consumed, as it goes into the batch.                 *)
NextRecord == [offset |-> bufFileOffset, index |-> recordIndex,
               bytes  |-> SubSeq(readBuf, 1, NextLen)]

(* A record is consumed from a window of the file: it is the one that the  *)
(* whole file has at this offset, and what is left is a window again.      *)
LEMMA ConsumedIsNext ==
    ASSUME TypeOK, InPoll, BufferIsWindow, ConsumeRecord
    PROVE  /\ Complete(file, bufFileOffset)
           /\ NextLen = LenAt(file, bufFileOffset)
           /\ bufFileOffset + NextLen <= pos
           /\ NextRecord \in Record
           /\ NextRecord.bytes = BytesAt(file, bufFileOffset)
           /\ readBuf' = SubSeq(file, bufFileOffset + NextLen + 1, pos)
  <1> DEFINE o == bufFileOffset
             rest == SubSeq(file, o + 1, Len(file))
  <1>1. /\ framer \in Framer /\ file \in Seq(Bytes) /\ Len(file) \in Nat
        /\ o \in Nat /\ pos \in Nat /\ pos <= Len(file) /\ recordIndex \in Nat
        /\ readBuf \in Seq(Bytes) /\ Len(readBuf) \in Nat
    BY Constants, LenProperties DEF TypeOK
  <1>2. pc # "idle" /\ NextLen \in 1 .. Len(readBuf) /\ NextLen <= MaxRecordSize
    BY DEF ConsumeRecord, Acceptable
  <1>3. readBuf # <<>> /\ NextLen = NextRecordLen(framer, readBuf)
    BY <1>1, <1>2 DEF NextLen, NeedMore
  <1>4. o <= pos /\ readBuf = SubSeq(file, o + 1, pos)
    BY <1>2, <1>3 DEF InPoll, BufferIsWindow
  <1>5. PICK n \in Nat : n = NextLen /\ n >= 1 /\ n <= Len(readBuf) /\ n <= MaxRecordSize
    BY <1>1, <1>2, Constants
  <1>6. Len(readBuf) = pos - o /\ \A i \in 1 .. pos - o : readBuf[i] = file[o + i]
    BY <1>1, <1>4, Slice
  <1>7. /\ rest \in Seq(Bytes) /\ Len(rest) = Len(file) - o
        /\ \A i \in 1 .. Len(file) - o : rest[i] = file[o + i]
    BY <1>1, <1>4, Slice
  <1>8. LenAt(file, o) = n
    <2> HIDE DEF rest
    <2>1. Begins(readBuf, rest)
      BY <1>1, <1>4, <1>6, <1>7 DEF Begins
    <2>2. NextRecordLen(framer, rest) = n
      BY <1>1, <1>2, <1>3, <1>5, <1>7, <2>1, FramerStable
    <2> QED BY <2>2 DEF LenAt, rest
  <1>9. o + n <= pos /\ Complete(file, o)
    BY <1>1, <1>4, <1>5, <1>6, <1>8 DEF Complete
  <1> HIDE DEF o, rest
  <1>10. SubSeq(readBuf, 1, n) = SubSeq(file, o + 1, o + n)
    <2>1. \A c, d \in Nat : c <= d /\ d <= pos - o =>
            SubSeq(readBuf, c + 1, d) = SubSeq(file, o + c + 1, o + d)
      BY <1>1, <1>4, SliceOfSlice
    <2>2. 0 \in Nat /\ 0 <= n /\ n <= pos - o
      BY <1>5, <1>6
    <2>3. SubSeq(readBuf, 0 + 1, n) = SubSeq(file, o + 0 + 1, o + n)
      BY <2>1, <2>2, Zenon
    <2>4. 0 + 1 = 1 /\ o + 0 + 1 = o + 1
      BY <1>1
    <2> QED BY <2>3, <2>4, Zenon
  <1>11. SubSeq(readBuf, n + 1, Len(readBuf)) = SubSeq(file, o + n + 1, pos)
    <2>1. SubSeq(readBuf, n + 1, pos - o) = SubSeq(file, o + n + 1, o + (pos - o))
      BY <1>1, <1>4, <1>5, <1>6, SliceOfSlice
    <2>2. o + (pos - o) = pos
      BY <1>1
    <2> QED BY <1>6, <2>1, <2>2, Zenon
  <1>12. readBuf' = SubSeq(readBuf, n + 1, Len(readBuf))
    BY <1>5 DEF ConsumeRecord
  <1>13. NextRecord.bytes = BytesAt(file, o)
    BY <1>5, <1>8, <1>10 DEF NextRecord, BytesAt
  <1>14. BytesAt(file, o) \in Seq(Bytes)
    BY <1>1, <1>9, CompleteBytes
  <1>15. NextRecord \in Record
    BY <1>1, <1>13, <1>14 DEF NextRecord, Record, o
  <1> QED BY <1>5, <1>8, <1>9, <1>11, <1>12, <1>13, <1>15 DEF o


-----------------------------------------------------------------------------
(* What the steps do to the records that have been made                    *)

(* Inside a poll everything in the batch is new.                           *)
LEMMA EmittedInPoll ==
    ASSUME TypeOK, pc # "idle" => startCount = 0
    PROVE  /\ pc = "idle" => Emitted = delivered
           /\ pc # "idle" => Emitted = delivered \o batch
           /\ Emitted \in Seq(Record) /\ Made \subseteq Record
           /\ Made = lost \cup {Emitted[i] : i \in 1 .. Len(Emitted)}
  <1>1. batch \in Seq(Record) /\ delivered \in Seq(Record) /\ lost \subseteq Record
    BY DEF TypeOK
  <1>2. pc = "idle" => Emitted = delivered
    BY DEF Emitted
  <1>3. ASSUME pc # "idle" PROVE Emitted = delivered \o batch
    <2>1. SubSeq(batch, 1, Len(batch)) = batch
      BY <1>1, SubSeqFull
    <2>2. startCount + 1 = 1
      BY <1>3
    <2> QED BY <1>3, <2>1, <2>2 DEF Emitted
  <1>4. Emitted \in Seq(Record)
    BY <1>1, <1>2, <1>3, ConcatProperties
  <1>5. Made = lost \cup {Emitted[i] : i \in 1 .. Len(Emitted)}
    BY <1>4, LenProperties DEF Made
  <1>6. Made \subseteq Record
    BY <1>1, <1>4, <1>5, ElementOfSeq
  <1> QED BY <1>2, <1>3, <1>4, <1>5, <1>6

(* A record that is consumed is the next one to come out, at once when the *)
(* batch is full.                                                          *)
LEMMA ConsumeEmits ==
    ASSUME TypeOK, InPoll, ResetsBatch, ConsumeRecord, NextRecord \in Record
    PROVE  Emitted' = Append(Emitted, NextRecord) /\ UNCHANGED lost
  <1>1. /\ batch \in Seq(Record) /\ delivered \in Seq(Record)
        /\ pc = "framing" /\ startCount = 0 /\ UNCHANGED startCount
        /\ batch' = Append(batch, NextRecord)
    BY DEF TypeOK, InPoll, ConsumeRecord, NextRecord, locals
  <1>2. batch' \in Seq(Record) /\ Len(batch') \in Nat
    BY <1>1, AppendProperties, LenProperties
  <1>3. SubSeq(batch', 1, Len(batch')) = batch'
    BY <1>2, SubSeqFull
  <1>4. startCount' + 1 = 1 /\ Len(batch') - startCount = Len(batch')
    BY <1>1, <1>2
  <1>5. Emitted' = delivered \o batch' /\ UNCHANGED lost
    <2>1. CASE Len(batch') >= Capacity
      <3>1. Deliver(batch')
        BY <2>1 DEF ConsumeRecord
      <3> QED BY <1>3, <1>4, <3>1 DEF Deliver, Emitted
    <2>2. CASE ~(Len(batch') >= Capacity)
      <3>1. UNCHANGED <<pc, delivered, lost>>
        BY <2>2 DEF ConsumeRecord, call, history
      <3> QED BY <1>1, <1>3, <1>4, <3>1 DEF Emitted
    <2> QED BY <2>1, <2>2
  <1>6. delivered \o Append(batch, NextRecord) = Append(delivered \o batch, NextRecord)
    <2>1. <<NextRecord>> \in Seq(Record)
      OBVIOUS
    <2>2. Append(batch, NextRecord) = batch \o <<NextRecord>>
      BY <1>1, AppendIsConcat
    <2>3. Append(delivered \o batch, NextRecord) = (delivered \o batch) \o <<NextRecord>>
      BY <1>1, ConcatProperties, AppendIsConcat
    <2>4. (delivered \o batch) \o <<NextRecord>> = delivered \o (batch \o <<NextRecord>>)
      BY <1>1, <2>1, ConcatAssociative
    <2> QED BY <2>2, <2>3, <2>4
  <1>7. Emitted = delivered \o batch
    BY <1>1, EmittedInPoll
  <1> QED BY <1>1, <1>5, <1>6, <1>7

(* A poll that ends well hands over what it has made.                      *)
LEMMA DeliverEmits ==
    ASSUME TypeOK, InPoll, ResetsBatch, pc # "idle", Deliver(batch)
    PROVE  Emitted' = Emitted /\ UNCHANGED lost
  <1>1. batch \in Seq(Record) /\ Len(batch) \in Nat /\ startCount = 0
    BY LenProperties DEF TypeOK, InPoll
  <1>2. SubSeq(batch, 1, Len(batch)) = batch /\ Len(batch) - startCount = Len(batch)
    BY <1>1, SubSeqFull
  <1>3. delivered' = delivered \o batch /\ pc' = "idle" /\ UNCHANGED lost
    BY <1>2 DEF Deliver
  <1>4. Emitted = delivered \o batch
    BY <1>1, EmittedInPoll
  <1> QED BY <1>3, <1>4 DEF Emitted

(* A poll that fails loses what it has made, and no more.                  *)
LEMMA FailEmits ==
    ASSUME TypeOK, InPoll, ResetsBatch, pc # "idle", Fail
    PROVE  /\ Emitted' = delivered /\ Emitted = delivered \o batch
           /\ lost' = lost \cup {batch[i] : i \in 1 .. Len(batch)}
           /\ Made' = Made
  <1>1. /\ batch \in Seq(Record) /\ Len(batch) \in Nat /\ startCount = 0
        /\ delivered \in Seq(Record) /\ Len(delivered) \in Nat
    BY LenProperties DEF TypeOK, InPoll
  <1>2. Emitted' = delivered /\ lost' = lost \cup {batch[i] : i \in 1 .. Len(batch)}
    <2>1. startCount + 1 = 1
      BY <1>1
    <2> QED BY <2>1 DEF Fail, Emitted
  <1>3. Emitted = delivered \o batch
    BY <1>1, EmittedInPoll
  <1>4. DOMAIN delivered = 1 .. Len(delivered) /\ DOMAIN batch = 1 .. Len(batch)
    BY <1>1, LenProperties
  <1>5. Range(Emitted) = Range(delivered) \cup Range(batch)
    BY <1>1, <1>3, RangeConcatenation
  <1>6. Made = lost \cup Range(Emitted)
    BY DEF Made, Range
  <1>7. Range(batch) = {batch[i] : i \in 1 .. Len(batch)}
    BY <1>4 DEF Range
  <1>8. Made' = lost' \cup Range(Emitted')
    BY DEF Made, Range
  <1> QED BY <1>2, <1>3, <1>5, <1>6, <1>7, <1>8


-----------------------------------------------------------------------------
(* Types                                                                   *)

(* The types hold at first.                                                *)
LEMMA TypesInit == Init => TypeOK
  <1> SUFFICES ASSUME Init PROVE TypeOK
    OBVIOUS
  <1>1. file \in Seq(Bytes) /\ Len(file) \in Nat /\ Len(file) <= MaxFile
    <2>1. PICK n \in 0 .. MaxFile : file \in [1 .. n -> Bytes]
      BY DEF Init, Files
    <2>2. n \in Nat
      BY <2>1, Constants
    <2> QED BY <2>1, <2>2, Constants
  <1>2. <<>> \in Seq(Bytes) /\ <<>> \in Seq(Record) /\ Len(<<>>) = 0
    BY EmptySeq
  <1>3. /\ exhausted \in BOOLEAN /\ initialized \in BOOLEAN
        /\ rewound \in BOOLEAN /\ damaged \in BOOLEAN
    BY Zenon DEF Init
  <1> QED BY <1>1, <1>2, <1>3, Constants DEF Init, TypeOK

(* What a poll hands over are records.                                     *)
LEMMA DeliverTypes ==
    ASSUME TypeOK, NEW records \in Seq(Record), startCount <= Len(records), Deliver(records)
    PROVE  delivered' \in Seq(Record) /\ lost' \subseteq Record
           /\ pc' = "idle" /\ result' = "ok"
  <1>1. PICK n \in Nat : n = Len(records) - startCount /\ n <= Len(records)
    <2>1. startCount \in Nat /\ Len(records) \in Nat
      BY LenProperties, Constants DEF TypeOK
    <2> QED BY <2>1
  <1>2. \A i \in 1 .. n : records[i] \in Record
    BY <1>1, ElementOfSeq, LenProperties
  <1>3. SubSeq(records, 1, n) \in Seq(Record)
    BY <1>1, <1>2, SubSeqProperties
  <1>4. delivered \o SubSeq(records, 1, n) \in Seq(Record)
    BY <1>3, ConcatProperties DEF TypeOK
  <1> QED BY <1>1, <1>4 DEF Deliver, TypeOK

(* What a failed poll loses are records.                                   *)
LEMMA FailTypes ==
    ASSUME TypeOK, Fail
    PROVE  delivered' \in Seq(Record) /\ lost' \subseteq Record
           /\ pc' = "idle" /\ result' = "err"
  <1>1. \A i \in 1 .. Len(batch) : batch[i] \in Record
    BY ElementOfSeq DEF TypeOK
  <1>2. \A i \in startCount + 1 .. Len(batch) : i \in 1 .. Len(batch)
    BY LenProperties, Constants DEF TypeOK
  <1>3. {batch[i] : i \in startCount + 1 .. Len(batch)} \subseteq Record
    BY <1>1, <1>2
  <1> QED BY <1>3 DEF Fail, TypeOK

(* The steps outside of a poll keep the types.                             *)
LEMMA TypesOfCalls ==
    ASSUME TypeOK, InitCall \/ InitFails \/ ShutdownCall \/ PollBatch \/ PollFull
    PROVE  TypeOK'
  <1>1. /\ <<>> \in Seq(Bytes) /\ <<>> \in Seq(Record) /\ Len(<<>>) = 0
        /\ Len(file) \in Nat
    BY EmptySeq, LenProperties DEF TypeOK
  <1>2. CASE InitCall
    <2>1. /\ exhausted' \in BOOLEAN /\ initialized' \in BOOLEAN
          /\ rewound' \in BOOLEAN /\ damaged' \in BOOLEAN
      BY <1>2, Zenon DEF InitCall, TypeOK, locals
    <2> QED BY <1>1, <1>2, <2>1, Constants DEF InitCall, TypeOK, config, locals
  <1>3. CASE InitFails
    BY <1>1, <1>3, Constants DEF InitFails, TypeOK, config, buffer, session, progress, locals,
         history
  <1>4. CASE ShutdownCall
    BY <1>1, <1>4, Constants DEF ShutdownCall, TypeOK, config, progress, locals, bounds, history
  <1>5. CASE PollBatch \/ PollFull
    <2>1. batch' \in Seq(Record) /\ Len(batch') \in Nat /\ Len(batch') <= Capacity
      <3>1. batch' = <<>> \/ batch' = batch
        BY <1>5 DEF PollBatch, PollFull, PollRefused, PollNothing, PollBegin, CallerPolls
      <3>2. batch \in Seq(Record) /\ Len(batch) <= Capacity
        BY DEF TypeOK
      <3>3. CASE batch' = batch
        BY <3>2, <3>3, LenProperties
      <3>4. CASE batch' = <<>>
        <4>1. Len(<<>>) <= Capacity
          BY <1>1, Constants
        <4> QED BY <1>1, <3>4, <4>1
      <3> QED BY <3>1, <3>3, <3>4
    <2>2. CASE PollRefused
      BY <1>1, <2>1, <2>2, Constants DEF PollRefused, TypeOK, config, buffer, session, progress,
           locals, bounds, history
    <2>3. CASE PollNothing
      BY <1>1, <2>1, <2>3, Constants DEF PollNothing, TypeOK, config, buffer, session, progress,
           locals, bounds, history
    <2>4. CASE PollBegin
      <3>1. rewound' \in BOOLEAN
        BY <2>4, Zenon DEF PollBegin
      <3> QED BY <1>1, <2>1, <2>4, <3>1, Constants DEF PollBegin, TypeOK, config, buffer,
             progress, bounds, history
    <2>5. CASE PollFull
      BY <1>1, <2>1, <2>5, Constants DEF PollFull, TypeOK, config, buffer, progress, locals,
           bounds, history
    <2> QED BY <1>5, <2>2, <2>3, <2>4, <2>5 DEF PollBatch
  <1> QED BY <1>2, <1>3, <1>4, <1>5

(* The steps of a poll before the file has ended keep the types.           *)
LEMMA TypesOfReading ==
    ASSUME TypeOK, InPoll, BufferIsWindow, Framed \/ Filled
    PROVE  TypeOK'
  <1>0. /\ file \in Seq(Bytes) /\ Len(file) \in Nat /\ readBuf \in Seq(Bytes)
        /\ batch \in Seq(Record) /\ Len(batch) \in Nat /\ pos \in Nat /\ pos <= Len(file)
    BY LenProperties DEF TypeOK
  <1>1. CASE NeedsData
    BY <1>1, Constants DEF NeedsData, TypeOK, config, buffer, session, progress, locals, bounds,
         history
  <1>2. CASE RecordRejected
    <2>1. Fail
      BY <1>2 DEF RecordRejected
    <2> QED BY <1>2, <2>1, FailTypes, Constants DEF RecordRejected, TypeOK, config, buffer,
           session, progress, locals, bounds
  <1>3. CASE ConsumeRecord
    <2>1. startCount <= Len(batch) /\ startCount \in Nat /\ Len(batch) < Capacity
      BY <1>3, Constants DEF ConsumeRecord, InPoll, TypeOK
    <2>2. PICK n \in Nat : n = NextLen /\ bufFileOffset + n <= pos /\ NextRecord \in Record
                            /\ readBuf' = SubSeq(file, bufFileOffset + n + 1, pos)
      <3>1. NextLen \in Nat
        BY <1>3 DEF ConsumeRecord, Acceptable
      <3> QED BY <1>3, <3>1, ConsumedIsNext
    <2>3. readBuf' \in Seq(Bytes)
      <3>1. bufFileOffset + n \in Nat
        BY <2>2 DEF TypeOK
      <3>2. SubSeq(file, (bufFileOffset + n) + 1, pos) \in Seq(Bytes)
        BY <1>0, <2>2, <3>1, Slice
      <3> QED BY <2>2, <3>2
    <2>4. batch' \in Seq(Record) /\ Len(batch') = Len(batch) + 1
      <3>1. batch' = Append(batch, NextRecord)
        BY <1>3 DEF ConsumeRecord, NextRecord
      <3> QED BY <1>0, <2>2, <3>1, AppendProperties
    <2>5. /\ bufFileOffset' \in 0 .. Len(file) /\ recordIndex' \in Nat
          /\ recordsSinceRewind' \in 0 .. recordIndex'
      BY <1>0, <1>3, <2>2 DEF ConsumeRecord, TypeOK
    <2>6. /\ delivered' \in Seq(Record) /\ lost' \subseteq Record
          /\ pc' \in {"idle", "framing", "fill"} /\ result' \in {"none", "ok", "err"}
      <3>1. CASE Len(batch') >= Capacity
        <4>1. Deliver(batch')
          BY <1>3, <3>1 DEF ConsumeRecord
        <4>2. startCount <= Len(batch')
          BY <1>0, <2>1, <2>4
        <4> QED BY <2>4, <4>1, <4>2, DeliverTypes
      <3>2. CASE ~(Len(batch') >= Capacity)
        BY <1>3, <3>2 DEF ConsumeRecord, call, history, TypeOK
      <3> QED BY <3>1, <3>2
    <2>7. UNCHANGED <<config, file, pos, loopCount, exhausted, initialized,
                      followNext, locals, bounds>>
      BY <1>3 DEF ConsumeRecord
    <2> QED BY <1>0, <2>1, <2>3, <2>4, <2>5, <2>6, <2>7, Constants
        DEF TypeOK, config, locals, bounds
  <1>4. CASE FillBuf
    <2>1. PICK n \in 1 .. ReadChunk : n <= Len(file) - pos /\ ReadSome(n)
      BY <1>4 DEF FillBuf
    <2>2. n \in Nat /\ pos + n \in Nat /\ pos <= pos + n /\ pos + n <= Len(file)
      BY <1>0, <2>1, Constants
    <2>3. SubSeq(file, pos + 1, pos + n) \in Seq(Bytes)
      BY <1>0, <2>2, Slice
    <2>4. readBuf' \in Seq(Bytes) /\ pos' \in 0 .. Len(file)
      BY <1>0, <2>1, <2>2, <2>3, ConcatProperties DEF ReadSome
    <2> QED BY <2>1, <2>4, Constants DEF ReadSome, TypeOK, config, session, progress, locals,
           bounds, history
  <1>5. CASE FillBufFails
    <2>1. Fail
      BY <1>5 DEF FillBufFails
    <2>2. [i \in 1 .. ReadChunk |-> 0] \in Seq(Bytes)
      BY Constants
    <2>3. readBuf' \in Seq(Bytes)
      BY <1>0, <1>5, <2>2, ConcatProperties DEF FillBufFails
    <2> QED BY <1>5, <2>1, <2>3, FailTypes, Constants DEF FillBufFails, TypeOK, config,
           session, progress, locals
  <1> QED BY <1>1, <1>2, <1>3, <1>4, <1>5 DEF Framed, Filled

(* The steps of handle_eof and of the surroundings keep the types.         *)
LEMMA TypesOfTheEnd ==
    ASSUME TypeOK, InPoll, HandleEof \/ IntervalElapses \/ FileGrows
    PROVE  TypeOK'
  <1>0. <<>> \in Seq(Bytes) /\ batch \in Seq(Record) /\ file \in Seq(Bytes) /\ Len(file) \in Nat
    BY EmptySeq, LenProperties DEF TypeOK
  <1>1. ASSUME Deliver(batch), startCount <= Len(batch)
        PROVE  delivered' \in Seq(Record) /\ lost' \subseteq Record /\ pc' = "idle" /\ result' = "ok"
    BY <1>0, <1>1, DeliverTypes
  <1>2. CASE EofStop
    BY <1>0, <1>1, <1>2, Constants DEF EofStop, InPoll, TypeOK, config, progress, locals, bounds
  <1>3. CASE EofLoopTwice
    BY <1>0, <1>1, <1>3, Constants DEF EofLoopTwice, InPoll, TypeOK, config, buffer, session,
         progress, locals, bounds
  <1>4. CASE EofLoopNoRecord
    BY <1>0, <1>4, FailTypes, Constants DEF EofLoopNoRecord, InPoll, TypeOK, config, buffer,
         session, progress, locals, bounds
  <1>5. CASE EofLoopRewind
    BY <1>0, <1>5, Constants DEF EofLoopRewind, InPoll, TypeOK, config, bounds, history
  <1>6. CASE EofLoopSeekFails
    BY <1>0, <1>6, FailTypes, Constants DEF EofLoopSeekFails, InPoll, TypeOK, config, session,
         progress, locals
  <1>7. CASE EofFollow
    BY <1>0, <1>1, <1>7, Constants DEF EofFollow, InPoll, TypeOK, config, buffer, progress,
         locals, bounds
  <1>8. CASE IntervalElapses
    BY <1>8, Constants DEF IntervalElapses, TypeOK, config, buffer, progress, locals, call,
         bounds, history
  <1>9. CASE FileGrows
    <2>1. PICK b \in Bytes : file' = Append(file, b)
      BY <1>9 DEF FileGrows
    <2>2. file' \in Seq(Bytes) /\ Len(file') = Len(file) + 1
      BY <1>0, <2>1, AppendProperties
    <2>3. Len(file) < MaxFile /\ UNCHANGED <<config, buffer, session, batch, locals, call, bounds,
                                              history>>
      BY <1>9 DEF FileGrows
    <2> QED BY <1>0, <2>2, <2>3, Constants DEF TypeOK, config, buffer, session, progress,
           locals, call, bounds, history
  <1> QED BY <1>2, <1>3, <1>4, <1>5, <1>6, <1>7, <1>8, <1>9 DEF HandleEof


-----------------------------------------------------------------------------
(* The poll and its buffer                                                 *)

(* A poll that begins or goes on is one that can.                          *)
LEMMA InPollStep ==
    ASSUME TypeOK, InPoll, ~PollAfterReadError, [Next \/ PollFull]_vars
    PROVE  InPoll'
  <1> SUFFICES ASSUME pc' # "idle" PROVE InPoll'
    BY DEF InPoll
  <1>1. CASE UNCHANGED vars
    BY <1>1 DEF InPoll, NextLen, vars, config, buffer, session, progress, locals, call, bounds
  <1>2. CASE InitCall \/ InitFails \/ ShutdownCall \/ PollRefused \/ PollNothing
             \/ PollFull
    BY <1>2 DEF PollFull, InitCall, InitFails, ShutdownCall, PollRefused, PollNothing, CallerPolls
  <1>3. CASE PollBegin
    <2>1. /\ initialized' /\ ~exhausted' /\ ~damaged' /\ loopCount' < MaxLoops
          /\ pc' = "framing" /\ startCount' = Len(batch') /\ Len(batch') < Capacity
          /\ batch' = IF ResetsBatch THEN <<>> ELSE batch
      BY <1>3 DEF PollBegin, CallerPolls, bounds
    <2>2. Len(batch') \in Nat /\ (ResetsBatch => Len(batch') = 0)
      BY <2>1, EmptySeq, LenProperties DEF TypeOK
    <2> QED BY <2>1, <2>2 DEF InPoll
  <1>4. CASE NeedsData
    BY <1>4 DEF NeedsData, InPoll, NextLen, config, buffer, session, locals, bounds
  <1>5. CASE RecordRejected \/ FillBufFails \/ EofStop \/ EofLoopTwice \/ EofLoopNoRecord
             \/ EofLoopSeekFails \/ EofFollow
    BY <1>5 DEF RecordRejected, FillBufFails, EofStop, EofLoopTwice, EofLoopNoRecord,
         EofLoopSeekFails, EofFollow, Fail, Deliver
  <1>6. CASE ConsumeRecord
    <2>1. ~(Len(batch') >= Capacity)
      BY <1>6 DEF ConsumeRecord, Deliver
    <2>2. Len(batch') = Len(batch) + 1 /\ Len(batch) \in Nat /\ startCount \in Nat
      <3>1. batch \in Seq(Record) /\ startCount \in Nat
        BY Constants DEF TypeOK
      <3> QED BY <1>6, <3>1, LenProperties DEF ConsumeRecord
    <2>3. Len(batch') < Capacity
      BY <2>1, <2>2, Constants
    <2>4. startCount <= Len(batch) /\ (ResetsBatch => startCount = 0)
      BY <1>6 DEF ConsumeRecord, InPoll
    <2>5. startCount <= Len(batch')
      BY <2>2, <2>4
    <2> QED BY <1>6, <2>1, <2>3, <2>4, <2>5 DEF ConsumeRecord, InPoll, call, locals, bounds
  <1>7. CASE FillBuf
    BY <1>7 DEF FillBuf, ReadSome, InPoll, session, locals, bounds
  <1>8. CASE EofLoopRewind
    BY <1>8 DEF EofLoopRewind, InPoll, bounds
  <1>9. CASE IntervalElapses \/ FileGrows
    BY <1>9 DEF IntervalElapses, FileGrows, InPoll, NextLen, config, buffer, session, locals,
         call, bounds
  <1> QED BY <1>1, <1>2, <1>3, <1>4, <1>5, <1>6, <1>7, <1>8, <1>9
      DEF Next, PollBatch, Framed, Filled, HandleEof

(* When the framer needs more and the file has ended, no record is left.   *)
LEMMA NothingLeft ==
    ASSUME TypeOK, InPoll, BufferIsWindow, pc = "fill", AtEof
    PROVE  ~Complete(file, bufFileOffset)
  <1>1. /\ file \in Seq(Bytes) /\ Len(file) \in Nat /\ bufFileOffset \in Nat
        /\ pos = Len(file) /\ NextLen = NeedMore
    BY LenProperties DEF TypeOK, AtEof, InPoll
  <1>2. CASE bufFileOffset <= pos /\ readBuf = SubSeq(file, bufFileOffset + 1, pos)
    <2>1. Len(readBuf) = Len(file) - bufFileOffset
      BY <1>1, <1>2, Slice
    <2>2. CASE readBuf = <<>>
      BY <1>1, <2>1, <2>2, EmptySeq DEF Complete
    <2>3. CASE readBuf # <<>>
      BY <1>1, <1>2, <2>3 DEF Complete, LenAt, NextLen, NeedMore
    <2> QED BY <2>2, <2>3
  <1> QED BY <1>2 DEF BufferIsWindow, InPoll

(* The file only grows.                                                    *)
LEMMA FileBegins ==
    ASSUME TypeOK, TypeOK', FileGrows
    PROVE  file \in Seq(Bytes) /\ file' \in Seq(Bytes) /\ Begins(file, file')
  <1>1. PICK b \in Bytes : file' = Append(file, b)
    BY DEF FileGrows
  <1>2. file \in Seq(Bytes) /\ file' \in Seq(Bytes) /\ Len(file) \in Nat
    BY LenProperties DEF TypeOK
  <1>3. Len(file') = Len(file) + 1 /\ \A i \in 1 .. Len(file) : file'[i] = file[i]
    BY <1>1, <1>2, AppendProperties
  <1> QED BY <1>2, <1>3 DEF Begins

(* The variables the buffer depends on, apart from the file.               *)
bufferVars == <<framer, policy, readBuf, bufFileOffset, pos, recordsSinceRewind,
                initialized, exhausted, damaged>>

(* The buffer stays a window of the file.                                  *)
LEMMA WindowStep ==
    ASSUME TypeOK, TypeOK', InPoll, BufferIsWindow, [Next \/ PollFull]_vars
    PROVE  BufferIsWindow'
  <1>0. /\ file \in Seq(Bytes) /\ Len(file) \in Nat /\ pos \in Nat /\ pos <= Len(file)
        /\ bufFileOffset \in Nat
    BY LenProperties DEF TypeOK
  <1>1. ASSUME UNCHANGED <<bufferVars, file>> PROVE BufferIsWindow'
    BY <1>1 DEF bufferVars, BufferIsWindow, Complete, LenAt, AtEof
  <1>2. ASSUME readBuf' = <<>>, bufFileOffset' = 0, pos' = 0 PROVE BufferIsWindow'
    <2>1. SubSeq(file', 1, 0) = <<>>
      BY SubSeqEmpty
    <2> QED BY <1>2, <2>1 DEF BufferIsWindow
  <1>3. CASE UNCHANGED vars \/ InitFails \/ PollRefused \/ PollNothing \/ PollBegin \/ PollFull
             \/ NeedsData \/ RecordRejected \/ EofLoopTwice \/ EofLoopNoRecord \/ EofFollow
             \/ IntervalElapses
    <2>1. UNCHANGED <<bufferVars, file>>
      BY <1>3 DEF vars, InitFails, PollRefused, PollNothing, PollBegin, PollFull, NeedsData,
           RecordRejected, EofLoopTwice, EofLoopNoRecord, EofFollow, IntervalElapses,
           bufferVars, config, buffer, session, progress, bounds
    <2> QED BY <1>1, <2>1
  <1>4. CASE InitCall
    BY <1>2, <1>4 DEF InitCall
  <1>5. CASE ShutdownCall
    BY <1>5 DEF ShutdownCall, BufferIsWindow
  <1>6. CASE ConsumeRecord
    <2>1. bufFileOffset' = bufFileOffset + NextLen /\ UNCHANGED <<file, pos>>
      BY <1>6 DEF ConsumeRecord
    <2> QED BY <1>6, <2>1, ConsumedIsNext DEF BufferIsWindow
  <1>7. CASE FillBuf
    <2>1. PICK n \in 1 .. ReadChunk : n <= Len(file) - pos /\ ReadSome(n)
      BY <1>7 DEF FillBuf
    <2>2. n \in Nat /\ n >= 1 /\ pos + n \in Nat /\ pos + n <= Len(file)
      BY <1>0, <2>1, Constants
    <2>3. bufFileOffset <= pos /\ readBuf = SubSeq(file, bufFileOffset + 1, pos)
      <3>1. ~AtEof
        BY <1>0, <2>2 DEF AtEof
      <3> QED BY <2>1, <3>1 DEF BufferIsWindow, InPoll, ReadSome
    <2>4. readBuf' = SubSeq(file, bufFileOffset + 1, pos) \o SubSeq(file, pos + 1, pos + n)
          /\ pos' = pos + n /\ UNCHANGED <<file, bufFileOffset>>
      BY <2>1, <2>3 DEF ReadSome
    <2>5. SubSeq(file, bufFileOffset + 1, pos) \o SubSeq(file, pos + 1, pos + n)
            = SubSeq(file, bufFileOffset + 1, pos + n)
      BY <1>0, <2>2, <2>3, ConcatAdjacentSubSeq
    <2>6. readBuf' = SubSeq(file', bufFileOffset' + 1, pos') /\ bufFileOffset' <= pos'
      BY <1>0, <2>2, <2>3, <2>4, <2>5
    <2> QED BY <2>6 DEF BufferIsWindow
  <1>8. CASE FillBufFails \/ EofStop
    BY <1>8 DEF FillBufFails, EofStop, BufferIsWindow
  <1>9. CASE EofLoopRewind
    BY <1>2, <1>9 DEF EofLoopRewind
  <1>10. CASE EofLoopSeekFails
    <2>1. ~Complete(file, bufFileOffset)
      BY <1>10, NothingLeft DEF EofLoopSeekFails
    <2>2. /\ readBuf' = <<>> /\ policy = "Loop" /\ recordsSinceRewind > 0 /\ AtEof
          /\ UNCHANGED <<framer, policy, file, bufFileOffset, pos, recordsSinceRewind>>
      BY <1>10 DEF EofLoopSeekFails, config, session, progress
    <2> QED BY <2>1, <2>2 DEF BufferIsWindow, Complete, LenAt, AtEof
  <1>11. CASE FileGrows
    <2>1. UNCHANGED bufferVars /\ policy # "Loop"
      BY <1>11 DEF FileGrows, bufferVars, config, buffer, session, progress, bounds
    <2>2. ASSUME bufFileOffset <= pos
          PROVE  SubSeq(file, bufFileOffset + 1, pos) = SubSeq(file', bufFileOffset + 1, pos)
      BY <1>0, <1>11, <2>2, FileBegins, SameSlice
    <2> QED BY <2>1, <2>2 DEF bufferVars, BufferIsWindow
  <1> QED BY <1>3, <1>4, <1>5, <1>6, <1>7, <1>8, <1>9, <1>10, <1>11
      DEF Next, PollBatch, Framed, Filled, HandleEof


-----------------------------------------------------------------------------
(* The records                                                             *)

(* The variables the records depend on, apart from the file.               *)
recordVars == <<framer, policy, bufFileOffset, recordIndex, recordsSinceRewind>>

(* Steps that make no record and do not move in the file.                  *)
QuietStep ==
    \/ UNCHANGED vars \/ InitFails \/ ShutdownCall \/ PollBatch
    \/ NeedsData \/ Filled
    \/ EofStop \/ EofLoopTwice \/ EofLoopNoRecord \/ EofLoopSeekFails \/ EofFollow
    \/ RecordRejected \/ IntervalElapses

(* What these steps leave alone, and what they do to the records.          *)
LEMMA QuietEffects ==
    ASSUME TypeOK, TypeOK', InPoll, InPoll', CarefulCaller, QuietStep
    PROVE  /\ UNCHANGED <<recordVars, file>>
           /\ UNCHANGED <<Emitted, lost>> \/ (pc # "idle" /\ Fail)
           /\ Made' = Made
  <1>1. UNCHANGED <<recordVars, file>>
    <2>1. CASE UNCHANGED vars \/ InitFails \/ ShutdownCall \/ PollBatch \/ NeedsData
      BY <2>1 DEF vars, InitFails, ShutdownCall, PollBatch, PollRefused, PollNothing,
           PollBegin, NeedsData, recordVars, config, buffer, session, progress
    <2>2. CASE Filled \/ RecordRejected \/ IntervalElapses
      BY <2>2 DEF Filled, FillBuf, ReadSome, FillBufFails, RecordRejected, IntervalElapses,
           recordVars, config, buffer, session, progress
    <2>3. CASE EofStop \/ EofLoopTwice \/ EofLoopNoRecord \/ EofLoopSeekFails \/ EofFollow
      BY <2>3 DEF EofStop, EofLoopTwice, EofLoopNoRecord, EofLoopSeekFails, EofFollow,
           recordVars, config, buffer, session, progress
    <2> QED BY <2>1, <2>2, <2>3 DEF QuietStep
  <1>2. UNCHANGED <<Emitted, lost>> \/ (pc # "idle" /\ Fail)
    <2>1. CASE UNCHANGED vars \/ NeedsData \/ FillBuf \/ IntervalElapses
      <3>1. UNCHANGED <<batch, startCount, delivered, lost>> /\ (pc' = "idle" <=> pc = "idle")
        BY <2>1 DEF vars, NeedsData, FillBuf, ReadSome, IntervalElapses, locals, call, history
      <3> QED BY <3>1 DEF Emitted
    <2>2. CASE InitFails \/ ShutdownCall \/ PollRefused \/ PollNothing
      <3>1. UNCHANGED <<delivered, lost, pc>> /\ pc = "idle"
        BY <2>2 DEF InitFails, ShutdownCall, PollRefused, PollNothing, CallerPolls, history
      <3> QED BY <3>1 DEF Emitted
    <2>3. CASE PollBegin
      <3>1. pc = "idle" /\ pc' # "idle" /\ batch' = <<>> /\ UNCHANGED <<delivered, lost>>
        BY <2>3 DEF PollBegin, CallerPolls, CarefulCaller, history
      <3>2. Emitted = delivered
        BY <3>1 DEF Emitted
      <3>3. startCount' = 0 /\ delivered \in Seq(Record)
        BY <3>1 DEF InPoll, TypeOK
      <3>4. startCount' + 1 = 1 /\ Len(batch') = 0
        BY <3>1, <3>3, EmptySeq
      <3>5. SubSeq(batch', 1, 0) = <<>> /\ delivered \o <<>> = delivered
        BY <3>3, SubSeqEmpty, ConcatEmptySeq
      <3> QED BY <3>1, <3>2, <3>4, <3>5 DEF Emitted
    <2>4. CASE EofStop \/ EofLoopTwice \/ EofFollow
      <3>1. pc # "idle" /\ Deliver(batch)
        BY <2>4 DEF EofStop, EofLoopTwice, EofFollow
      <3> QED BY <3>1, DeliverEmits DEF CarefulCaller
    <2>5. CASE RecordRejected \/ FillBufFails \/ EofLoopNoRecord \/ EofLoopSeekFails
      BY <2>5 DEF RecordRejected, FillBufFails, EofLoopNoRecord, EofLoopSeekFails
    <2> QED BY <2>1, <2>2, <2>3, <2>4, <2>5 DEF QuietStep, PollBatch, Filled
  <1>3. Made' = Made
    <2>1. CASE UNCHANGED <<Emitted, lost>>
      BY <2>1 DEF Made
    <2>2. CASE pc # "idle" /\ Fail
      BY <2>2, FailEmits DEF CarefulCaller
    <2> QED BY <1>2, <2>1, <2>2
  <1> QED BY <1>1, <1>2, <1>3

(* A start forgets every record.                                           *)
LEMMA StartForgets ==
    ASSUME InitCall
    PROVE  Emitted' = <<>> /\ Made' = {} /\ lost' = {} /\ recordIndex' = 0
           /\ bufFileOffset' = 0 /\ recordsSinceRewind' = 0
  <1>1. Emitted' = <<>> /\ lost' = {}
    BY DEF InitCall, Emitted
  <1>2. Made' = {}
    BY <1>1 DEF Made
  <1> QED BY <1>1, <1>2 DEF InitCall

(* Steps that leave the records and move in the file.                      *)
LEMMA MoveEffects ==
    ASSUME EofLoopRewind \/ FileGrows
    PROVE  UNCHANGED <<Emitted, lost, Made, recordIndex>>
  <1>1. UNCHANGED <<batch, startCount, delivered, lost, recordIndex>>
        /\ (pc' = "idle" <=> pc = "idle")
    BY DEF EofLoopRewind, FileGrows, locals, call, history, session, progress
  <1>2. Emitted' = Emitted
    BY <1>1 DEF Emitted
  <1> QED BY <1>1, <1>2 DEF Made

(* A record that is consumed joins the ones made before.                   *)
LEMMA ConsumeMakes ==
    ASSUME TypeOK, TypeOK', InPoll, InPoll', ResetsBatch, BufferIsWindow, ConsumeRecord
    PROVE  /\ NextRecord \in Record /\ UNCHANGED lost
           /\ Emitted \in Seq(Record) /\ Emitted' = Append(Emitted, NextRecord)
           /\ Made' = Made \cup {NextRecord} /\ Made \subseteq Record
           /\ NextRecord.index = recordIndex /\ NextRecord.offset = bufFileOffset
           /\ recordIndex' = recordIndex + 1
           /\ recordsSinceRewind' = recordsSinceRewind + 1
           /\ bufFileOffset' = bufFileOffset + Len(NextRecord.bytes)
           /\ Len(NextRecord.bytes) \in Nat \ {0}
           /\ Complete(file, bufFileOffset)
           /\ NextRecord.bytes = BytesAt(file, bufFileOffset)
           /\ UNCHANGED <<framer, policy, file>>
  <1>1. /\ NextRecord \in Record /\ Complete(file, bufFileOffset)
        /\ NextRecord.bytes = BytesAt(file, bufFileOffset)
        /\ NextLen = LenAt(file, bufFileOffset)
    BY ConsumedIsNext
  <1>2. Emitted' = Append(Emitted, NextRecord) /\ UNCHANGED lost
    BY <1>1, ConsumeEmits
  <1>3. /\ Emitted \in Seq(Record) /\ Made \subseteq Record
        /\ Made = lost \cup {Emitted[i] : i \in 1 .. Len(Emitted)}
    BY EmittedInPoll DEF InPoll
  <1>4. Made' = lost' \cup {Emitted'[i] : i \in 1 .. Len(Emitted')}
    <2>1. Emitted' \in Seq(Record)
      BY <1>1, <1>2, <1>3, AppendProperties
    <2>2. DOMAIN Emitted' = 1 .. Len(Emitted')
      BY <2>1, LenProperties
    <2> QED BY <2>2 DEF Made
  <1>5. Made' = Made \cup {NextRecord}
    <2>1. /\ Len(Emitted') = Len(Emitted) + 1 /\ Len(Emitted) \in Nat
          /\ \A i \in 1 .. Len(Emitted) : Emitted'[i] = Emitted[i]
          /\ Emitted'[Len(Emitted) + 1] = NextRecord
      BY <1>1, <1>2, <1>3, AppendProperties, LenProperties
    <2>2. {Emitted'[i] : i \in 1 .. Len(Emitted) + 1}
            = {Emitted[i] : i \in 1 .. Len(Emitted)} \cup {NextRecord}
      BY <2>1
    <2> QED BY <1>2, <1>3, <1>4, <2>1, <2>2
  <1>6. Len(NextRecord.bytes) = NextLen /\ NextLen \in Nat \ {0}
    <2>1. file \in Seq(Bytes) /\ bufFileOffset \in Nat
      BY DEF TypeOK
    <2> QED BY <1>1, <2>1, CompleteBytes
  <1>7. /\ recordIndex' = recordIndex + 1 /\ recordsSinceRewind' = recordsSinceRewind + 1
        /\ bufFileOffset' = bufFileOffset + NextLen /\ UNCHANGED <<framer, policy, file>>
    BY DEF ConsumeRecord, config
  <1>8. NextRecord.index = recordIndex /\ NextRecord.offset = bufFileOffset
    BY DEF NextRecord
  <1> QED BY <1>1, <1>2, <1>3, <1>5, <1>6, <1>7, <1>8


(* The records that were made stay pieces of the file that join.           *)
LEMMA CutStep ==
    ASSUME TypeOK, TypeOK', InPoll, InPoll', BufferIsWindow, RecordsAreCut, EachIndexOnce,
           CarefulCaller, [Next]_vars
    PROVE  RecordsAreCut'
  <1>0. /\ Made \subseteq Record /\ file \in Seq(Bytes) /\ framer \in Framer
        /\ bufFileOffset \in Nat /\ recordIndex \in Nat /\ recordsSinceRewind \in Nat
        /\ recordsSinceRewind <= recordIndex
    <2>1. Made \subseteq Record
      BY EmittedInPoll DEF InPoll, CarefulCaller
    <2>2. framer \in Framer
      BY Constants DEF TypeOK
    <2>3. /\ file \in Seq(Bytes) /\ bufFileOffset \in Nat /\ recordIndex \in Nat
          /\ recordsSinceRewind \in Nat /\ recordsSinceRewind <= recordIndex
      BY DEF TypeOK
    <2> QED BY <2>1, <2>2, <2>3
  <1>1. \A r \in Made : r.offset \in Nat /\ r.index \in Nat /\ Len(r.bytes) \in Nat
    <2>1. \A r \in Record : r.offset \in Nat /\ r.index \in Nat /\ r.bytes \in Seq(Bytes)
      BY DEF Record
    <2> QED BY <1>0, <2>1, LenProperties
  <1>2. CASE QuietStep
    <2>1. UNCHANGED <<recordVars, file>> /\ Made' = Made
      BY <1>2, QuietEffects
    <2> QED BY <2>1 DEF recordVars, RecordsAreCut, Follows, Complete, BytesAt, LenAt
  <1>3. CASE InitCall
    BY <1>3, StartForgets DEF RecordsAreCut
  <1>4. CASE ConsumeRecord
    <2> DEFINE new == NextRecord
    <2>1. /\ Made' = Made \cup {new}
          /\ new.index = recordIndex /\ new.offset = bufFileOffset
          /\ recordIndex' = recordIndex + 1
          /\ recordsSinceRewind' = recordsSinceRewind + 1
          /\ bufFileOffset' = bufFileOffset + Len(new.bytes)
          /\ Len(new.bytes) \in Nat \ {0}
          /\ Complete(file, bufFileOffset) /\ new.bytes = BytesAt(file, bufFileOffset)
          /\ UNCHANGED <<framer, policy, file>>
      BY <1>4, ConsumeMakes DEF CarefulCaller
    <2>2. \A r \in Made : r.index \in 0 .. recordIndex - 1
      BY DEF EachIndexOnce
    <2> HIDE DEF new
    <2>3. \A r \in Made' : Complete(file, r.offset)' /\ r.bytes = BytesAt(file, r.offset)'
      BY <2>1 DEF RecordsAreCut, Complete, BytesAt, LenAt
    <2>4. \A r \in Made' : r.index = 0 => r.offset = 0
      BY <1>0, <2>1 DEF RecordsAreCut
    <2>5. \A o, r : Follows(o, r) => Follows(o, r)'
      BY <2>1 DEF Follows, Complete, LenAt
    <2>6. \A r, s \in Made' : s.index = r.index + 1 => Follows(s.offset, r)'
      <3> SUFFICES ASSUME NEW r \in Made', NEW s \in Made', s.index = r.index + 1
                   PROVE  Follows(s.offset, r)
        BY <2>5
      <3>1. CASE r \in Made /\ s \in Made
        BY <3>1 DEF RecordsAreCut
      <3>2. CASE r \in Made /\ s = new
        BY <2>1, <3>2 DEF RecordsAreCut
      <3>3. CASE r = new
        BY <1>0, <2>1, <2>2, <3>3
      <3> QED BY <2>1, <3>1, <3>2, <3>3
    <2>7. \A r \in Made' : recordIndex' = r.index + 1 => Follows(bufFileOffset, r)'
      <3> SUFFICES ASSUME NEW r \in Made', recordIndex' = r.index + 1
                   PROVE  Follows(bufFileOffset, r)'
        OBVIOUS
      <3>1. r = new
        BY <1>0, <2>1, <2>2
      <3> QED BY <2>1, <3>1 DEF Follows
    <2>8. (bufFileOffset' = 0) = (recordsSinceRewind' = 0)
      BY <1>0, <2>1
    <2> QED BY <2>3, <2>4, <2>6, <2>7, <2>8 DEF RecordsAreCut
  <1>5. CASE EofLoopRewind
    <2>1. /\ Made' = Made /\ recordIndex' = recordIndex /\ policy = "Loop"
          /\ bufFileOffset' = 0 /\ recordsSinceRewind' = 0 /\ recordsSinceRewind > 0
          /\ UNCHANGED <<framer, policy, file>>
      BY <1>5, MoveEffects DEF EofLoopRewind, config
    <2>2. ~Complete(file, bufFileOffset)
      BY <1>5, NothingLeft DEF EofLoopRewind
    <2>3. \A r \in Made' : Complete(file, r.offset)' /\ r.bytes = BytesAt(file, r.offset)'
      BY <2>1 DEF RecordsAreCut, Complete, BytesAt, LenAt
    <2>4. \A o, r : Follows(o, r) => Follows(o, r)'
      BY <2>1 DEF Follows, Complete, LenAt
    <2>5. \A r \in Made' : recordIndex' = r.index + 1 => Follows(bufFileOffset, r)'
      <3> SUFFICES ASSUME NEW r \in Made, recordIndex = r.index + 1
                   PROVE  Follows(bufFileOffset, r)'
        BY <2>1
      <3>1. Follows(bufFileOffset, r) /\ bufFileOffset # 0
        BY <1>0, <2>1 DEF RecordsAreCut
      <3>2. bufFileOffset = r.offset + Len(r.bytes)
        BY <3>1 DEF Follows
      <3>3. ~Complete(file, r.offset + Len(r.bytes))'
        BY <2>1, <2>2, <3>2 DEF Complete, LenAt
      <3> QED BY <2>1, <3>3 DEF Follows
    <2> QED BY <2>1, <2>3, <2>4, <2>5 DEF RecordsAreCut
  <1>6. CASE FileGrows
    <2>1. /\ Made' = Made /\ recordIndex' = recordIndex /\ policy # "Loop"
          /\ UNCHANGED <<framer, policy, bufFileOffset, recordsSinceRewind>>
      BY <1>6, MoveEffects DEF FileGrows, config, buffer, session, progress
    <2>2. \A r \in Made' : Complete(file, r.offset)' /\ r.bytes = BytesAt(file, r.offset)'
      <3> SUFFICES ASSUME NEW r \in Made
                   PROVE  Complete(file, r.offset)' /\ r.bytes = BytesAt(file, r.offset)'
        BY <2>1
      <3>1. Complete(file, r.offset) /\ r.bytes = BytesAt(file, r.offset) /\ r.offset \in Nat
        BY <1>1 DEF RecordsAreCut
      <3>2. Complete(file', r.offset) /\ BytesAt(file', r.offset) = BytesAt(file, r.offset)
        BY <1>0, <1>6, <3>1, FileBegins, CompleteStays
      <3> QED BY <2>1, <3>1, <3>2 DEF Complete, BytesAt, LenAt
    <2>3. \A o, r : Follows(o, r) => Follows(o, r)'
      BY <2>1 DEF Follows
    <2> QED BY <2>1, <2>2, <2>3 DEF RecordsAreCut
  <1> QED BY <1>2, <1>3, <1>4, <1>5, <1>6 DEF Next, Framed, HandleEof, QuietStep

(* No record is made twice or handed over twice.                           *)
LEMMA IndexStep ==
    ASSUME TypeOK, TypeOK', InPoll, InPoll', BufferIsWindow, EachIndexOnce,
           CarefulCaller, [Next]_vars
    PROVE  EachIndexOnce'
  <1>0. /\ Made \subseteq Record /\ recordIndex \in Nat /\ Emitted \in Seq(Record)
        /\ DOMAIN Emitted = 1 .. Len(Emitted) /\ Len(Emitted) \in Nat
    BY EmittedInPoll, LenProperties DEF TypeOK, InPoll, CarefulCaller
  <1>1. ASSUME UNCHANGED <<Emitted, lost, Made, recordIndex>> PROVE EachIndexOnce'
    BY <1>1 DEF EachIndexOnce
  <1>2. CASE QuietStep
    <2>1. Made' = Made /\ recordIndex' = recordIndex
      BY <1>2, QuietEffects DEF recordVars
    <2>2. CASE UNCHANGED <<Emitted, lost>>
      BY <1>1, <2>1, <2>2
    <2>3. CASE pc # "idle" /\ Fail
      <3>1. /\ Emitted' = delivered /\ Emitted = delivered \o batch
            /\ lost' = lost \cup {batch[i] : i \in 1 .. Len(batch)}
        BY <2>3, FailEmits DEF CarefulCaller
      <3>2. /\ delivered \in Seq(Record) /\ batch \in Seq(Record)
            /\ DOMAIN delivered = 1 .. Len(delivered)
            /\ Len(delivered) \in Nat /\ Len(batch) \in Nat
        BY LenProperties DEF TypeOK
      <3>3. /\ Len(Emitted) = Len(delivered) + Len(batch)
            /\ \A i \in 1 .. Len(delivered) : i \in DOMAIN Emitted /\ Emitted[i] = delivered[i]
            /\ \A j \in 1 .. Len(batch) : /\ Len(delivered) + j \in DOMAIN Emitted
                                          /\ Emitted[Len(delivered) + j] = batch[j]
        <4>1. /\ Len(delivered \o batch) = Len(delivered) + Len(batch)
              /\ \A i \in 1 .. Len(delivered) + Len(batch) : (delivered \o batch)[i] =
                   IF i <= Len(delivered) THEN delivered[i] ELSE batch[i - Len(delivered)]
          BY <3>2, ConcatProperties
        <4> QED BY <1>0, <3>1, <3>2, <4>1
      <3>4. \A i, j \in DOMAIN delivered : i < j => delivered[i].index < delivered[j].index
        BY <3>2, <3>3 DEF EachIndexOnce
      <3>5. \A i \in DOMAIN delivered : delivered[i] \notin lost'
        <4>1. \A i \in 1 .. Len(delivered) : delivered[i] \notin lost
          BY <3>3 DEF EachIndexOnce
        <4>2. ASSUME NEW i \in 1 .. Len(delivered), NEW j \in 1 .. Len(batch)
              PROVE  delivered[i] # batch[j]
          <5>1. i < Len(delivered) + j
            BY <3>2
          <5>2. delivered[i].index < batch[j].index
            BY <3>3, <5>1 DEF EachIndexOnce
          <5>3. delivered[i] \in Record
            BY <3>2, ElementOfSeq
          <5> QED BY <5>2, <5>3 DEF Record
        <4> QED BY <3>1, <3>2, <4>1, <4>2
      <3> QED BY <2>1, <3>1, <3>4, <3>5 DEF EachIndexOnce
    <2> QED BY <1>2, <2>2, <2>3, QuietEffects
  <1>3. CASE InitCall
    <2>1. Emitted' = <<>> /\ Made' = {} /\ lost' = {} /\ recordIndex' = 0
      BY <1>3, StartForgets
    <2>2. 0 .. 0 - 1 = {} /\ DOMAIN <<>> = {}
      OBVIOUS
    <2>3. {r.index : r \in Made'} = {}
      BY <2>1
    <2> QED BY <2>1, <2>2, <2>3 DEF EachIndexOnce
  <1>4. CASE EofLoopRewind \/ FileGrows
    BY <1>1, <1>4, MoveEffects
  <1>5. CASE ConsumeRecord
    <2> DEFINE new == NextRecord
    <2>1. /\ Made' = Made \cup {new} /\ new \in Record /\ UNCHANGED lost
          /\ Emitted' = Append(Emitted, new)
          /\ new.index = recordIndex /\ recordIndex' = recordIndex + 1
      BY <1>5, ConsumeMakes DEF CarefulCaller
    <2>2. \A r \in Made : r.index \in 0 .. recordIndex - 1
      BY DEF EachIndexOnce
    <2>3. new \notin Made
      BY <1>0, <2>1, <2>2
    <2>4. lost \subseteq Made /\ \A i \in DOMAIN Emitted : Emitted[i] \in Made
      BY DEF Made
    <2> HIDE DEF new
    <2>5. /\ DOMAIN Emitted' = 1 .. Len(Emitted) + 1
          /\ \A i \in 1 .. Len(Emitted) : Emitted'[i] = Emitted[i]
          /\ Emitted'[Len(Emitted) + 1] = new
      BY <1>0, <2>1, AppendProperties, LenProperties
    <2>6. {r.index : r \in Made'} = 0 .. recordIndex' - 1
      <3>1. {r.index : r \in Made'} = {r.index : r \in Made} \cup {recordIndex}
        BY <2>1
      <3>2. 0 .. (recordIndex + 1) - 1 = (0 .. recordIndex - 1) \cup {recordIndex}
        BY <1>0
      <3> QED BY <2>1, <3>1, <3>2 DEF EachIndexOnce
    <2>7. \A r, s \in Made' : r.index = s.index => r = s
      BY <1>0, <2>1, <2>2 DEF EachIndexOnce
    <2>8. \A i, j \in DOMAIN Emitted' : i < j => Emitted'[i].index < Emitted'[j].index
      <3> SUFFICES ASSUME NEW i \in 1 .. Len(Emitted) + 1, NEW j \in 1 .. Len(Emitted) + 1, i < j
                   PROVE  Emitted'[i].index < Emitted'[j].index
        BY <2>5
      <3>1. i \in 1 .. Len(Emitted)
        BY <1>0
      <3>2. CASE j \in 1 .. Len(Emitted)
        BY <1>0, <2>5, <3>1, <3>2 DEF EachIndexOnce
      <3>3. CASE j = Len(Emitted) + 1
        BY <1>0, <2>1, <2>2, <2>4, <2>5, <3>1, <3>3
      <3> QED BY <1>0, <3>2, <3>3
    <2>9. \A i \in DOMAIN Emitted' : Emitted'[i] \notin lost'
      BY <1>0, <2>1, <2>3, <2>4, <2>5 DEF EachIndexOnce
    <2> QED BY <2>6, <2>7, <2>8, <2>9 DEF EachIndexOnce
  <1> QED BY <1>2, <1>3, <1>4, <1>5 DEF Next, Framed, HandleEof, QuietStep

-----------------------------------------------------------------------------
(* The invariant holds at first.                                           *)
LEMMA FileInvInit == Init => FileInv
  <1> SUFFICES ASSUME Init PROVE FileInv
    OBVIOUS
  <1>1. TypeOK
    BY TypesInit
  <1>2. InPoll /\ BufferIsWindow
    BY DEF Init, InPoll, BufferIsWindow
  <1>3. Emitted = <<>> /\ lost = {} /\ recordIndex = 0
    BY DEF Init, Emitted
  <1>4. Made = {}
    BY <1>3 DEF Made
  <1>5. RecordsAreCut
    BY <1>4 DEF Init, RecordsAreCut
  <1>6. EachIndexOnce
    <2>1. 0 .. 0 - 1 = {} /\ DOMAIN <<>> = {}
      OBVIOUS
    <2>2. {r.index : r \in Made} = {}
      BY <1>4
    <2> QED BY <1>3, <1>4, <2>1, <2>2 DEF EachIndexOnce
  <1> QED BY <1>1, <1>2, <1>5, <1>6 DEF FileInv

(* Every step keeps it.                                                    *)
LEMMA FileInvNext == CarefulCaller /\ FileInv /\ [Next]_vars => FileInv'
  <1> SUFFICES ASSUME CarefulCaller, FileInv, [Next]_vars PROVE FileInv'
    OBVIOUS
  <1>0. TypeOK /\ InPoll /\ BufferIsWindow /\ RecordsAreCut /\ EachIndexOnce
    BY DEF FileInv
  <1>1. TypeOK'
    <2>1. CASE UNCHANGED vars
      BY <1>0, <2>1 DEF TypeOK, vars, config, buffer, session, progress, locals, call, bounds,
           history
    <2> QED BY <1>0, <2>1, TypesOfCalls, TypesOfReading, TypesOfTheEnd DEF Next
  <1>2. InPoll'
    BY <1>0, InPollStep DEF CarefulCaller
  <1>3. BufferIsWindow'
    BY <1>0, <1>1, WindowStep
  <1>4. RecordsAreCut'
    BY <1>0, <1>1, <1>2, CutStep
  <1>5. EachIndexOnce'
    BY <1>0, <1>1, <1>2, IndexStep
  <1> QED BY <1>1, <1>2, <1>3, <1>4, <1>5 DEF FileInv

(* For every file, framing strategy, policy and cut of the reads: the      *)
(* buffer of FileSource is what has been read and not yet consumed, every  *)
(* record that poll_batch puts into a batch is the piece of the file that  *)
(* the framer finds in the whole file at its offset, it begins where the   *)
(* one before it has ended, or at the start after a whole pass of Loop,    *)
(* and every index is given to one record, which comes out once and in     *)
(* order unless its poll has failed.                                       *)
THEOREM FileInvHolds ==
    ASSUME CarefulCaller
    PROVE  Spec => []FileInv
  <1>1. FileInv /\ [Next]_vars => FileInv'
    BY FileInvNext
  <1> QED BY <1>1, FileInvInit, PTL DEF Spec


(* The source says that it is exhausted, and Loop that the file has no     *)
(* record, only when the framer finds none in what is left of the file, or *)
(* in all of it.                                                           *)
EndIsReal ==
    [][/\ ~exhausted /\ exhausted' => ~Complete(file, bufFileOffset)
       /\ EofLoopNoRecord => ~Complete(file, 0)]_vars

(* handle_eof ends the source, or fails for want of a record, only where   *)
(* no record is left, whatever the reads were.                             *)
THEOREM EndIsRealHolds ==
    ASSUME CarefulCaller
    PROVE  Spec => EndIsReal
  <1>1. ASSUME FileInv, [Next]_vars, ~exhausted, exhausted'
        PROVE  ~Complete(file, bufFileOffset)
    <2>1. EofStop
      <3>1. ~UNCHANGED exhausted /\ exhausted'
        BY <1>1
      <3> QED BY <1>1, <3>1 DEF Next, vars, InitCall, InitFails, ShutdownCall, PollBatch,
             PollRefused, PollNothing, PollBegin, Framed, NeedsData, RecordRejected, ConsumeRecord,
             Filled, FillBuf, ReadSome, FillBufFails, HandleEof, EofLoopTwice, EofLoopNoRecord,
             EofLoopRewind, EofLoopSeekFails, EofFollow, IntervalElapses, FileGrows, session
    <2> QED BY <1>1, <2>1, NothingLeft DEF EofStop, FileInv
  <1>2. ASSUME FileInv, EofLoopNoRecord PROVE ~Complete(file, 0)
    <2>1. bufFileOffset = 0
      BY <1>2 DEF EofLoopNoRecord, FileInv, RecordsAreCut
    <2> QED BY <1>2, <2>1, NothingLeft DEF EofLoopNoRecord, FileInv
  <1>3. FileInv /\ [Next]_vars =>
          [/\ ~exhausted /\ exhausted' => ~Complete(file, bufFileOffset)
           /\ EofLoopNoRecord => ~Complete(file, 0)]_vars
    BY <1>1, <1>2
  <1> QED BY <1>3, FileInvHolds, PTL DEF Spec, EndIsReal


-----------------------------------------------------------------------------
(* The records of the source are those of the file                         *)

(* The source is at the end of the records it has made in this pass, and   *)
(* the passes before were complete.  This is what makes the property       *)
(* inductive.                                                              *)
AtItsPlace ==
    /\ recordsSinceRewind <= Len(RecordsOf(file))
    /\ bufFileOffset = Place(RecordsOf(file), 0, recordsSinceRewind)
    /\ recordIndex > 0 => Len(RecordsOf(file)) > 0
    /\ policy # "Loop" => recordIndex = recordsSinceRewind
    /\ policy = "Loop" =>
         recordIndex = loopCount * Len(RecordsOf(file)) + recordsSinceRewind
    /\ \A r \in Made : r = Expected(r.index)

(* Numbers of two digits, the last one below the base.                     *)
LEMMA LastDigit ==
    ASSUME NEW c \in Nat, NEW n \in Nat, NEW k \in Nat, k < n
    PROVE  (c * n + k) % n = k
  BY SMT

(* A pass more.                                                            *)
LEMMA OnePassMore ==
    ASSUME NEW c \in Nat, NEW n \in Nat
    PROVE  c * n + n = (c + 1) * n + 0
  BY SMT

(* Every step keeps the place.                                             *)
LEMMA PlaceStep ==
    ASSUME FileInv, FileInv', CarefulCaller, [Next]_vars, AtItsPlace
    PROVE  AtItsPlace'
  <1>0. TypeOK /\ TypeOK' /\ InPoll /\ InPoll' /\ BufferIsWindow /\ EachIndexOnce
    BY DEF FileInv
  <1>1. /\ file \in Seq(Bytes) /\ framer \in Framer /\ recordIndex \in Nat
        /\ recordsSinceRewind \in Nat /\ loopCount \in Nat /\ bufFileOffset \in Nat
    BY <1>0, Constants DEF TypeOK
  <1> DEFINE R == RecordsOf(file)
  <1>2. PICK n \in Nat : n = Len(R)
    BY <1>1, RecordAfter
  <1>3. /\ \A k \in 0 .. n : Place(R, 0, k) \in Nat /\ (Complete(file, Place(R, 0, k)) <=> k < n)
        /\ \A k \in 0 .. n - 1 :
             /\ R[k + 1] = PieceAt(file, Place(R, 0, k))
             /\ Place(R, 0, k + 1) = Place(R, 0, k) + LenAt(file, Place(R, 0, k))
    BY <1>1, <1>2, RecordAfter
  <1>4. recordsSinceRewind \in 0 .. n /\ (Complete(file, bufFileOffset) <=> recordsSinceRewind < n)
    BY <1>1, <1>2, <1>3 DEF AtItsPlace
  <1>5. ASSUME UNCHANGED <<file, framer, policy>>
        PROVE  RecordsOf(file)' = R /\ \A i : Expected(i)' = Expected(i)
    BY <1>5 DEF RecordsOf, Expected, Complete, BytesAt, LenAt
  <1>6. CASE QuietStep
    <2>1. UNCHANGED <<recordVars, file>> /\ Made' = Made /\ UNCHANGED loopCount
      <3>1. UNCHANGED loopCount
        BY <1>6 DEF QuietStep, vars, InitFails, ShutdownCall, PollBatch, PollRefused, PollNothing,
             PollBegin, NeedsData, Filled, FillBuf, ReadSome, FillBufFails, EofStop, EofLoopTwice,
             EofLoopNoRecord, EofLoopSeekFails, EofFollow, RecordRejected, IntervalElapses, session
      <3> QED BY <1>0, <1>6, <3>1, QuietEffects
    <2>2. RecordsOf(file)' = R /\ \A i : Expected(i)' = Expected(i)
      BY <1>5, <2>1 DEF recordVars
    <2> HIDE DEF R
    <2> QED BY <2>1, <2>2 DEF AtItsPlace, recordVars, R
  <1>7. CASE InitCall
    <2>1. /\ Made' = {} /\ recordIndex' = 0 /\ bufFileOffset' = 0
          /\ recordsSinceRewind' = 0 /\ loopCount' = 0 /\ UNCHANGED <<file, framer, policy>>
      BY <1>7, StartForgets DEF InitCall, config
    <2>2. RecordsOf(file)' = R
      BY <1>5, <2>1
    <2>3. 0 * n + 0 = 0
      BY <1>2
    <2> QED BY <1>2, <2>1, <2>2, <2>3 DEF AtItsPlace, Place
  <1>8. CASE ConsumeRecord
    <2> DEFINE new == NextRecord
               k == recordsSinceRewind
    <2>1. /\ Made' = Made \cup {new} /\ new \in Record
          /\ new.index = recordIndex /\ new.offset = bufFileOffset
          /\ recordIndex' = recordIndex + 1
          /\ recordsSinceRewind' = k + 1
          /\ bufFileOffset' = bufFileOffset + Len(new.bytes)
          /\ Complete(file, bufFileOffset) /\ new.bytes = BytesAt(file, bufFileOffset)
          /\ UNCHANGED <<framer, policy, file>> /\ UNCHANGED loopCount
      <3>1. UNCHANGED loopCount
        BY <1>8 DEF ConsumeRecord
      <3> QED BY <1>0, <1>8, <3>1, ConsumeMakes DEF CarefulCaller
    <2>2. RecordsOf(file)' = R /\ \A i : Expected(i)' = Expected(i)
      BY <1>5, <2>1
    <2>3. k \in 0 .. n - 1 /\ k < n /\ k + 1 <= n
      BY <1>1, <1>2, <1>4, <2>1
    <2>4. bufFileOffset = Place(R, 0, k)
      BY DEF AtItsPlace
    <2>5. R[k + 1] = PieceAt(file, bufFileOffset)
          /\ Place(R, 0, k + 1) = bufFileOffset + LenAt(file, bufFileOffset)
      BY <1>3, <2>3, <2>4
    <2>6. Len(new.bytes) = LenAt(file, bufFileOffset)
      BY <1>1, <2>1, CompleteBytes
    <2> HIDE DEF R, new
    <2>7. (IF policy = "Loop" THEN recordIndex % n ELSE recordIndex) = k
      <3>1. CASE policy = "Loop"
        <4>1. recordIndex = loopCount * n + k
          BY <1>2, <3>1 DEF AtItsPlace, R
        <4>2. (loopCount * n + k) % n = k
          BY <1>1, <2>3, LastDigit
        <4> QED BY <3>1, <4>1, <4>2
      <3>2. CASE policy # "Loop"
        BY <3>2 DEF AtItsPlace
      <3> QED BY <3>1, <3>2
    <2>8. new = Expected(new.index)
      <3>1. Expected(recordIndex) = [offset |-> R[k + 1].offset, index |-> recordIndex,
                                     bytes |-> R[k + 1].bytes]
        BY <1>2, <2>7 DEF Expected, R
      <3>2. R[k + 1].offset = bufFileOffset /\ R[k + 1].bytes = BytesAt(file, bufFileOffset)
        BY <2>5 DEF PieceAt
      <3>3. new = [offset |-> new.offset, index |-> new.index, bytes |-> new.bytes]
        BY <2>1 DEF Record
      <3> QED BY <2>1, <3>1, <3>2, <3>3
    <2>9. \A r \in Made' : r = Expected(r.index)'
      <3>1. \A r \in Made : r = Expected(r.index)
        BY DEF AtItsPlace
      <3> QED BY <2>1, <2>2, <2>8, <3>1
    <2>10. bufFileOffset' = Place(R, 0, recordsSinceRewind')
      BY <2>1, <2>5, <2>6
    <2>11. policy # "Loop" => recordIndex' = recordsSinceRewind'
      BY <2>1 DEF AtItsPlace
    <2>12. policy = "Loop" => recordIndex' = loopCount * n + recordsSinceRewind'
      <3> SUFFICES ASSUME policy = "Loop" PROVE recordIndex' = loopCount * n + recordsSinceRewind'
        OBVIOUS
      <3>1. PICK z \in Nat : z = loopCount * n
        BY <1>1, <1>2
      <3>2. recordIndex = z + k
        BY <1>2, <3>1 DEF AtItsPlace, R
      <3>3. recordIndex' = z + (k + 1)
        BY <1>1, <2>1, <3>1, <3>2
      <3> QED BY <2>1, <3>1, <3>3
    <2>13. recordsSinceRewind' <= Len(R) /\ Len(R) > 0
      BY <1>1, <1>2, <2>1, <2>3
    <2> QED BY <1>2, <2>1, <2>2, <2>9, <2>10, <2>11, <2>12, <2>13 DEF AtItsPlace
  <1>9. CASE EofLoopRewind
    <2>1. /\ Made' = Made /\ recordIndex' = recordIndex /\ policy = "Loop"
          /\ bufFileOffset' = 0 /\ recordsSinceRewind' = 0 /\ loopCount' = loopCount + 1
          /\ UNCHANGED <<framer, policy, file>>
      BY <1>9, MoveEffects DEF EofLoopRewind, config
    <2>2. ~Complete(file, bufFileOffset)
      BY <1>0, <1>9, NothingLeft DEF EofLoopRewind
    <2>3. recordsSinceRewind = n
      BY <1>1, <1>2, <1>4, <2>2
    <2>4. RecordsOf(file)' = R /\ \A i : Expected(i)' = Expected(i)
      BY <1>5, <2>1
    <2> HIDE DEF R
    <2>5. recordIndex = loopCount * n + n
      BY <1>2, <2>1, <2>3 DEF AtItsPlace, R
    <2>6. recordIndex' = loopCount' * n + recordsSinceRewind'
      BY <1>1, <2>1, <2>5, OnePassMore
    <2>7. 0 <= n /\ Place(R, 0, 0) = 0
      BY DEF Place
    <2> QED BY <1>2, <2>1, <2>4, <2>6, <2>7 DEF AtItsPlace, R
  <1>10. CASE FileGrows
    <2>1. /\ Made' = Made /\ recordIndex' = recordIndex /\ policy # "Loop"
          /\ UNCHANGED <<framer, policy, bufFileOffset, recordsSinceRewind, loopCount>>
      BY <1>10, MoveEffects DEF FileGrows, config, buffer, session, progress
    <2> DEFINE Q == RecordsOf(file')
    <2>2. RecordsOf(file)' = Q
      BY <2>1 DEF RecordsOf, Complete, BytesAt, LenAt
    <2>3. /\ n <= Len(Q) /\ \A k \in 0 .. n : Place(Q, 0, k) = Place(R, 0, k)
          /\ \A k \in 1 .. n : Q[k] = R[k]
      BY <1>0, <1>1, <1>2, <1>10, FileBegins, RecordsStay
    <2>4. Len(Q) \in Nat
      <3>1. file' \in Seq(Bytes)
        BY <1>0 DEF TypeOK
      <3> QED BY <3>1, RecordAfter
    <2> HIDE DEF R, Q
    <2>5. bufFileOffset' = Place(Q, 0, recordsSinceRewind')
      BY <1>4, <2>1, <2>3 DEF AtItsPlace, R
    <2>6. recordsSinceRewind' <= Len(Q) /\ (recordIndex' > 0 => Len(Q) > 0)
      BY <1>1, <1>2, <1>4, <2>1, <2>3, <2>4 DEF AtItsPlace, R
    <2>7. recordIndex = recordsSinceRewind
      BY <2>1 DEF AtItsPlace
    <2>8. ASSUME NEW r \in Made PROVE r = Expected(r.index)'
      <3>1. r = Expected(r.index)
        BY DEF AtItsPlace
      <3>2. r.index \in 0 .. recordIndex - 1
        BY <1>0 DEF EachIndexOnce
      <3>3. r.index + 1 \in 1 .. n
        BY <1>1, <1>2, <1>4, <2>7, <3>2
      <3>4. Expected(r.index) = [offset |-> R[r.index + 1].offset, index |-> r.index,
                                 bytes |-> R[r.index + 1].bytes]
        BY <2>1 DEF Expected, R
      <3>5. Expected(r.index)' = [offset |-> Q[r.index + 1].offset, index |-> r.index,
                                  bytes |-> Q[r.index + 1].bytes]
        BY <2>1, <2>2 DEF Expected
      <3>6. Q[r.index + 1] = R[r.index + 1]
        BY <2>3, <3>3
      <3> QED BY <3>1, <3>4, <3>5, <3>6
    <2> QED BY <2>1, <2>2, <2>5, <2>6, <2>7, <2>8 DEF AtItsPlace
  <1> QED BY <1>6, <1>7, <1>8, <1>9, <1>10 DEF Next, Framed, HandleEof, QuietStep

(* The place holds at first.                                               *)
LEMMA PlaceInit == Init => AtItsPlace
  <1> SUFFICES ASSUME Init PROVE AtItsPlace
    OBVIOUS
  <1>1. TypeOK
    BY TypesInit
  <1>2. Len(RecordsOf(file)) \in Nat
    BY <1>1, RecordAfter DEF TypeOK
  <1>3. Emitted = <<>> /\ lost = {}
    BY DEF Init, Emitted
  <1>4. Made = {}
    BY <1>3 DEF Made
  <1>5. /\ recordsSinceRewind = 0 /\ bufFileOffset = 0 /\ recordIndex = 0 /\ loopCount = 0
    BY DEF Init
  <1>6. 0 * Len(RecordsOf(file)) + 0 = 0
    BY <1>2
  <1> QED BY <1>2, <1>4, <1>5, <1>6 DEF AtItsPlace, Place

(* The place says which records those are that came out.                   *)
LEMMA PlaceIsEnough ==
    ASSUME FileInv, AtItsPlace
    PROVE  RecordsAreThoseOfTheFile
  <1>0. TypeOK /\ InPoll /\ EachIndexOnce
    BY DEF FileInv
  <1>1. recordIndex > 0 => RecordsOf(file) # <<>>
    BY EmptySeq DEF AtItsPlace
  <1>2. policy # "Loop" => recordIndex <= Len(RecordsOf(file))
    BY DEF AtItsPlace
  <1>3. \A i \in DOMAIN Emitted : Emitted[i] \in Made
    BY DEF Made
  <1>4. {Emitted[i].index : i \in DOMAIN Emitted}
          = (0 .. recordIndex - 1) \ {r.index : r \in lost}
    <2> DEFINE out == {Emitted[i].index : i \in DOMAIN Emitted}
               gone == {r.index : r \in lost}
    <2>1. \A x : x \in 0 .. recordIndex - 1 <=> x \in out \/ x \in gone
      <3>1. {r.index : r \in Made} = 0 .. recordIndex - 1
        BY <1>0 DEF EachIndexOnce
      <3>2. \A x : x \in {r.index : r \in Made} <=> x \in out \/ x \in gone
        BY DEF Made
      <3> QED BY <3>1, <3>2
    <2>2. ASSUME NEW x \in out, x \in gone PROVE FALSE
      <3>1. PICK i \in DOMAIN Emitted : x = Emitted[i].index
        OBVIOUS
      <3>2. PICK r \in lost : x = r.index
        BY <2>2
      <3>3. r \in Made /\ Emitted[i] \in Made
        BY <1>3 DEF Made
      <3>4. r = Emitted[i]
        BY <1>0, <3>1, <3>2, <3>3 DEF EachIndexOnce
      <3> QED BY <1>0, <3>4 DEF EachIndexOnce
    <2> HIDE DEF out, gone
    <2>3. out = (0 .. recordIndex - 1) \ gone
      BY <2>1, <2>2
    <2> QED BY <2>3 DEF out, gone
  <1>5. \A i, j \in DOMAIN Emitted : i < j => Emitted[i].index < Emitted[j].index
    BY <1>0 DEF EachIndexOnce
  <1>6. \A i \in DOMAIN Emitted : Emitted[i] = Expected(Emitted[i].index)
    BY <1>3 DEF AtItsPlace
  <1>7. PassesAreComplete
    BY DEF AtItsPlace, PassesAreComplete
  <1> QED BY <1>1, <1>2, <1>4, <1>5, <1>6, <1>7 DEF RecordsAreThoseOfTheFile

(* For every file, framing strategy, policy and cut of the reads: what     *)
(* poll_batch hands over is the records that framing the whole file at     *)
(* once gives, in order, each with its bytes, offset and index, again and  *)
(* again under Loop, and the only ones missing are those of polls that     *)
(* failed.                                                                 *)
THEOREM RecordsAreThoseOfTheFileHolds ==
    ASSUME CarefulCaller
    PROVE  Spec => []RecordsAreThoseOfTheFile
  <1>1. FileInv /\ FileInv' /\ [Next]_vars /\ AtItsPlace => AtItsPlace'
    BY PlaceStep
  <1>2. Spec => []AtItsPlace
    BY <1>1, PlaceInit, FileInvHolds, PTL DEF Spec
  <1>3. FileInv /\ AtItsPlace => RecordsAreThoseOfTheFile
    BY PlaceIsEnough
  <1> QED BY <1>2, <1>3, FileInvHolds, PTL

(* handle_eof says that a file is exhausted only when as many records have *)
(* come out as framing the whole file gives.                               *)
THEOREM ExhaustedAfterAllHolds ==
    ASSUME CarefulCaller
    PROVE  Spec => ExhaustedAfterAll
  <1>1. ASSUME FileInv, AtItsPlace, [Next]_vars, ~exhausted, exhausted'
        PROVE  recordIndex = Len(RecordsOf(file))
    <2>1. EofStop
      <3>1. ~UNCHANGED exhausted /\ exhausted'
        BY <1>1
      <3> QED BY <1>1, <3>1 DEF Next, vars, InitCall, InitFails, ShutdownCall, PollBatch,
             PollRefused, PollNothing, PollBegin, Framed, NeedsData, RecordRejected, ConsumeRecord,
             Filled, FillBuf, ReadSome, FillBufFails, HandleEof, EofLoopTwice, EofLoopNoRecord,
             EofLoopRewind, EofLoopSeekFails, EofFollow, IntervalElapses, FileGrows, session
    <2>2. ~Complete(file, bufFileOffset) /\ policy = "Stop"
      BY <1>1, <2>1, NothingLeft DEF EofStop, FileInv
    <2>3. file \in Seq(Bytes) /\ recordsSinceRewind \in Nat
      BY <1>1 DEF FileInv, TypeOK
    <2>4. /\ Len(RecordsOf(file)) \in Nat
          /\ recordsSinceRewind \in 0 .. Len(RecordsOf(file))
          /\ bufFileOffset = Place(RecordsOf(file), 0, recordsSinceRewind)
          /\ recordIndex = recordsSinceRewind
      BY <1>1, <2>2, <2>3, RecordAfter DEF AtItsPlace
    <2>5. ~(recordsSinceRewind < Len(RecordsOf(file)))
      BY <2>2, <2>3, <2>4, RecordAfter
    <2> QED BY <2>3, <2>4, <2>5
  <1>2. FileInv /\ AtItsPlace /\ [Next]_vars =>
          [~exhausted /\ exhausted' => recordIndex = Len(RecordsOf(file))]_vars
    BY <1>1
  <1>3. FileInv /\ FileInv' /\ [Next]_vars /\ AtItsPlace => AtItsPlace'
    BY PlaceStep
  <1>4. Spec => []AtItsPlace
    BY <1>3, PlaceInit, FileInvHolds, PTL DEF Spec
  <1> QED BY <1>2, <1>4, FileInvHolds, PTL DEF Spec, ExhaustedAfterAll

-----------------------------------------------------------------------------
(* The virtual storage and the replay.                                     *)

-----------------------------------------------------------------------------
(* The file source below a caller that does not reset its batch            *)

(* Where the source is in the file.                                        *)
AtOffset ==
    /\ recordsSinceRewind <= Len(RecordsOf(file))
    /\ bufFileOffset = Place(RecordsOf(file), 0, recordsSinceRewind)

(* A record that is one of the pieces R of a file.                         *)
IsIn(R, r) == \E k \in 1 .. Len(R) : R[k].offset = r.offset /\ R[k].bytes = r.bytes

(* All records in the batch and on their way out are in the file.          *)
Genuine ==
    /\ \A i \in 1 .. Len(batch) : IsIn(RecordsOf(file), batch[i])
    /\ \A i \in 1 .. Len(delivered) : IsIn(RecordsOf(file), delivered[i])

InnerInv == TypeOK /\ InPoll /\ BufferIsWindow /\ AtOffset /\ Genuine

(* Every step is one of the file source, or none.                          *)
LEMMA InnerTypes ==
    ASSUME TypeOK, InPoll, BufferIsWindow, [Next \/ PollFull]_vars
    PROVE  TypeOK'
  <1>1. CASE UNCHANGED vars
    BY <1>1 DEF TypeOK, vars, config, buffer, session, progress, locals, call, bounds, history
  <1>2. CASE InitCall \/ InitFails \/ ShutdownCall \/ PollBatch \/ PollFull
    BY <1>2, TypesOfCalls
  <1>3. CASE Framed \/ Filled
    BY <1>3, TypesOfReading
  <1>4. CASE HandleEof \/ IntervalElapses \/ FileGrows
    BY <1>4, TypesOfTheEnd
  <1> QED BY <1>1, <1>2, <1>3, <1>4 DEF Next


(* The framer and the policy never change, and the file only at its end.   *)
LEMMA FileSteps ==
    ASSUME TypeOK, TypeOK', [Next \/ PollFull]_vars
    PROVE  /\ UNCHANGED <<framer, policy>>
           /\ file' = file \/ FileGrows
           /\ file \in Seq(Bytes) /\ file' \in Seq(Bytes) /\ framer \in Framer
           /\ Begins(file, file')
           /\ RecordsOf(file)' = RecordsOf(file')
  <1>1. UNCHANGED <<framer, policy>> /\ (file' = file \/ FileGrows)
    BY DEF Next, vars, config, InitCall, InitFails, ShutdownCall, PollBatch, PollRefused,
         PollNothing, PollBegin, PollFull, Framed, NeedsData, RecordRejected, ConsumeRecord,
         Filled, FillBuf, ReadSome, FillBufFails, HandleEof, EofStop, EofLoopTwice,
         EofLoopNoRecord, EofLoopRewind, EofLoopSeekFails, EofFollow, IntervalElapses, FileGrows
  <1>2. file \in Seq(Bytes) /\ file' \in Seq(Bytes) /\ framer \in Framer
    BY Constants DEF TypeOK
  <1>3. Begins(file, file')
    <2>1. CASE file' = file
      BY <1>2, <2>1, LenProperties DEF Begins
    <2>2. CASE FileGrows
      BY <2>2, FileBegins
    <2> QED BY <1>1, <2>1, <2>2
  <1>4. RecordsOf(file)' = RecordsOf(file')
    BY <1>1 DEF RecordsOf, Complete, BytesAt, LenAt
  <1> QED BY <1>1, <1>2, <1>3, <1>4

(* A record in the file stays there.                                       *)
LEMMA InFileStays ==
    ASSUME TypeOK, TypeOK', [Next \/ PollFull]_vars, NEW r, IsIn(RecordsOf(file), r)
    PROVE  IsIn(RecordsOf(file'), r)
  <1> DEFINE R == RecordsOf(file)
             Q == RecordsOf(file')
  <1>1. PICK k \in 1 .. Len(R) : R[k].offset = r.offset /\ R[k].bytes = r.bytes
    BY DEF IsIn
  <1>2. Len(R) \in Nat /\ Len(Q) \in Nat /\ Len(R) <= Len(Q) /\ Q[k] = R[k]
    <2>1. Len(R) \in Nat /\ Len(Q) \in Nat
      BY FileSteps, RecordAfter
    <2> QED BY <1>1, <2>1, FileSteps, RecordsStay
  <1> HIDE DEF R, Q
  <1>3. k \in 1 .. Len(Q) /\ Q[k].offset = r.offset /\ Q[k].bytes = r.bytes
    BY <1>1, <1>2
  <1>4. IsIn(Q, r)
    BY <1>3 DEF IsIn
  <1> QED BY <1>4 DEF Q

(* A record that is consumed is in the file, and the source is behind it.  *)
LEMMA ConsumedIsInFile ==
    ASSUME InnerInv, ConsumeRecord
    PROVE  /\ IsIn(RecordsOf(file), NextRecord) /\ NextRecord \in Record
           /\ recordsSinceRewind + 1 <= Len(RecordsOf(file))
           /\ bufFileOffset + NextLen = Place(RecordsOf(file), 0, recordsSinceRewind + 1)
  <1> DEFINE R == RecordsOf(file)
             k == recordsSinceRewind
  <1>1. file \in Seq(Bytes) /\ k \in Nat
    BY DEF InnerInv, TypeOK
  <1>2. PICK n \in Nat : n = Len(R)
    BY <1>1, RecordAfter
  <1>3. k \in 0 .. n /\ bufFileOffset = Place(R, 0, k)
    BY <1>1, <1>2 DEF InnerInv, AtOffset
  <1>4. /\ Complete(file, bufFileOffset) /\ NextLen = LenAt(file, bufFileOffset)
        /\ NextRecord \in Record /\ NextRecord.bytes = BytesAt(file, bufFileOffset)
    BY ConsumedIsNext DEF InnerInv
  <1>5. k < n
    BY <1>1, <1>2, <1>3, <1>4, RecordAfter
  <1>6. k \in 0 .. n - 1 /\ k + 1 \in 1 .. n
    BY <1>1, <1>2, <1>5
  <1>7. R[k + 1] = PieceAt(file, bufFileOffset)
        /\ Place(R, 0, k + 1) = bufFileOffset + LenAt(file, bufFileOffset)
    BY <1>1, <1>2, <1>3, <1>6, RecordAfter
  <1>8. R[k + 1].offset = NextRecord.offset /\ R[k + 1].bytes = NextRecord.bytes
    BY <1>4, <1>7 DEF PieceAt, NextRecord
  <1> HIDE DEF R, k
  <1>9. IsIn(R, NextRecord)
    BY <1>2, <1>6, <1>8 DEF IsIn
  <1> QED BY <1>2, <1>4, <1>6, <1>7, <1>9 DEF R, k

(* The source stays at the end of its records.                             *)
LEMMA OffsetStep ==
    ASSUME InnerInv, TypeOK', [Next \/ PollFull]_vars
    PROVE  AtOffset'
  <1>0. TypeOK /\ AtOffset
    BY DEF InnerInv
  <1> DEFINE R == RecordsOf(file)
             Q == RecordsOf(file')
  <1>1. /\ RecordsOf(file)' = Q /\ Len(R) \in Nat /\ Len(Q) \in Nat
        /\ Len(R) <= Len(Q) /\ \A k \in 0 .. Len(R) : Place(Q, 0, k) = Place(R, 0, k)
    <2>1. Len(R) \in Nat /\ Len(Q) \in Nat
      BY <1>0, FileSteps, RecordAfter
    <2> QED BY <1>0, <2>1, FileSteps, RecordsStay
  <1>2. /\ recordsSinceRewind \in 0 .. Len(R) /\ recordsSinceRewind \in Nat
        /\ bufFileOffset = Place(R, 0, recordsSinceRewind)
    BY <1>0, <1>1 DEF AtOffset, TypeOK
  <1> HIDE DEF R, Q
  <1>3. CASE ConsumeRecord
    <2>1. /\ bufFileOffset' = bufFileOffset + NextLen
          /\ recordsSinceRewind' = recordsSinceRewind + 1 /\ file' = file
      BY <1>3 DEF ConsumeRecord
    <2>2. Q = R
      BY <2>1 DEF Q, R
    <2>3. recordsSinceRewind + 1 <= Len(R)
          /\ bufFileOffset + NextLen = Place(R, 0, recordsSinceRewind + 1)
      BY <1>3, ConsumedIsInFile DEF R
    <2> QED BY <1>1, <2>1, <2>2, <2>3 DEF AtOffset
  <1>4. CASE InitCall \/ EofLoopRewind
    <2>1. bufFileOffset' = 0 /\ recordsSinceRewind' = 0
      BY <1>4 DEF InitCall, EofLoopRewind
    <2> QED BY <1>1, <2>1 DEF AtOffset, Place
  <1>5. CASE ~ConsumeRecord /\ ~InitCall /\ ~EofLoopRewind
    <2>1. UNCHANGED <<bufFileOffset, recordsSinceRewind>>
      BY <1>5 DEF Next, vars, InitFails, ShutdownCall, PollBatch, PollRefused,
         PollNothing, PollBegin, PollFull, Framed, NeedsData, RecordRejected,
         Filled, FillBuf, ReadSome, FillBufFails, HandleEof, EofStop, EofLoopTwice,
         EofLoopNoRecord, EofLoopSeekFails, EofFollow, IntervalElapses, FileGrows,
         buffer, session, progress
    <2>2. recordsSinceRewind <= Len(Q) /\ bufFileOffset = Place(Q, 0, recordsSinceRewind)
      BY <1>1, <1>2
    <2> QED BY <1>1, <2>1, <2>2 DEF AtOffset
  <1> QED BY <1>3, <1>4, <1>5

(* What a poll hands over comes from the batch.                            *)
LEMMA DeliveredGrows ==
    ASSUME TypeOK, NEW records \in Seq(Record), startCount <= Len(records), Deliver(records)
    PROVE  /\ Len(delivered) \in Nat /\ Len(delivered') \in Nat
           /\ Len(delivered) <= Len(delivered')
           /\ \A i \in 1 .. Len(delivered) : delivered'[i] = delivered[i]
           /\ \A i \in Len(delivered) + 1 .. Len(delivered') :
                i - Len(delivered) \in 1 .. Len(records)
                /\ delivered'[i] = records[i - Len(delivered)]
  <1>1. PICK n \in Nat : n = Len(records) - startCount /\ n <= Len(records)
    <2>1. startCount \in Nat /\ Len(records) \in Nat
      BY LenProperties, Constants DEF TypeOK
    <2> QED BY <2>1
  <1> DEFINE new == SubSeq(records, 1, n)
  <1>2. \A i \in 1 .. n : records[i] \in Record
    BY <1>1, ElementOfSeq, LenProperties
  <1>3. new \in Seq(Record) /\ Len(new) = n /\ \A i \in 1 .. n : new[i] = records[i]
    <2>1. /\ new \in Seq(Record) /\ Len(new) = (IF 1 <= n THEN n - 1 + 1 ELSE 0)
          /\ \A i \in 1 .. n - 1 + 1 : new[i] = records[1 + i - 1]
      BY <1>1, <1>2, SubSeqProperties
    <2>2. n - 1 + 1 = n /\ \A i \in 1 .. n : 1 + i - 1 = i
      BY <1>1
    <2> HIDE DEF new
    <2> QED BY <1>1, <2>1, <2>2
  <1>4. delivered' = delivered \o new
    BY <1>1 DEF Deliver
  <1> HIDE DEF new
  <1>5. PICK d \in Nat : d = Len(delivered) /\ delivered \in Seq(Record)
    BY LenProperties DEF TypeOK
  <1>6. /\ Len(delivered') = d + n
        /\ \A i \in 1 .. d : delivered'[i] = delivered[i]
        /\ \A i \in 1 .. d + n : i > d => delivered'[i] = new[i - d]
    BY <1>3, <1>4, <1>5, ConcatProperties
  <1>7. \A i \in d + 1 .. d + n : i - d \in 1 .. n /\ i - d \in 1 .. Len(records)
    BY <1>1, <1>5, LenProperties
  <1>8. \A i \in d + 1 .. d + n : delivered'[i] = records[i - d]
    BY <1>3, <1>5, <1>6, <1>7
  <1> QED BY <1>5, <1>6, <1>7, <1>8


(* How a step changes what the caller of the file source has got.          *)
LEMMA DeliveredSteps ==
    ASSUME TypeOK, InPoll, BufferIsWindow, [Next \/ PollFull]_vars
    PROVE  \/ UNCHANGED delivered
           \/ InitCall
           \/ ConsumeRecord /\ Deliver(batch') /\ batch' \in Seq(Record) /\ startCount <= Len(batch')
           \/ Deliver(batch) /\ batch \in Seq(Record) /\ startCount <= Len(batch) /\ UNCHANGED batch
  <1>1. CASE ConsumeRecord
    <2>1. CASE Len(batch') >= Capacity
      <3>1. Deliver(batch')
        BY <1>1, <2>1 DEF ConsumeRecord
      <3>2. NextRecord \in Record /\ batch' = Append(batch, NextRecord) /\ batch \in Seq(Record)
        BY <1>1, ConsumedIsNext DEF ConsumeRecord, NextRecord, TypeOK
      <3>3. batch' \in Seq(Record) /\ Len(batch') = Len(batch) + 1 /\ Len(batch) \in Nat
        BY <3>2, AppendProperties, LenProperties
      <3>4. startCount <= Len(batch) /\ startCount \in Nat
        BY <1>1, Constants DEF ConsumeRecord, InPoll, TypeOK
      <3> QED BY <1>1, <3>1, <3>3, <3>4
    <2>2. CASE ~(Len(batch') >= Capacity)
      BY <1>1, <2>2 DEF ConsumeRecord, history
    <2> QED BY <2>1, <2>2
  <1>2. CASE EofStop \/ EofLoopTwice \/ EofFollow
    <2>1. Deliver(batch) /\ UNCHANGED batch /\ pc = "fill"
      BY <1>2 DEF EofStop, EofLoopTwice, EofFollow
    <2> QED BY <2>1 DEF InPoll, TypeOK
  <1>3. CASE InitCall
    BY <1>3
  <1>4. CASE ~ConsumeRecord /\ ~InitCall /\ ~EofStop /\ ~EofLoopTwice /\ ~EofFollow
    <2>1. UNCHANGED delivered
      BY <1>4 DEF Next, vars, InitFails, ShutdownCall, PollBatch, PollRefused,
         PollNothing, PollBegin, PollFull, Framed, NeedsData, RecordRejected,
         Filled, FillBuf, ReadSome, FillBufFails, HandleEof, EofLoopNoRecord,
         EofLoopRewind, EofLoopSeekFails, IntervalElapses, FileGrows, Fail, history
    <2> QED BY <2>1
  <1> QED BY <1>1, <1>2, <1>3, <1>4

(* The records on their way stay records of the file.                      *)
LEMMA GenuineStep ==
    ASSUME InnerInv, TypeOK', [Next \/ PollFull]_vars
    PROVE  Genuine'
  <1>0. TypeOK /\ InPoll /\ BufferIsWindow /\ Genuine
    BY DEF InnerInv
  <1> DEFINE Q == RecordsOf(file')
  <1>1. \A r : IsIn(RecordsOf(file), r) => IsIn(Q, r)
    BY <1>0, InFileStays
  <1>2. \A i \in 1 .. Len(batch') : IsIn(Q, batch'[i])
    <2>1. CASE ConsumeRecord
      <3>1. batch' = Append(batch, NextRecord) /\ batch \in Seq(Record) /\ Len(batch) \in Nat
        BY <1>0, <2>1, LenProperties DEF ConsumeRecord, NextRecord, TypeOK
      <3>2. IsIn(RecordsOf(file), NextRecord) /\ NextRecord \in Record
        BY <2>1, ConsumedIsInFile
      <3>3. /\ Len(batch') = Len(batch) + 1 /\ batch'[Len(batch) + 1] = NextRecord
            /\ \A i \in 1 .. Len(batch) : batch'[i] = batch[i]
        BY <3>1, <3>2, AppendProperties
      <3>4. \A i \in 1 .. Len(batch) + 1 : i \in 1 .. Len(batch) \/ i = Len(batch) + 1
        BY <3>1
      <3> QED BY <1>0, <1>1, <3>2, <3>3, <3>4 DEF Genuine
    <2>2. CASE ~ConsumeRecord
      <3>1. batch' = batch \/ batch' = <<>>
        BY <2>2 DEF Next, vars, InitCall, InitFails, ShutdownCall, PollBatch, PollRefused,
           PollNothing, PollBegin, PollFull, CallerPolls, Framed, NeedsData, RecordRejected,
           Filled, FillBuf, ReadSome, FillBufFails, HandleEof, EofStop, EofLoopTwice,
           EofLoopNoRecord, EofLoopRewind, EofLoopSeekFails, EofFollow, IntervalElapses, FileGrows
      <3>2. CASE batch' = batch
        BY <1>0, <1>1, <3>2 DEF Genuine
      <3>3. CASE batch' = <<>>
        BY <3>3
      <3> QED BY <3>1, <3>2, <3>3
    <2> QED BY <2>1, <2>2
  <1>3. \A i \in 1 .. Len(delivered) : IsIn(Q, delivered[i])
    BY <1>0, <1>1 DEF Genuine
  <1>4. \A i \in 1 .. Len(delivered') : IsIn(Q, delivered'[i])
    <2>1. ASSUME NEW records \in Seq(Record), startCount <= Len(records), Deliver(records),
                 \A i \in 1 .. Len(records) : IsIn(Q, records[i])
          PROVE  \A i \in 1 .. Len(delivered') : IsIn(Q, delivered'[i])
      <3>1. /\ Len(delivered) \in Nat /\ Len(delivered') \in Nat
            /\ \A i \in 1 .. Len(delivered) : delivered'[i] = delivered[i]
            /\ \A i \in Len(delivered) + 1 .. Len(delivered') :
                 i - Len(delivered) \in 1 .. Len(records)
                 /\ delivered'[i] = records[i - Len(delivered)]
        BY <1>0, <2>1, DeliveredGrows
      <3>2. \A i \in 1 .. Len(delivered') :
              i \in 1 .. Len(delivered) \/ i \in Len(delivered) + 1 .. Len(delivered')
        BY <3>1
      <3> QED BY <1>3, <2>1, <3>1, <3>2
    <2>2. CASE UNCHANGED delivered
      BY <1>3, <2>2
    <2>3. CASE InitCall
      BY <2>3 DEF InitCall
    <2>4. CASE /\ ConsumeRecord /\ Deliver(batch') /\ batch' \in Seq(Record)
               /\ startCount <= Len(batch')
      BY <1>2, <2>1, <2>4
    <2>5. CASE Deliver(batch) /\ batch \in Seq(Record) /\ startCount <= Len(batch) /\ UNCHANGED batch
      BY <1>2, <2>1, <2>5
    <2> QED BY <1>0, <2>2, <2>3, <2>4, <2>5, DeliveredSteps
  <1>5. RecordsOf(file)' = Q
    BY <1>0, FileSteps
  <1> HIDE DEF Q
  <1> QED BY <1>2, <1>4, <1>5 DEF Genuine

(* The file source keeps its invariant below such a caller.                *)
LEMMA InnerStep ==
    ASSUME InnerInv, ~PollAfterReadError, [Next \/ PollFull]_vars
    PROVE  InnerInv'
  <1>1. TypeOK /\ InPoll /\ BufferIsWindow
    BY DEF InnerInv
  <1>2. TypeOK' /\ InPoll'
    BY <1>1, InnerTypes, InPollStep
  <1>3. BufferIsWindow'
    BY <1>1, <1>2, WindowStep
  <1> QED BY <1>2, <1>3, OffsetStep, GenuineStep DEF InnerInv

(* The inner file source begins as one that stands alone.                  *)
LEMMA InnerInit == Init => InnerInv
  <1> SUFFICES ASSUME Init PROVE InnerInv
    OBVIOUS
  <1>1. TypeOK /\ FileInv
    BY TypesInit, FileInvInit
  <1>2. AtOffset
    BY PlaceInit DEF AtItsPlace, AtOffset
  <1>3. batch = <<>> /\ delivered = <<>>
    BY DEF Init
  <1> QED BY <1>1, <1>2, <1>3 DEF InnerInv, FileInv, Genuine

(* A record that is in the file has bytes, and they are bytes.             *)
LEMMA InFileHasBytes ==
    ASSUME TypeOK, NEW r \in Record, IsIn(RecordsOf(file), r)
    PROVE  r.bytes \in Seq(Bytes) /\ r.bytes # <<>> /\ Head(r.bytes) \in Nat
  <1> DEFINE R == RecordsOf(file)
  <1>1. file \in Seq(Bytes) /\ Len(R) \in Nat
    <2>1. file \in Seq(Bytes)
      BY DEF TypeOK
    <2> QED BY <2>1, RecordAfter
  <1>2. PICK k \in 1 .. Len(R) : R[k].offset = r.offset /\ R[k].bytes = r.bytes
    BY DEF IsIn
  <1>3. k - 1 \in 0 .. Len(R) - 1 /\ k - 1 \in 0 .. Len(R) /\ k - 1 < Len(R) /\ (k - 1) + 1 = k
    BY <1>1, <1>2
  <1>4. /\ Place(R, 0, k - 1) \in Nat /\ Complete(file, Place(R, 0, k - 1))
        /\ R[k] = PieceAt(file, Place(R, 0, k - 1))
    BY <1>1, <1>3, RecordAfter
  <1>5. R[k].bytes = BytesAt(file, Place(R, 0, k - 1))
    BY <1>4 DEF PieceAt
  <1>6. PICK o \in Nat : Complete(file, o) /\ r.bytes = BytesAt(file, o)
    BY <1>2, <1>4, <1>5
  <1>7. BytesAt(file, o) \in Seq(Bytes) /\ Len(BytesAt(file, o)) = LenAt(file, o)
        /\ LenAt(file, o) >= 1
    <2>1. LenAt(file, o) >= 1
      BY <1>1, <1>6, LenProperties DEF Complete
    <2> QED BY <1>1, <1>6, <2>1, CompleteBytes
  <1>8. r.bytes \in Seq(Bytes) /\ r.bytes # <<>>
    <2>1. Len(r.bytes) >= 1
      BY <1>6, <1>7
    <2> QED BY <1>6, <1>7, <2>1, EmptySeq
  <1>9. Head(r.bytes) \in Bytes
    BY <1>8, HeadTailProperties
  <1> QED BY <1>8, <1>9, Constants


-----------------------------------------------------------------------------
(* The wrapper and its caller                                              *)

Entry == [record : Record, bad : BOOLEAN]
Emission == [entry : Entry, at : Nat]
Engine == [mode : Modes, start : Int, firstTs : Int, burstCount : Nat,
           burstResume : Int, armed : BOOLEAN]

(* The types; the caller has no more records than are in its batch, none   *)
(* while a poll is under way, and it has emitted none in the future.       *)
WrapperTypes ==
    /\ fault \in FaultPolicies
    /\ counts \in [read : Nat, dropped : Nat, corrupted : Nat]
    /\ pendingSpikes \in Nat /\ handled \in Nat /\ handled <= Len(delivered)
    /\ inBatch \in Nat /\ inBatch <= CallerCapacity
    /\ queue \in Seq(Entry) /\ Len(queue) <= inBatch
    /\ pc # "idle" => queue = <<>>

CallerTypes ==
    /\ emitted \in Seq(Emission) /\ wall \in Nat /\ advances \in Nat
    /\ \A k \in 1 .. Len(emitted) : emitted[k].at <= wall
    /\ engine \in Engine /\ ValidMode(engine.mode)

(* The records with the caller are records of the file.                    *)
PassedIn == \A k \in 1 .. Len(Passed) : IsIn(RecordsOf(file), Passed[k].record)

(* The wrapper's step as one of the file source.                           *)
LEMMA StepBelow ==
    ASSUME [VirtualNext]_all
    PROVE  [Next \/ PollFull]_vars
  BY DEF VirtualNext, all, VirtualInitCall, VirtualShutdownCall, VirtualPoll, InnerPoll,
       Surroundings, FilterRecord, TakeSpikes, Ask, Advance, TimePasses, Next

(* What the caller has got is what it has emitted and what it holds.       *)
Got(e, q) == [k \in DOMAIN e |-> e[k].entry] \o q

(* A sequence that is made of those two.                                   *)
IsGot(p, e, q) ==
    /\ p \in Seq(Entry) /\ Len(p) \in Nat /\ Len(p) = Len(e) + Len(q)
    /\ DOMAIN p = 1 .. Len(p)
    /\ \A k \in 1 .. Len(e) : p[k] = e[k].entry
    /\ \A k \in 1 .. Len(q) : p[Len(e) + k] = q[k]

(* What the caller has got is what was passed on, then what waits.         *)
LEMMA PassedIs ==
    ASSUME NEW e, NEW q, e \in Seq(Emission), q \in Seq(Entry), NEW p, p = Got(e, q)
    PROVE  IsGot(p, e, q)
  <1> DEFINE f == [k \in DOMAIN e |-> e[k].entry]
  <1>1. Len(e) \in Nat /\ Len(q) \in Nat /\ DOMAIN e = 1 .. Len(e)
    BY LenProperties
  <1>2. \A k \in 1 .. Len(e) : e[k].entry \in Entry
    <2>1. \A k \in 1 .. Len(e) : e[k] \in Emission
      BY ElementOfSeq
    <2> QED BY <2>1 DEF Emission
  <1>3. f \in Seq(Entry) /\ Len(f) = Len(e) /\ \A k \in 1 .. Len(e) : f[k] = e[k].entry
    BY <1>1, <1>2
  <1> HIDE DEF f
  <1>4. p = f \o q
    BY DEF f, Got
  <1>5. /\ p \in Seq(Entry) /\ Len(p) = Len(f) + Len(q)
        /\ \A k \in 1 .. Len(f) + Len(q) : p[k] = IF k <= Len(f) THEN f[k] ELSE q[k - Len(f)]
    BY <1>3, <1>4, ConcatProperties
  <1>6. \A k \in 1 .. Len(e) : p[k] = e[k].entry
    BY <1>1, <1>3, <1>5
  <1>7. ASSUME NEW k \in 1 .. Len(q) PROVE p[Len(e) + k] = q[k]
    <2>1. Len(e) + k \in 1 .. Len(f) + Len(q) /\ ~(Len(e) + k <= Len(f))
          /\ (Len(e) + k) - Len(f) = k
      BY <1>1, <1>3
    <2> QED BY <1>5, <2>1
  <1>8. p \in Seq(Entry) /\ Len(p) \in Nat /\ Len(p) = Len(e) + Len(q)
        /\ DOMAIN p = 1 .. Len(p)
    BY <1>1, <1>3, <1>5, LenProperties
  <1> QED BY <1>6, <1>7, <1>8 DEF IsGot

(* A record is emitted: the caller has what it had before.                 *)
LEMMA EmitKeepsPassed ==
    ASSUME queue \in Seq(Entry), emitted \in Seq(Emission), wall \in Nat, queue # <<>>,
           emitted' = Append(emitted, [entry |-> Head(queue), at |-> wall]),
           queue' = Tail(queue)
    PROVE  /\ Passed' = Passed
           /\ queue' \in Seq(Entry) /\ Len(queue') = Len(queue) - 1
           /\ emitted' \in Seq(Emission) /\ Len(emitted') = Len(emitted) + 1
           /\ \A k \in 1 .. Len(emitted) : emitted'[k] = emitted[k]
           /\ emitted'[Len(emitted) + 1] = [entry |-> Head(queue), at |-> wall]
  <1>0. Passed = Got(emitted, queue) /\ Passed' = Got(emitted', queue')
    BY DEF Passed, Got
  <1>1. PICK n \in Nat, m \in Nat : n = Len(emitted) /\ m = Len(queue) /\ m >= 1
    BY LenProperties, EmptySeq
  <1>2. /\ Head(queue) \in Entry /\ Head(queue) = queue[1]
        /\ queue' \in Seq(Entry) /\ Len(queue') = m - 1
        /\ \A k \in 1 .. m - 1 : queue'[k] = queue[k + 1]
    BY <1>1, HeadTailProperties, ElementOfSeq
  <1>3. [entry |-> Head(queue), at |-> wall] \in Emission
    BY <1>2 DEF Emission
  <1>4. /\ emitted' \in Seq(Emission) /\ Len(emitted') = n + 1
        /\ \A k \in 1 .. n : emitted'[k] = emitted[k]
        /\ emitted'[n + 1] = [entry |-> Head(queue), at |-> wall]
    BY <1>1, <1>3, AppendProperties
  <1>5. /\ Passed \in Seq(Entry) /\ Len(Passed) = n + m
        /\ \A k \in 1 .. n : Passed[k] = emitted[k].entry
        /\ \A k \in 1 .. m : Passed[n + k] = queue[k]
    <2>1. IsGot(Passed, emitted, queue)
      BY <1>0, PassedIs
    <2> QED BY <1>1, <2>1 DEF IsGot
  <1>6. /\ Passed' \in Seq(Entry) /\ Len(Passed') = (n + 1) + (m - 1)
        /\ \A k \in 1 .. n + 1 : Passed'[k] = emitted'[k].entry
        /\ \A k \in 1 .. m - 1 : Passed'[(n + 1) + k] = queue'[k]
    <2>0. PICK e, q, p : e = emitted' /\ q = queue' /\ p = Passed'
      OBVIOUS
    <2>1. /\ e \in Seq(Emission) /\ Len(e) = n + 1 /\ q \in Seq(Entry) /\ Len(q) = m - 1
          /\ p = Got(e, q)
      BY <1>0, <1>2, <1>4, <2>0
    <2>2. /\ p \in Seq(Entry) /\ Len(p) = Len(e) + Len(q)
          /\ \A k \in 1 .. Len(e) : p[k] = e[k].entry
          /\ \A k \in 1 .. Len(q) : p[Len(e) + k] = q[k]
      <3>1. IsGot(p, e, q)
        BY <2>1, PassedIs
      <3> QED BY <3>1 DEF IsGot
    <2> QED BY <2>0, <2>1, <2>2
  <1>7. Len(Passed') = n + m
    BY <1>1, <1>6
  <1>8. ASSUME NEW k \in 1 .. n + m PROVE Passed'[k] = Passed[k]
    <2>1. CASE k <= n
      <3>1. k \in 1 .. n /\ k \in 1 .. n + 1
        BY <1>1, <2>1
      <3> QED BY <1>4, <1>5, <1>6, <3>1
    <2>2. CASE k = n + 1
      <3>1. n + 1 \in 1 .. n + 1 /\ 1 \in 1 .. m
        BY <1>1
      <3> QED BY <1>2, <1>4, <1>5, <1>6, <2>2, <3>1
    <2>3. CASE k > n + 1
      <3>1. PICK j \in 1 .. m - 1 : k = (n + 1) + j
        <4>1. k - (n + 1) \in 1 .. m - 1 /\ k = (n + 1) + (k - (n + 1))
          BY <1>1, <2>3
        <4> QED BY <4>1
      <3>2. k = n + (j + 1) /\ j + 1 \in 1 .. m
        BY <1>1, <3>1
      <3>3. Passed'[k] = queue'[j] /\ queue'[j] = queue[j + 1]
        BY <1>2, <1>6, <3>1
      <3>4. Passed[k] = queue[j + 1]
        BY <1>5, <3>2
      <3> QED BY <3>3, <3>4
    <2> QED BY <1>1, <2>1, <2>2, <2>3
  <1>9. Passed' = Passed
    BY <1>5, <1>6, <1>7, <1>8, SeqEqual
  <1> QED BY <1>1, <1>2, <1>4, <1>9

(* What the caller has got is a sequence of entries.                       *)
LEMMA PassedTypes ==
    ASSUME queue \in Seq(Entry), emitted \in Seq(Emission)
    PROVE  IsGot(Passed, emitted, queue)
  <1>1. Passed = Got(emitted, queue)
    BY DEF Passed, Got
  <1> QED BY <1>1, PassedIs

(* The record the wrapper filters next, and what may become of it.         *)
Candidate(bad) == [record |-> delivered[handled + 1], bad |-> bad]

(* A record is passed on: the caller has one more.                         *)
LEMMA PushExtendsPassed ==
    ASSUME queue \in Seq(Entry), emitted \in Seq(Emission), NEW e \in Entry,
           queue' = Append(queue, e), UNCHANGED emitted
    PROVE  /\ Len(Passed') = Len(Passed) + 1 /\ Passed'[Len(Passed) + 1] = e
           /\ \A k \in 1 .. Len(Passed) : Passed'[k] = Passed[k]
           /\ Len(Passed) \in Nat
           /\ queue' \in Seq(Entry) /\ Len(queue') = Len(queue) + 1
  <1>0. Passed = Got(emitted, queue) /\ Passed' = Got(emitted', queue')
    BY DEF Passed, Got
  <1>1. PICK n \in Nat, m \in Nat : n = Len(emitted) /\ m = Len(queue)
    BY LenProperties
  <1>2. /\ queue' \in Seq(Entry) /\ Len(queue') = m + 1 /\ queue'[m + 1] = e
        /\ \A k \in 1 .. m : queue'[k] = queue[k]
    BY <1>1, AppendProperties
  <1>3. /\ Len(Passed) = n + m
        /\ \A k \in 1 .. n : Passed[k] = emitted[k].entry
        /\ \A k \in 1 .. m : Passed[n + k] = queue[k]
    <2>1. IsGot(Passed, emitted, queue)
      BY PassedTypes
    <2> QED BY <1>1, <2>1 DEF IsGot
  <1>4. /\ Len(Passed') = n + (m + 1)
        /\ \A k \in 1 .. n : Passed'[k] = emitted[k].entry
        /\ \A k \in 1 .. m + 1 : Passed'[n + k] = queue'[k]
    <2>0. PICK q, p : q = queue' /\ p = Passed'
      OBVIOUS
    <2>1. q \in Seq(Entry) /\ Len(q) = m + 1 /\ p = Got(emitted, q)
      BY <1>0, <1>2, <2>0
    <2>2. /\ Len(p) = Len(emitted) + Len(q)
          /\ \A k \in 1 .. Len(emitted) : p[k] = emitted[k].entry
          /\ \A k \in 1 .. Len(q) : p[Len(emitted) + k] = q[k]
      <3>1. IsGot(p, emitted, q)
        BY <2>1, PassedIs
      <3> QED BY <3>1 DEF IsGot
    <2>3. Len(p) = n + (m + 1)
      BY <1>1, <2>1, <2>2
    <2>4. \A k \in 1 .. n : p[k] = emitted[k].entry
      BY <1>1, <2>2
    <2>5. \A k \in 1 .. m + 1 : p[n + k] = q[k]
      BY <1>1, <2>1, <2>2
    <2> QED BY <2>0, <2>3, <2>4, <2>5
  <1>5. Passed'[(n + m) + 1] = e
    <2>1. m + 1 \in 1 .. m + 1 /\ (n + m) + 1 = n + (m + 1)
      BY <1>1
    <2> QED BY <1>2, <1>4, <2>1
  <1>6. ASSUME NEW k \in 1 .. n + m PROVE Passed'[k] = Passed[k]
    <2>1. CASE k <= n
      <3>1. k \in 1 .. n
        BY <1>1, <2>1
      <3>2. Passed'[k] = emitted[k].entry
        BY <1>4, <3>1
      <3>3. Passed[k] = emitted[k].entry
        BY <1>3, <3>1
      <3> QED BY <3>2, <3>3
    <2>2. CASE k > n
      <3>1. PICK j \in 1 .. m : k = n + j
        <4>1. k - n \in 1 .. m /\ k = n + (k - n)
          BY <1>1, <2>2
        <4> QED BY <4>1
      <3>2. j \in 1 .. m + 1
        BY <1>1, <3>1
      <3>3. Passed'[k] = queue'[j] /\ Passed[k] = queue[j]
        BY <1>3, <1>4, <3>1, <3>2
      <3> QED BY <1>2, <3>1, <3>3
    <2> QED BY <1>1, <2>1, <2>2
  <1> QED BY <1>1, <1>2, <1>3, <1>4, <1>5, <1>6


(* One record of the scratch is passed on, dropped, or refused by a full   *)
(* batch, and is counted once.                                             *)
LEMMA FilterEffect ==
    ASSUME InnerInv, WrapperTypes, CallerTypes, FilterRecord
    PROVE  \E passed, bad \in BOOLEAN :
             /\ Candidate(bad) \in Entry /\ IsIn(RecordsOf(file), Candidate(bad).record)
             /\ passed => inBatch < CallerCapacity
             /\ counts' = [read |-> counts.read + 1,
                           dropped |-> counts.dropped + (IF passed THEN 0 ELSE 1),
                           corrupted |-> counts.corrupted + (IF bad THEN 1 ELSE 0)]
             /\ inBatch' = inBatch + (IF passed THEN 1 ELSE 0)
             /\ queue' = IF passed THEN Append(queue, Candidate(bad)) ELSE queue
             /\ pendingSpikes' \in Nat
             /\ handled' = handled + 1 /\ handled + 1 <= Len(delivered)
             /\ UNCHANGED <<vars, fault, engine, wall, emitted, advances>>
  <1>1. handled + 1 \in 1 .. Len(delivered) /\ handled \in Nat /\ Len(delivered) \in Nat
    <2>1. handled \in Nat /\ handled <= Len(delivered) /\ handled # Len(delivered)
      BY DEF FilterRecord, Filtered, WrapperTypes
    <2>2. Len(delivered) \in Nat
      BY LenProperties DEF InnerInv, TypeOK
    <2> QED BY <2>1, <2>2
  <1>2. delivered[handled + 1] \in Record
    BY <1>1, ElementOfSeq DEF InnerInv, TypeOK
  <1>3. IsIn(RecordsOf(file), delivered[handled + 1])
    BY <1>1 DEF InnerInv, Genuine
  <1>4. \A bad \in BOOLEAN : Candidate(bad) \in Entry
                             /\ Candidate(bad).record = delivered[handled + 1]
    BY <1>2 DEF Candidate, Entry
  <1>5. PICK fate \in Fates(fault) :
          LET record == delivered[handled + 1]
              passed == "drop" \notin fate /\ Pushable(record)
              bad    == "corrupt" \in fate
          IN  /\ counts' = [read |-> counts.read + 1,
                            dropped |-> counts.dropped + (IF passed THEN 0 ELSE 1),
                            corrupted |-> counts.corrupted + (IF bad THEN 1 ELSE 0)]
              /\ pendingSpikes' = pendingSpikes + (IF "spike" \in fate THEN 1 ELSE 0)
              /\ inBatch' = inBatch + (IF passed THEN 1 ELSE 0)
              /\ queue' = IF passed THEN Append(queue, [record |-> record, bad |-> bad])
                                    ELSE queue
    BY DEF FilterRecord
  <1> DEFINE passed == "drop" \notin fate /\ Pushable(delivered[handled + 1])
             bad == "corrupt" \in fate
  <1>6. passed \in BOOLEAN /\ bad \in BOOLEAN
    <2>1. passed \in BOOLEAN
      BY SMT
    <2>2. bad \in BOOLEAN
      BY SMT
    <2> QED BY <2>1, <2>2
  <1>11. passed => inBatch < CallerCapacity
    BY DEF Pushable
  <1>7. pendingSpikes' \in Nat
    BY <1>5 DEF WrapperTypes
  <1>8. /\ counts' = [read |-> counts.read + 1,
                      dropped |-> counts.dropped + (IF passed THEN 0 ELSE 1),
                      corrupted |-> counts.corrupted + (IF bad THEN 1 ELSE 0)]
        /\ inBatch' = inBatch + (IF passed THEN 1 ELSE 0)
        /\ queue' = IF passed THEN Append(queue, Candidate(bad)) ELSE queue
    BY <1>5, Zenon DEF Candidate
  <1>9. handled' = handled + 1 /\ UNCHANGED <<vars, fault, engine, wall, emitted, advances>>
    BY DEF FilterRecord
  <1> HIDE DEF passed, bad
  <1>10. handled + 1 <= Len(delivered)
    BY <1>1
  <1> QED BY <1>3, <1>4, <1>6, <1>7, <1>8, <1>9, <1>10, <1>11


(* Only init takes back what has been delivered.                           *)
LEMMA DeliveredStays ==
    ASSUME TypeOK, InPoll, BufferIsWindow, [Next \/ PollFull]_vars,
           \/ InitFails \/ ShutdownCall \/ PollBatch \/ PollFull \/ Framed \/ Filled
           \/ HandleEof \/ IntervalElapses \/ FileGrows
    PROVE  Len(delivered) <= Len(delivered')
  <1>1. Len(delivered) \in Nat
    BY LenProperties DEF TypeOK
  <1>2. ~InitCall
    <2>1. InitCall => /\ pc = "idle" /\ result' = "ok" /\ starts' = starts + 1
                      /\ starts + 1 # starts
      BY Constants DEF InitCall, TypeOK
    <2>2. CASE InitFails
      BY <2>1, <2>2 DEF InitFails
    <2>3. CASE ShutdownCall \/ PollBatch \/ PollFull \/ IntervalElapses \/ FileGrows
      <3>1. UNCHANGED starts
        BY <2>3 DEF ShutdownCall, PollBatch, PollRefused, PollNothing, PollBegin, PollFull,
             IntervalElapses, FileGrows, bounds
      <3> QED BY <2>1, <3>1
    <2>4. CASE Framed \/ Filled \/ HandleEof
      <3>1. pc # "idle"
        BY <2>4 DEF Framed, NeedsData, RecordRejected, ConsumeRecord, Filled, FillBuf, ReadSome,
             FillBufFails, HandleEof, EofStop, EofLoopTwice, EofLoopNoRecord, EofLoopRewind,
             EofLoopSeekFails, EofFollow
      <3> QED BY <2>1, <3>1
    <2> QED BY <2>2, <2>3, <2>4
  <1>3. CASE UNCHANGED delivered
    BY <1>1, <1>3
  <1>4. CASE Deliver(batch') /\ batch' \in Seq(Record) /\ startCount <= Len(batch')
    BY <1>4, DeliveredGrows
  <1>5. CASE Deliver(batch) /\ batch \in Seq(Record) /\ startCount <= Len(batch)
    BY <1>5, DeliveredGrows
  <1> QED BY <1>2, <1>3, <1>4, <1>5, DeliveredSteps

(* The caller asks: a record goes out, or nothing happens but to the       *)
(* engine.                                                                 *)
LEMMA AskEffect ==
    ASSUME WrapperTypes, CallerTypes, Ask
    PROVE  /\ Passed' = Passed /\ UNCHANGED <<vars, virtual, wall, advances>>
           /\ queue' \in Seq(Entry) /\ Len(queue') \in Nat /\ Len(queue') <= Len(queue)
           /\ emitted' \in Seq(Emission)
           /\ \A k \in 1 .. Len(emitted') : emitted'[k].at <= wall'
  <1>1. queue \in Seq(Entry) /\ emitted \in Seq(Emission) /\ wall \in Nat /\ Len(queue) \in Nat
        /\ Len(emitted) \in Nat
    BY LenProperties DEF WrapperTypes, CallerTypes
  <1>2. queue # <<>> /\ UNCHANGED <<vars, virtual, wall, advances>>
    BY DEF Ask
  <1>3. CASE NextReady
    <2>1. emitted' = Append(emitted, [entry |-> Head(queue), at |-> wall]) /\ queue' = Tail(queue)
      BY <1>3 DEF Ask
    <2>2. /\ Passed' = Passed
          /\ queue' \in Seq(Entry) /\ Len(queue') = Len(queue) - 1
          /\ emitted' \in Seq(Emission) /\ Len(emitted') = Len(emitted) + 1
          /\ \A k \in 1 .. Len(emitted) : emitted'[k] = emitted[k]
          /\ emitted'[Len(emitted) + 1] = [entry |-> Head(queue), at |-> wall]
      BY <1>1, <1>2, <2>1, EmitKeepsPassed
    <2>3. emitted'[Len(emitted) + 1].at = wall
      BY <2>2
    <2>4. \A k \in 1 .. Len(emitted) + 1 : k \in 1 .. Len(emitted) \/ k = Len(emitted) + 1
      BY <1>1
    <2>5. \A k \in 1 .. Len(emitted') : emitted'[k].at <= wall
      BY <1>1, <2>2, <2>3, <2>4 DEF CallerTypes
    <2>6. Len(queue') \in Nat /\ Len(queue') <= Len(queue)
      BY <1>1, <2>2, LenProperties
    <2> QED BY <1>2, <2>2, <2>5, <2>6
  <1>4. CASE ~NextReady
    <2>1. UNCHANGED <<emitted, queue>>
      BY <1>4 DEF Ask
    <2> QED BY <1>1, <1>2, <2>1 DEF Passed, CallerTypes
  <1> QED BY <1>3, <1>4

(* The steps of a poll are taken while one is under way.                   *)
LEMMA PollUnderWay ==
    ASSUME Framed \/ Filled \/ HandleEof
    PROVE  pc # "idle"
  BY DEF Framed, NeedsData, RecordRejected, ConsumeRecord, Filled, FillBuf, ReadSome,
       FillBufFails, HandleEof, EofStop, EofLoopTwice, EofLoopNoRecord, EofLoopRewind,
       EofLoopSeekFails, EofFollow

(* The wrapper's types and its bounds.                                     *)
LEMMA WrapperStep ==
    ASSUME InnerInv, WrapperTypes, CallerTypes, [VirtualNext]_all
    PROVE  WrapperTypes'
  <1>0. CallerCapacity \in Nat /\ TypeOK /\ InPoll /\ BufferIsWindow
    BY VirtualAssumption DEF InnerInv
  <1>1. [Next \/ PollFull]_vars
    BY StepBelow
  <1>2. handled \in Nat /\ Len(delivered) \in Nat /\ Len(queue) \in Nat
    BY <1>0, LenProperties DEF WrapperTypes, TypeOK
  <1>3. CASE VirtualInitCall
    <2>1. /\ counts' = NoCounts /\ pendingSpikes' = 0 /\ handled' = 0 /\ queue' = <<>>
          /\ delivered' = <<>> /\ UNCHANGED <<fault, inBatch>>
      BY <1>3 DEF VirtualInitCall, InitCall
    <2>2. NoCounts \in [read : Nat, dropped : Nat, corrupted : Nat]
      BY DEF NoCounts
    <2>3. <<>> \in Seq(Entry) /\ Len(<<>>) = 0
      BY EmptySeq
    <2> QED BY <2>1, <2>2, <2>3 DEF WrapperTypes
  <1>4. CASE FilterRecord
    <2>1. PICK passed, bad \in BOOLEAN :
             /\ Candidate(bad) \in Entry /\ IsIn(RecordsOf(file), Candidate(bad).record)
             /\ passed => inBatch < CallerCapacity
             /\ counts' = [read |-> counts.read + 1,
                           dropped |-> counts.dropped + (IF passed THEN 0 ELSE 1),
                           corrupted |-> counts.corrupted + (IF bad THEN 1 ELSE 0)]
             /\ inBatch' = inBatch + (IF passed THEN 1 ELSE 0)
             /\ queue' = IF passed THEN Append(queue, Candidate(bad)) ELSE queue
             /\ pendingSpikes' \in Nat
             /\ handled' = handled + 1 /\ handled + 1 <= Len(delivered)
             /\ UNCHANGED <<vars, fault, engine, wall, emitted, advances>>
      BY <1>4, FilterEffect
    <2>2. counts' \in [read : Nat, dropped : Nat, corrupted : Nat]
      <3>1. PICK r, d, c : r = counts.read /\ d = counts.dropped /\ c = counts.corrupted
        OBVIOUS
      <3>2. r \in Nat /\ d \in Nat /\ c \in Nat
        BY <3>1 DEF WrapperTypes
      <3>3. PICK x, y : x = d + (IF passed THEN 0 ELSE 1) /\ y = c + (IF bad THEN 1 ELSE 0)
        OBVIOUS
      <3>4. x \in Nat /\ y \in Nat /\ r + 1 \in Nat
        BY ONLY <3>2, <3>3
      <3>5. counts' = [read |-> r + 1, dropped |-> x, corrupted |-> y]
        BY <2>1, <3>1, <3>3
      <3> QED BY <3>4, <3>5
    <2>3. /\ inBatch' \in Nat /\ inBatch' <= CallerCapacity
          /\ queue' \in Seq(Entry) /\ Len(queue') <= inBatch'
      <3>1. CASE passed
        <4>1. queue' = Append(queue, Candidate(bad)) /\ inBatch' = inBatch + 1
              /\ inBatch < CallerCapacity
          BY <2>1, <3>1
        <4>2. queue' \in Seq(Entry) /\ Len(queue') = Len(queue) + 1
          BY <2>1, <4>1, AppendProperties DEF WrapperTypes
        <4> QED BY <1>0, <1>2, <4>1, <4>2 DEF WrapperTypes
      <3>2. CASE ~passed
        BY <1>0, <1>2, <2>1, <3>2 DEF WrapperTypes
      <3> QED BY <3>1, <3>2
    <2>4. /\ UNCHANGED <<fault, delivered>> /\ pendingSpikes' \in Nat
          /\ handled' \in Nat /\ handled' <= Len(delivered') /\ pc' = "idle"
      BY <1>2, <1>4, <2>1 DEF FilterRecord, vars, call, history
    <2> QED BY <2>2, <2>3, <2>4 DEF WrapperTypes
  <1>5. CASE Ask
    <2>1. /\ queue' \in Seq(Entry) /\ Len(queue') \in Nat /\ Len(queue') <= Len(queue)
          /\ UNCHANGED <<vars, virtual>> /\ pc = "idle"
      BY <1>5, AskEffect DEF Ask
    <2> QED BY <1>2, <2>1 DEF WrapperTypes, vars, virtual, call, history
  <1>6. CASE VirtualPoll \/ InnerPoll
    <2>1. /\ UNCHANGED <<fault, counts, pendingSpikes, handled, queue>>
          /\ inBatch' \in {0, inBatch}
          /\ PollBatch \/ PollFull \/ Framed \/ Filled \/ HandleEof
      BY <1>6 DEF VirtualPoll, InnerPoll, ResetAnswered, caller
    <2>2. queue = <<>>
      <3>1. CASE VirtualPoll
        BY <3>1 DEF VirtualPoll
      <3>2. CASE InnerPoll
        <4>1. pc # "idle"
          BY <3>2, PollUnderWay DEF InnerPoll
        <4> QED BY <4>1 DEF WrapperTypes
      <3> QED BY <1>6, <3>1, <3>2
    <2>3. Len(delivered) <= Len(delivered') /\ Len(delivered') \in Nat
      <3>1. Len(delivered') \in Nat
        BY <1>0, <1>1, InnerTypes, LenProperties DEF TypeOK
      <3> QED BY <1>0, <1>1, <2>1, <3>1, DeliveredStays
    <2>4. Len(<<>>) = 0
      BY EmptySeq
    <2> QED BY <1>0, <1>2, <2>1, <2>2, <2>3, <2>4 DEF WrapperTypes
  <1>7. CASE Surroundings \/ VirtualShutdownCall
    <2>1. UNCHANGED <<fault, counts, pendingSpikes, handled, inBatch, queue, pc, delivered>>
      BY <1>7 DEF Surroundings, VirtualShutdownCall, virtual, caller, InitFails, ShutdownCall,
           IntervalElapses, FileGrows, call, history
    <2> QED BY <2>1 DEF WrapperTypes
  <1>8. CASE TakeSpikes \/ Advance \/ TimePasses \/ UNCHANGED all
    <2>1. /\ UNCHANGED <<fault, counts, handled, inBatch, queue, pc, delivered>>
          /\ pendingSpikes' = 0 \/ UNCHANGED pendingSpikes
      BY <1>8 DEF TakeSpikes, Advance, TimePasses, all, virtual, caller, vars, call,
           history
    <2> QED BY <2>1 DEF WrapperTypes
  <1> QED BY <1>3, <1>4, <1>5, <1>6, <1>7, <1>8 DEF VirtualNext


-----------------------------------------------------------------------------
(* The engine                                                              *)

(* The modes have the fields their code reads.                             *)
LEMMA ModeTypes ==
    ASSUME NEW mode \in Modes
    PROVE  /\ mode.name \in {"FullSpeed", "SingleStep", "TimeScaled", "Burst"}
           /\ mode.name = "TimeScaled" => mode.num \in Nat /\ mode.den \in Nat \ {0}
           /\ mode.name = "Burst" => mode.count \in Nat /\ mode.gap \in Nat
  BY ModesAssumption

(* What an answer of the engine leaves behind, mode by mode.               *)
LEMMA EngineFullSpeed ==
    ASSUME NEW e \in Engine, NEW ts \in Nat, NEW now \in Nat, e.mode.name = "FullSpeed"
    PROVE  Polled(e, ts, now) = e
  BY DEF Polled

(* poll in single steps: the permission is used up.                        *)
LEMMA EngineSingleStep ==
    ASSUME NEW e \in Engine, NEW ts \in Nat, NEW now \in Nat, e.mode.name = "SingleStep"
    PROVE  /\ Polled(e, ts, now) \in Engine /\ Polled(e, ts, now).mode = e.mode
           /\ ~Polled(e, ts, now).armed /\ (Ready(e, ts, now) <=> e.armed)
  <1>1. Polled(e, ts, now) = [e EXCEPT !.armed = FALSE]
    BY DEF Polled
  <1>2. [e EXCEPT !.armed = FALSE] \in Engine /\ [e EXCEPT !.armed = FALSE].mode = e.mode
        /\ ~[e EXCEPT !.armed = FALSE].armed
    BY DEF Engine
  <1>3. Ready(e, ts, now) <=> e.armed
    BY DEF Ready
  <1> QED BY <1>1, <1>2, <1>3

SetTimes(e, x, y) == [e EXCEPT !.start = x, !.firstTs = y]
SetBurst(e, n, x) == [e EXCEPT !.burstCount = n, !.burstResume = x]

(* The engine after its anchor was set.                                    *)
LEMMA TimesSet ==
    ASSUME NEW e \in Engine, NEW x \in Int, NEW y \in Int
    PROVE  /\ SetTimes(e, x, y) \in Engine /\ SetTimes(e, x, y).mode = e.mode
           /\ SetTimes(e, x, y).start = x /\ SetTimes(e, x, y).firstTs = y
  BY DEF Engine, SetTimes

(* The engine with other fields of a burst.                                *)
BurstOf(a, e, n, x) ==
    a \in Engine /\ a.mode = e.mode /\ a.burstCount = n /\ a.burstResume = x

(* The engine after its burst was counted.                                 *)
LEMMA BurstSet ==
    ASSUME NEW e \in Engine, NEW n \in Nat, NEW x \in Int
    PROVE  BurstOf(SetBurst(e, n, x), e, n, x)
  BY DEF Engine, SetBurst, BurstOf

(* poll by timestamps: the first question sets the anchor.                 *)
LEMMA EngineTimeScaled ==
    ASSUME NEW e \in Engine, NEW ts \in Nat, NEW now \in Nat, e.mode.name = "TimeScaled"
    PROVE  /\ Polled(e, ts, now) \in Engine /\ Polled(e, ts, now).mode = e.mode
           /\ Polled(e, ts, now).start = IF e.start = Unset THEN now ELSE e.start
           /\ Polled(e, ts, now).firstTs = IF e.firstTs = Unset THEN ts ELSE e.firstTs
           /\ Ready(e, ts, now) =>
                \/ ts <= Polled(e, ts, now).firstTs
                \/ now >= Polled(e, ts, now).start
                     + ((ts - Polled(e, ts, now).firstTs) * e.mode.num) \div e.mode.den
           /\ e.firstTs = Unset => Ready(e, ts, now)
  <1> DEFINE t == Timed(e, ts, now)
  <1>1. /\ t \in Engine /\ t.mode = e.mode
        /\ t.start = IF e.start = Unset THEN now ELSE e.start
        /\ t.firstTs = IF e.firstTs = Unset THEN ts ELSE e.firstTs
    <2>1. PICK x, y \in Int : /\ x = IF e.start = Unset THEN now ELSE e.start
                              /\ y = IF e.firstTs = Unset THEN ts ELSE e.firstTs
      BY DEF Engine
    <2>2. t = SetTimes(e, x, y)
      BY <2>1 DEF Timed, Engine, SetTimes
    <2> HIDE DEF t
    <2>3. x \in Int /\ y \in Int
      BY <2>1
    <2>4. t \in Engine /\ t.mode = e.mode
      BY <2>2, <2>3, TimesSet
    <2>5. t.start = x /\ t.firstTs = y
      BY <2>2, <2>3, TimesSet
    <2> QED BY <2>1, <2>4, <2>5
  <1>2. Polled(e, ts, now) = t
    BY DEF Polled
  <1>3. Ready(e, ts, now) <=> OriginalTimingReady(e, ts, now)
    BY DEF Ready
  <1>4. OriginalTimingReady(e, ts, now) <=>
          \/ ts <= t.firstTs
          \/ now >= t.start + ((ts - t.firstTs) * e.mode.num) \div e.mode.den
    BY DEF OriginalTimingReady
  <1> HIDE DEF t
  <1>5. e.firstTs = Unset => ts <= t.firstTs
    BY <1>1
  <1> QED BY <1>1, <1>2, <1>3, <1>4, <1>5

(* poll in bursts: the question counts the record and arms the gap.        *)
LEMMA EngineBurst ==
    ASSUME NEW e \in Engine, NEW ts \in Nat, NEW now \in Nat, e.mode.name = "Burst",
           NEW p, p = Polled(e, ts, now)
    PROVE  /\ p \in Engine /\ p.mode = e.mode
           /\ Ready(e, ts, now) <=> ~InPause(e, now)
           /\ InPause(e, now) => p = e
           /\ ~InPause(e, now) =>
                LET n == IF e.burstResume = Unset THEN e.burstCount + 1 ELSE 1
                IN  /\ n >= e.mode.count => p.burstCount = 0 /\ p.burstResume = now + e.mode.gap
                    /\ ~(n >= e.mode.count) => p.burstCount = n /\ p.burstResume = Unset
  <1>1. p = IF InPause(e, now) THEN e ELSE AfterBurst(e, now)
    BY DEF Polled
  <1>2. Ready(e, ts, now) <=> ~InPause(e, now)
    BY DEF Ready
  <1>3. e.mode.gap \in Nat /\ e.mode.count \in Nat /\ e.burstCount \in Nat
    BY ModeTypes DEF Engine
  <1> DEFINE n == IF e.burstResume = Unset THEN e.burstCount + 1 ELSE 1
             a == AfterBurst(e, now)
  <1>4. n \in Nat
    BY <1>3
  <1>5. a = IF n >= e.mode.count
              THEN [e EXCEPT !.burstCount = 0, !.burstResume = now + e.mode.gap]
              ELSE [e EXCEPT !.burstCount = n, !.burstResume = Unset]
    BY DEF AfterBurst
  <1> HIDE DEF n, a
  <1>6. /\ a \in Engine /\ a.mode = e.mode
        /\ n >= e.mode.count => a.burstCount = 0 /\ a.burstResume = now + e.mode.gap
        /\ ~(n >= e.mode.count) => a.burstCount = n /\ a.burstResume = Unset
    <2>1. CASE n >= e.mode.count
      <3>1. a = SetBurst(e, 0, now + e.mode.gap) /\ now + e.mode.gap \in Int /\ 0 \in Nat
        BY <1>3, <1>5, <2>1 DEF SetBurst
      <3>2. BurstOf(a, e, 0, now + e.mode.gap)
        BY <3>1, BurstSet
      <3> QED BY <2>1, <3>2 DEF BurstOf
    <2>2. CASE ~(n >= e.mode.count)
      <3>1. a = SetBurst(e, n, Unset) /\ Unset \in Int
        BY <1>5, <2>2 DEF Unset, SetBurst
      <3>2. BurstOf(a, e, n, Unset)
        BY <1>4, <3>1, BurstSet
      <3> QED BY <2>2, <3>2 DEF BurstOf
    <2> QED BY <2>1, <2>2
  <1> QED BY <1>1, <1>2, <1>6 DEF n, a

(* The engine stays one, of the same mode.                                 *)
LEMMA EngineStays ==
    ASSUME NEW e \in Engine, NEW ts \in Nat, NEW now \in Nat
    PROVE  Polled(e, ts, now) \in Engine /\ Polled(e, ts, now).mode = e.mode
  <1>1. e.mode.name \in {"FullSpeed", "SingleStep", "TimeScaled", "Burst"}
    BY ModeTypes DEF Engine
  <1>2. CASE e.mode.name = "FullSpeed"
    BY <1>2, EngineFullSpeed
  <1>3. CASE e.mode.name = "SingleStep"
    BY <1>3, EngineSingleStep
  <1>4. CASE e.mode.name = "TimeScaled"
    BY <1>4, EngineTimeScaled
  <1>5. CASE e.mode.name = "Burst"
    BY <1>5, EngineBurst
  <1> QED BY <1>1, <1>2, <1>3, <1>4, <1>5

(* A new engine.                                                           *)
LEMMA EngineBegins ==
    ASSUME NEW mode \in Modes
    PROVE  NewEngine(mode) \in Engine /\ NewEngine(mode).mode = mode
  BY DEF NewEngine, Engine, Unset

(* The engine that has been armed.                                         *)
LEMMA EngineAdvanced ==
    ASSUME NEW e \in Engine, e.mode.name = "SingleStep"
    PROVE  Advanced(e) \in Engine /\ Advanced(e).mode = e.mode /\ Advanced(e).armed = TRUE
  BY DEF Advanced, Engine

(* The oldest record the caller holds has a timestamp.                     *)
LEMMA TimestampsAreNumbers ==
    ASSUME TypeOK, queue \in Seq(Entry), emitted \in Seq(Emission), PassedIn
    PROVE  /\ queue # <<>> => TimestampOf(Head(queue)) \in Nat
           /\ \A k \in 1 .. Len(emitted) : TimestampOf(emitted[k].entry) \in Nat
  <1>1. /\ Passed \in Seq(Entry) /\ Len(Passed) \in Nat
        /\ Len(Passed) = Len(emitted) + Len(queue)
        /\ \A k \in 1 .. Len(emitted) : Passed[k] = emitted[k].entry
        /\ \A k \in 1 .. Len(queue) : Passed[Len(emitted) + k] = queue[k]
    <2>1. IsGot(Passed, emitted, queue)
      BY PassedTypes
    <2> QED BY <2>1 DEF IsGot
  <1>2. ASSUME NEW k \in 1 .. Len(Passed) PROVE TimestampOf(Passed[k]) \in Nat
    <2>1. Passed[k] \in Entry
      BY <1>1, ElementOfSeq
    <2>2. Passed[k].record \in Record /\ IsIn(RecordsOf(file), Passed[k].record)
      BY <2>1 DEF Entry, PassedIn
    <2> QED BY <2>2, InFileHasBytes DEF TimestampOf
  <1>3. Len(emitted) \in Nat /\ Len(queue) \in Nat
    BY LenProperties
  <1>4. \A k \in 1 .. Len(emitted) : TimestampOf(emitted[k].entry) \in Nat
    <2>1. \A k \in 1 .. Len(emitted) : k \in 1 .. Len(Passed)
      BY <1>1, <1>3
    <2> QED BY <1>1, <1>2, <2>1
  <1>5. ASSUME queue # <<>> PROVE TimestampOf(Head(queue)) \in Nat
    <2>1. Len(queue) >= 1 /\ Head(queue) = queue[1]
      BY <1>3, <1>5, EmptySeq, HeadTailProperties
    <2>2. Len(emitted) + 1 \in 1 .. Len(Passed) /\ 1 \in 1 .. Len(queue)
      BY <1>1, <1>3, <2>1
    <2> QED BY <1>1, <1>2, <2>1, <2>2
  <1> QED BY <1>4, <1>5


-----------------------------------------------------------------------------
(* Every record is accounted for                                           *)

(* The caller's types.                                                     *)
LEMMA CallerStep ==
    ASSUME InnerInv, WrapperTypes, CallerTypes, PassedIn, [VirtualNext]_all
    PROVE  CallerTypes' /\ engine'.mode = engine.mode
  <1>1. engine \in Engine /\ engine.mode \in Modes /\ wall \in Nat /\ advances \in Nat
        /\ emitted \in Seq(Emission) /\ ValidMode(engine.mode)
        /\ Len(emitted) \in Nat /\ \A k \in 1 .. Len(emitted) : emitted[k].at \in Nat
    <2>1. emitted \in Seq(Emission) /\ engine \in Engine
      BY DEF CallerTypes
    <2>2. \A k \in 1 .. Len(emitted) : emitted[k] \in Emission
      BY <2>1, ElementOfSeq
    <2>3. \A k \in 1 .. Len(emitted) : emitted[k].at \in Nat
      BY <2>2 DEF Emission
    <2>4. engine.mode \in Modes
      BY <2>1 DEF Engine
    <2> QED BY <2>1, <2>3, <2>4, LenProperties DEF CallerTypes
  <1>2. CASE VirtualInitCall
    <2>1. /\ emitted' = <<>> /\ advances' = 0 /\ wall' = wall
          /\ engine' = NewEngine(engine.mode)
      BY <1>2 DEF VirtualInitCall
    <2>2. engine' \in Engine /\ engine'.mode = engine.mode
      BY <1>1, <2>1, EngineBegins
    <2>3. <<>> \in Seq(Emission) /\ Len(<<>>) = 0
      BY EmptySeq
    <2> QED BY <1>1, <2>1, <2>2, <2>3 DEF CallerTypes
  <1>3. CASE Ask
    <2>1. /\ UNCHANGED <<wall, advances>> /\ emitted' \in Seq(Emission)
          /\ \A k \in 1 .. Len(emitted') : emitted'[k].at <= wall'
      BY <1>3, AskEffect
    <2>2. TimestampOf(Head(queue)) \in Nat
          /\ engine' = Polled(engine, TimestampOf(Head(queue)), wall)
      BY <1>3, TimestampsAreNumbers DEF Ask, InnerInv, WrapperTypes, CallerTypes
    <2>3. engine' \in Engine /\ engine'.mode = engine.mode
      BY <1>1, <2>2, EngineStays
    <2> QED BY <1>1, <2>1, <2>3 DEF CallerTypes
  <1>4. CASE Advance
    <2>1. /\ UNCHANGED <<wall, emitted>> /\ advances' = advances + 1
          /\ engine.mode.name = "SingleStep" /\ engine' = Advanced(engine)
      BY <1>4 DEF Advance
    <2>2. engine' \in Engine /\ engine'.mode = engine.mode
      BY <1>1, <2>1, EngineAdvanced
    <2> QED BY <1>1, <2>1, <2>2 DEF CallerTypes
  <1>5. CASE TimePasses
    <2>1. UNCHANGED <<emitted, engine, advances>> /\ wall' = wall + 1
      BY <1>5 DEF TimePasses
    <2>2. \A k \in 1 .. Len(emitted) : emitted[k].at <= wall + 1
      BY <1>1 DEF CallerTypes
    <2> QED BY <1>1, <2>1, <2>2 DEF CallerTypes
  <1>6. CASE VirtualShutdownCall \/ VirtualPoll \/ InnerPoll \/ Surroundings \/ FilterRecord
             \/ TakeSpikes \/ UNCHANGED all
    <2>1. UNCHANGED <<emitted, engine, advances, wall>>
      BY <1>6 DEF VirtualShutdownCall, VirtualPoll, InnerPoll, Surroundings, FilterRecord,
           TakeSpikes, all, caller
    <2> QED BY <2>1 DEF CallerTypes
  <1> QED BY <1>2, <1>3, <1>4, <1>5, <1>6 DEF VirtualNext

(* The corrupted ones among the records.                                   *)
BadOnes(p) == {k \in DOMAIN p : p[k].bad}

(* The count of corrupted records after one more.                          *)
LEMMA BadOnesGrow ==
    ASSUME NEW p \in Seq(Entry), NEW q \in Seq(Entry), Len(q) = Len(p) + 1,
           \A k \in 1 .. Len(p) : q[k] = p[k], IsFiniteSet(BadOnes(p))
    PROVE  /\ IsFiniteSet(BadOnes(q)) /\ Cardinality(BadOnes(p)) \in Nat
           /\ q[Len(q)].bad => Cardinality(BadOnes(q)) = Cardinality(BadOnes(p)) + 1
           /\ ~q[Len(q)].bad => BadOnes(q) = BadOnes(p)
  <1>1. PICK n \in Nat : n = Len(p) /\ DOMAIN p = 1 .. n /\ Len(q) = n + 1 /\ DOMAIN q = 1 .. n + 1
    BY LenProperties
  <1>2. ASSUME q[n + 1].bad PROVE BadOnes(q) = BadOnes(p) \cup {n + 1}
    BY <1>1, <1>2 DEF BadOnes
  <1>3. ASSUME ~q[n + 1].bad PROVE BadOnes(q) = BadOnes(p)
    BY <1>1, <1>3 DEF BadOnes
  <1>4. n + 1 \notin BadOnes(p)
    BY <1>1 DEF BadOnes
  <1>5. /\ IsFiniteSet(BadOnes(p) \cup {n + 1})
        /\ Cardinality(BadOnes(p) \cup {n + 1}) = Cardinality(BadOnes(p)) + 1
    BY <1>4, FS_AddElement
  <1>6. Cardinality(BadOnes(p)) \in Nat
    BY FS_CardinalityType
  <1> QED BY <1>1, <1>2, <1>3, <1>5, <1>6

(* The counters and the records the caller has got.                        *)
Balanced ==
    /\ counts.read = Len(Passed) + counts.dropped
    /\ IsFiniteSet(BadOnes(Passed)) /\ Cardinality(BadOnes(Passed)) <= counts.corrupted

(* Every step keeps the books of the virtual source balanced.              *)
LEMMA BalanceStep ==
    ASSUME InnerInv, WrapperTypes, CallerTypes, PassedIn, Balanced,
           InnerInv', WrapperTypes', CallerTypes', [VirtualNext]_all
    PROVE  Balanced' /\ PassedIn'
  <1>0. /\ TypeOK /\ TypeOK' /\ [Next \/ PollFull]_vars
        /\ queue \in Seq(Entry) /\ emitted \in Seq(Emission)
        /\ queue' \in Seq(Entry) /\ emitted' \in Seq(Emission)
        /\ counts \in [read : Nat, dropped : Nat, corrupted : Nat]
    BY StepBelow DEF InnerInv, WrapperTypes, CallerTypes
  <1>1. /\ Passed \in Seq(Entry) /\ Len(Passed) \in Nat
        /\ Passed' \in Seq(Entry) /\ Len(Passed') \in Nat
    <2>1. Passed \in Seq(Entry) /\ Len(Passed) \in Nat
      BY <1>0, PassedTypes DEF IsGot
    <2>2. Passed' = Got(emitted', queue')
      BY DEF Passed, Got
    <2>3. Passed' \in Seq(Entry) /\ Len(Passed') \in Nat
      <3>1. IsGot(Passed', emitted', queue')
        BY <1>0, <2>2, PassedIs
      <3> QED BY <3>1 DEF IsGot
    <2> QED BY <2>1, <2>3
  <1> DEFINE Q == RecordsOf(file')
  <1>2. RecordsOf(file)' = Q /\ \A r : IsIn(RecordsOf(file), r) => IsIn(Q, r)
    BY <1>0, FileSteps, InFileStays
  <1> HIDE DEF Q
  <1>3. \A k \in 1 .. Len(Passed) : IsIn(Q, Passed[k].record)
    BY <1>2 DEF PassedIn
  <1>4. ASSUME Passed' = Passed, UNCHANGED counts PROVE Balanced' /\ PassedIn'
    <2>1. Balanced'
      BY <1>4 DEF Balanced, BadOnes
    <2>2. PassedIn'
      BY <1>2, <1>3, <1>4 DEF PassedIn
    <2> QED BY <2>1, <2>2
  <1>5. CASE VirtualInitCall
    <2>1. counts' = NoCounts /\ queue' = <<>> /\ emitted' = <<>>
      BY <1>5 DEF VirtualInitCall
    <2>2. Len(Passed') = 0
      <3>1. Len(emitted') = 0 /\ Len(queue') = 0
        BY <2>1, EmptySeq
      <3>2. Passed' = Got(emitted', queue')
        BY DEF Passed, Got
      <3>3. IsGot(Passed', emitted', queue')
        BY <1>0, <3>2, PassedIs
      <3> QED BY <3>1, <3>3 DEF IsGot
    <2>3. BadOnes(Passed)' = {}
      <3>1. DOMAIN Passed' = 1 .. 0
        BY <1>1, <2>2, LenProperties
      <3> QED BY <3>1 DEF BadOnes
    <2>4. IsFiniteSet({}) /\ Cardinality({}) = 0
      BY FS_EmptySet
    <2> QED BY <2>1, <2>2, <2>3, <2>4 DEF Balanced, PassedIn, NoCounts
  <1>6. CASE FilterRecord
    <2>1. PICK passed, bad \in BOOLEAN :
             /\ Candidate(bad) \in Entry /\ IsIn(RecordsOf(file), Candidate(bad).record)
             /\ passed => inBatch < CallerCapacity
             /\ counts' = [read |-> counts.read + 1,
                           dropped |-> counts.dropped + (IF passed THEN 0 ELSE 1),
                           corrupted |-> counts.corrupted + (IF bad THEN 1 ELSE 0)]
             /\ inBatch' = inBatch + (IF passed THEN 1 ELSE 0)
             /\ queue' = IF passed THEN Append(queue, Candidate(bad)) ELSE queue
             /\ pendingSpikes' \in Nat
             /\ handled' = handled + 1 /\ handled + 1 <= Len(delivered)
             /\ UNCHANGED <<vars, fault, engine, wall, emitted, advances>>
      BY <1>6, FilterEffect
    <2>2. PICK r, d, c \in Nat : r = counts.read /\ d = counts.dropped /\ c = counts.corrupted
      BY <1>0
    <2>3. /\ counts'.read = r + 1 /\ counts'.dropped = d + (IF passed THEN 0 ELSE 1)
          /\ counts'.corrupted = c + (IF bad THEN 1 ELSE 0)
      BY <2>1, <2>2
    <2>4. CASE passed
      <3>1. queue' = Append(queue, Candidate(bad)) /\ UNCHANGED emitted
        BY <2>1, <2>4
      <3>2. /\ Len(Passed') = Len(Passed) + 1 /\ Passed'[Len(Passed) + 1] = Candidate(bad)
            /\ \A k \in 1 .. Len(Passed) : Passed'[k] = Passed[k]
        BY <1>0, <2>1, <3>1, PushExtendsPassed
      <3>3. Passed'[Len(Passed')].bad = bad
        BY <3>2 DEF Candidate
      <3>4. /\ IsFiniteSet(BadOnes(Passed)) /\ Cardinality(BadOnes(Passed)) <= c
        BY <2>2 DEF Balanced
      <3>5. /\ IsFiniteSet(BadOnes(Passed')) /\ Cardinality(BadOnes(Passed)) \in Nat
            /\ Passed'[Len(Passed')].bad
                 => Cardinality(BadOnes(Passed')) = Cardinality(BadOnes(Passed)) + 1
            /\ ~Passed'[Len(Passed')].bad => BadOnes(Passed') = BadOnes(Passed)
        BY <1>1, <3>2, <3>4, BadOnesGrow
      <3>6. Cardinality(BadOnes(Passed')) <= counts'.corrupted
        BY <2>3, <3>3, <3>4, <3>5
      <3>7. counts'.read = Len(Passed') + counts'.dropped
        <4>1. r = Len(Passed) + d
          BY <2>2 DEF Balanced
        <4> QED BY <1>1, <2>3, <2>4, <3>2, <4>1
      <3>8. Balanced'
        <4>1. BadOnes(Passed)' = BadOnes(Passed')
          BY DEF BadOnes
        <4> QED BY <3>5, <3>6, <3>7, <4>1 DEF Balanced
      <3>9. \A k \in 1 .. Len(Passed') : IsIn(Q, Passed'[k].record)
        <4>1. \A k \in 1 .. Len(Passed') : k \in 1 .. Len(Passed) \/ k = Len(Passed) + 1
          BY <1>1, <3>2
        <4>2. IsIn(Q, Candidate(bad).record)
          BY <1>2, <2>1
        <4> QED BY <1>3, <3>2, <4>1, <4>2
      <3> QED BY <1>2, <3>8, <3>9 DEF PassedIn
    <2>5. CASE ~passed
      <3>1. UNCHANGED <<queue, emitted>>
        BY <2>1, <2>5
      <3>2. Passed' = Passed
        BY <3>1 DEF Passed
      <3>3. counts'.read = Len(Passed') + counts'.dropped
        <4>1. r = Len(Passed) + d
          BY <2>2 DEF Balanced
        <4> QED BY <1>1, <2>3, <2>5, <3>2, <4>1
      <3>4. /\ IsFiniteSet(BadOnes(Passed)) /\ Cardinality(BadOnes(Passed)) <= c
            /\ Cardinality(BadOnes(Passed)) \in Nat
        BY <2>2, FS_CardinalityType DEF Balanced
      <3>5. Cardinality(BadOnes(Passed)) <= counts'.corrupted
        BY <2>2, <2>3, <3>4
      <3>6. BadOnes(Passed)' = BadOnes(Passed)
        BY <3>2 DEF BadOnes
      <3>7. PassedIn'
        BY <1>2, <1>3, <3>2 DEF PassedIn
      <3> QED BY <3>3, <3>4, <3>5, <3>6, <3>7 DEF Balanced
    <2> QED BY <2>4, <2>5
  <1>7. CASE Ask
    <2>1. Passed' = Passed /\ UNCHANGED counts
      BY <1>7, AskEffect DEF virtual
    <2> QED BY <1>4, <2>1
  <1>8. CASE VirtualShutdownCall \/ VirtualPoll \/ InnerPoll \/ Surroundings \/ TakeSpikes
             \/ Advance \/ TimePasses \/ UNCHANGED all
    <2>1. UNCHANGED <<queue, emitted, counts>>
      BY <1>8 DEF VirtualShutdownCall, VirtualPoll, InnerPoll, Surroundings, TakeSpikes, Advance,
           TimePasses, all, virtual, caller
    <2>2. Passed' = Passed
      BY <2>1 DEF Passed
    <2> QED BY <1>4, <2>1, <2>2
  <1> QED BY <1>5, <1>6, <1>7, <1>8 DEF VirtualNext


(* The inductive invariant: the file source below, the types, and what the *)
(* caller has got.                                                         *)
Accounted == InnerInv /\ WrapperTypes /\ CallerTypes /\ PassedIn /\ Balanced

(* The books are balanced initially.                                       *)
LEMMA AccountedInit == VirtualInit => Accounted
  <1> SUFFICES ASSUME VirtualInit PROVE Accounted
    OBVIOUS
  <1>1. InnerInv /\ Len(delivered) = 0
    BY InnerInit, EmptySeq DEF VirtualInit, Init
  <1>2. <<>> \in Seq(Entry) /\ <<>> \in Seq(Emission) /\ Len(<<>>) = 0
    BY EmptySeq
  <1>3. WrapperTypes
    <2>1. NoCounts \in [read : Nat, dropped : Nat, corrupted : Nat]
      BY DEF NoCounts
    <2> QED BY <1>1, <1>2, <2>1, VirtualAssumption DEF VirtualInit, WrapperTypes
  <1>4. CallerTypes
    <2>1. PICK mode \in Modes : ValidMode(mode) /\ engine = NewEngine(mode)
      BY DEF VirtualInit
    <2>2. engine \in Engine /\ engine.mode = mode
      BY <2>1, EngineBegins
    <2>3. engine.mode \in Modes /\ ValidMode(engine.mode)
      BY <2>1, <2>2
    <2> QED BY <1>2, <2>2, <2>3 DEF VirtualInit, CallerTypes
  <1>5. Len(Passed) = 0 /\ DOMAIN Passed = 1 .. 0
    <2>1. Len(emitted) = 0 /\ Len(queue) = 0
      BY <1>2 DEF VirtualInit
    <2>2. /\ Len(Passed) = Len(emitted) + Len(queue) /\ DOMAIN Passed = 1 .. Len(Passed)
      <3>1. IsGot(Passed, emitted, queue)
        BY <1>3, <1>4, PassedTypes DEF WrapperTypes, CallerTypes
      <3> QED BY <3>1 DEF IsGot
    <2> QED BY <2>1, <2>2
  <1>6. BadOnes(Passed) = {}
    BY <1>5 DEF BadOnes
  <1>7. Balanced /\ PassedIn
    <2>1. IsFiniteSet({}) /\ Cardinality({}) = 0
      BY FS_EmptySet
    <2>2. counts = NoCounts
      BY DEF VirtualInit
    <2> QED BY <1>5, <1>6, <2>1, <2>2 DEF Balanced, PassedIn, NoCounts
  <1> QED BY <1>1, <1>3, <1>4, <1>7 DEF Accounted

(* Every step keeps types, contents and books.                             *)
LEMMA AccountedNext ==
    ASSUME ~PollAfterReadError, Accounted, [VirtualNext]_all
    PROVE  Accounted'
  <1>1. InnerInv'
    BY StepBelow, InnerStep DEF Accounted
  <1>2. WrapperTypes' /\ CallerTypes'
    BY WrapperStep, CallerStep DEF Accounted
  <1>3. Balanced' /\ PassedIn'
    BY <1>1, <1>2, BalanceStep DEF Accounted
  <1> QED BY <1>1, <1>2, <1>3 DEF Accounted

(* The invariant says what the run checks.                                 *)
LEMMA AccountedIsEnough == Accounted => StorageInv
  <1> SUFFICES ASSUME Accounted PROVE StorageInv
    OBVIOUS
  <1>0. InnerInv /\ WrapperTypes /\ CallerTypes /\ PassedIn /\ Balanced /\ TypeOK
    BY DEF Accounted, InnerInv
  <1>1. /\ Passed \in Seq(Entry) /\ Len(Passed) \in Nat /\ DOMAIN Passed = 1 .. Len(Passed)
    <2>1. IsGot(Passed, emitted, queue)
      BY <1>0, PassedTypes DEF WrapperTypes, CallerTypes
    <2> QED BY <2>1 DEF IsGot
  <1>2. VirtualTypeOK
    <2>1. DOMAIN counts = DOMAIN NoCounts /\ \A f \in DOMAIN counts : counts[f] \in Nat
      BY <1>0 DEF WrapperTypes, NoCounts
    <2>2. handled \in 0 .. Len(delivered)
      <3>1. Len(delivered) \in Nat
        BY <1>0, LenProperties DEF TypeOK
      <3> QED BY <1>0, <3>1 DEF WrapperTypes
    <2>3. inBatch \in 0 .. CallerCapacity /\ Len(queue) <= CallerCapacity
      <3>1. Len(queue) \in Nat /\ CallerCapacity \in Nat
        BY <1>0, LenProperties, VirtualAssumption DEF WrapperTypes
      <3> QED BY <1>0, <3>1 DEF WrapperTypes
    <2> QED BY <1>0, <2>1, <2>2, <2>3 DEF VirtualTypeOK, WrapperTypes, CallerTypes, TypeOK
  <1>3. counts.corrupted >= Cardinality({k \in DOMAIN Passed : Passed[k].bad})
    <2>1. /\ Cardinality(BadOnes(Passed)) \in Nat /\ counts.corrupted \in Nat
          /\ Cardinality(BadOnes(Passed)) <= counts.corrupted
      BY <1>0, FS_CardinalityType DEF Balanced, WrapperTypes
    <2>2. counts.corrupted >= Cardinality(BadOnes(Passed))
      BY <2>1
    <2> QED BY <2>2 DEF BadOnes
  <1>4. ASSUME NEW k \in DOMAIN Passed
        PROVE  \E r \in Range(RecordsOf(file)) :
                 r.offset = Passed[k].record.offset /\ r.bytes = Passed[k].record.bytes
    <2> DEFINE R == RecordsOf(file)
    <2>1. IsIn(R, Passed[k].record)
      BY <1>0, <1>1 DEF PassedIn
    <2>2. PICK j \in 1 .. Len(R) : /\ R[j].offset = Passed[k].record.offset
                                   /\ R[j].bytes = Passed[k].record.bytes
      BY <2>1 DEF IsIn
    <2>3. DOMAIN R = 1 .. Len(R)
      <3>1. R \in Seq(Piece)
        BY <1>0, RecordAfter DEF TypeOK
      <3> QED BY <3>1, LenProperties
    <2> HIDE DEF R
    <2>4. R[j] \in Range(R)
      BY <2>2, <2>3 DEF Range
    <2> QED BY <2>2, <2>4 DEF R
  <1>5. counts.read = Len(Passed) + counts.dropped
    BY <1>0 DEF Balanced
  <1> QED BY <1>2, <1>3, <1>4, <1>5 DEF StorageInv, RecordsBalance

(* For every fault policy, file and size of the batches: every record that *)
(* VirtualStorageSource has read was passed on or is counted as dropped,   *)
(* no more were corrupted than are counted, and every one of them is a     *)
(* record of the file, although the scratch batch is never reset.          *)
THEOREM StorageInvHolds ==
    ASSUME ~PollAfterReadError
    PROVE  VirtualSpec => []StorageInv
  <1>1. Accounted /\ [VirtualNext]_all => Accounted'
    BY AccountedNext
  <1> QED BY <1>1, AccountedInit, AccountedIsEnough, PTL DEF VirtualSpec


-----------------------------------------------------------------------------
(* Nothing is emitted early                                                *)

(* A quotient rounds down by less than one.                                *)
LEMMA QuotientBound ==
    ASSUME NEW w \in Int, NEW x \in Int, NEW d \in Nat \ {0}, w >= x \div d
    PROVE  w * d >= x - (d - 1)
  <1>1. x = d * (x \div d) + (x % d) /\ x \div d \in Int /\ x % d \in 0 .. d - 1
    BY SMT
  <1>2. PICK q \in Int, r \in 0 .. d - 1 : x = d * q + r /\ w >= q
    BY <1>1
  <1>3. (w - q) * d >= 0
    <2>1. PICK u \in Nat : u = w - q
      BY <1>2
    <2>2. u * d >= 0
      BY SMT
    <2> QED BY <2>1, <2>2
  <1>4. (w - q) * d = w * d - d * q
    BY SMT
  <1>5. w * d \in Int /\ d * q \in Int
    BY SMT
  <1>6. w * d >= d * q
    BY <1>3, <1>4, <1>5
  <1> QED BY <1>2, <1>5, <1>6

(* Not before time: what is in the past is not later.                      *)
LEMMA NoDistance ==
    ASSUME NEW w \in Nat, NEW y \in Int, y <= 0, NEW m \in Nat, NEW d \in Nat \ {0}
    PROVE  w * d >= y * m - (d - 1)
  <1>1. w * d >= 0 /\ w * d \in Int
    BY SMT
  <1>2. y * m <= 0 /\ y * m \in Int
    BY SMT
  <1> QED BY <1>1, <1>2

Late(a, t, mode) == a * mode.den >= t * mode.num - (mode.den - 1)

(* TimeScaled: the first record that came out is the one the distances are *)
(* taken from.                                                             *)
TimedInv ==
    engine.mode.name = "TimeScaled" =>
        /\ Len(emitted) = 0 => engine.start = Unset /\ engine.firstTs = Unset
        /\ Len(emitted) > 0 => /\ engine.start = emitted[1].at
                               /\ engine.firstTs = TimestampOf(emitted[1].entry)
        /\ \A k \in 1 .. Len(emitted) :
             Late(emitted[k].at - emitted[1].at,
                  TimestampOf(emitted[k].entry) - TimestampOf(emitted[1].entry), engine.mode)

(* Burst: of n records with the times at, the last b are the burst under   *)
(* way, which began a gap after every record before it; when it is         *)
(* complete, the pause ends a gap after every record.                      *)
IsBurst(n, b, c, gap, resume, at) ==
    /\ b < c /\ b <= n
    /\ resume = Unset => b > 0 \/ n = 0
    /\ resume # Unset => b = 0 /\ \A i \in 1 .. n : resume >= at[i] + gap
    /\ \A i \in 1 .. n - b : \A j \in n - b + 1 .. n : at[j] >= at[i] + gap
    /\ \A k \in 1 .. n : k > c => at[k] >= at[k - c] + gap

Times == [k \in 1 .. Len(emitted) |-> emitted[k].at]

BurstInv ==
    engine.mode.name = "Burst" =>
        IsBurst(Len(emitted), engine.burstCount, engine.mode.count, engine.mode.gap,
                engine.burstResume, Times)

(* SingleStep: every record but the first costs a call of advance.         *)
StepInv ==
    engine.mode.name = "SingleStep" =>
        Len(emitted) + (IF engine.armed THEN 1 ELSE 0) <= advances + 1

(* What a question does: the record at the head of the queue goes out, or  *)
(* stays.                                                                  *)
LEMMA AskAnswer ==
    ASSUME Accounted, Ask, NEW ts, ts = TimestampOf(Head(queue))
    PROVE  /\ ts \in Nat /\ wall \in Nat /\ engine \in Engine /\ Len(emitted) \in Nat
           /\ engine' = Polled(engine, ts, wall) /\ UNCHANGED advances
           /\ Ready(engine, ts, wall) =>
                /\ Len(emitted') = Len(emitted) + 1
                /\ \A k \in 1 .. Len(emitted) : emitted'[k] = emitted[k]
                /\ emitted'[Len(emitted) + 1].at = wall
                /\ TimestampOf(emitted'[Len(emitted) + 1].entry) = ts
           /\ ~Ready(engine, ts, wall) => UNCHANGED emitted
  <1>1. queue \in Seq(Entry) /\ emitted \in Seq(Emission) /\ wall \in Nat /\ engine \in Engine
    BY DEF Accounted, WrapperTypes, CallerTypes
  <1>2. queue # <<>> /\ engine' = Polled(engine, ts, wall) /\ UNCHANGED advances
    BY DEF Ask
  <1>3. ts \in Nat
    BY <1>1, <1>2, TimestampsAreNumbers DEF Accounted, InnerInv
  <1>4. NextReady <=> Ready(engine, ts, wall)
    BY <1>2 DEF NextReady
  <1>5. ASSUME Ready(engine, ts, wall)
        PROVE  /\ Len(emitted') = Len(emitted) + 1
               /\ \A k \in 1 .. Len(emitted) : emitted'[k] = emitted[k]
               /\ emitted'[Len(emitted) + 1] = [entry |-> Head(queue), at |-> wall]
    <2>1. emitted' = Append(emitted, [entry |-> Head(queue), at |-> wall]) /\ queue' = Tail(queue)
      BY <1>4, <1>5 DEF Ask
    <2> QED BY <1>1, <1>2, <2>1, EmitKeepsPassed
  <1>6. ASSUME ~Ready(engine, ts, wall) PROVE UNCHANGED emitted
    BY <1>4, <1>6 DEF Ask
  <1> QED BY <1>1, <1>2, <1>3, <1>5, <1>6, LenProperties

(* All other steps leave the engine and what has been emitted alone, or    *)
(* begin anew, or arm the engine.                                          *)
LEMMA NotAsked ==
    ASSUME Accounted, [VirtualNext]_all, ~Ask
    PROVE  \/ UNCHANGED <<engine, emitted, advances>>
           \/ /\ engine' = NewEngine(engine.mode) /\ engine.mode \in Modes
              /\ Len(emitted') = 0 /\ advances' = 0
           \/ /\ engine.mode.name = "SingleStep" /\ ~engine.armed
              /\ engine' = Advanced(engine) /\ UNCHANGED emitted /\ advances' = advances + 1
  <1>1. CASE VirtualInitCall
    <2>1. engine.mode \in Modes
      BY DEF Accounted, CallerTypes, Engine
    <2> QED BY <1>1, <2>1, EmptySeq DEF VirtualInitCall
  <1>2. CASE Advance
    BY <1>2 DEF Advance
  <1>3. CASE ~VirtualInitCall /\ ~Advance
    <2>1. UNCHANGED <<engine, emitted, advances>>
      BY <1>3 DEF VirtualNext, VirtualShutdownCall, VirtualPoll, InnerPoll, Surroundings,
           FilterRecord, TakeSpikes, TimePasses, all, caller
    <2> QED BY <2>1
  <1> QED BY <1>1, <1>2, <1>3


(* The times and timestamps of what has been emitted are numbers.          *)
LEMMA EmittedNumbers ==
    ASSUME Accounted
    PROVE  /\ Len(emitted) \in Nat /\ wall \in Nat
           /\ \A k \in 1 .. Len(emitted) :
                /\ emitted[k].at \in Nat /\ emitted[k].at <= wall
                /\ TimestampOf(emitted[k].entry) \in Nat
  <1>1. queue \in Seq(Entry) /\ emitted \in Seq(Emission) /\ wall \in Nat
        /\ \A k \in 1 .. Len(emitted) : emitted[k].at <= wall
    BY DEF Accounted, WrapperTypes, CallerTypes
  <1>2. \A k \in 1 .. Len(emitted) : TimestampOf(emitted[k].entry) \in Nat
    BY <1>1, TimestampsAreNumbers DEF Accounted, InnerInv
  <1>3. \A k \in 1 .. Len(emitted) : emitted[k] \in Emission
    BY <1>1, ElementOfSeq
  <1>4. \A k \in 1 .. Len(emitted) : emitted[k].at \in Nat
    BY <1>3 DEF Emission
  <1> QED BY <1>1, <1>2, <1>4, LenProperties

(* A new engine has no past.                                               *)
LEMMA NewEngineFields ==
    ASSUME NEW mode
    PROVE  /\ NewEngine(mode).mode = mode /\ NewEngine(mode).start = Unset
           /\ NewEngine(mode).firstTs = Unset /\ NewEngine(mode).burstCount = 0
           /\ NewEngine(mode).burstResume = Unset /\ NewEngine(mode).armed = TRUE
  BY DEF NewEngine

(* Every step keeps records that are paced by timestamps in time.          *)
LEMMA TimedStep ==
    ASSUME Accounted, Accounted', TimedInv, [VirtualNext]_all
    PROVE  TimedInv'
  <1>0. engine'.mode = engine.mode
    BY CallerStep DEF Accounted
  <1> SUFFICES ASSUME engine.mode.name = "TimeScaled" PROVE TimedInv'
    BY <1>0 DEF TimedInv
  <1> DEFINE n == Len(emitted)
             mode == engine.mode
             at(k) == emitted[k].at
             time(k) == TimestampOf(emitted[k].entry)
  <1>1. /\ mode.num \in Nat /\ mode.den \in Nat \ {0}
        /\ n \in Nat /\ wall \in Nat
        /\ \A k \in 1 .. n : at(k) \in Nat /\ at(k) <= wall /\ time(k) \in Nat
    <2>1. mode.num \in Nat /\ mode.den \in Nat \ {0}
      BY ModeTypes DEF Accounted, CallerTypes, Engine
    <2> QED BY <2>1, EmittedNumbers
  <1>2. CASE ~Ask
    <2>1. CASE UNCHANGED <<engine, emitted, advances>>
      BY <2>1 DEF TimedInv, Late, TimestampOf
    <2>2. CASE engine' = NewEngine(engine.mode) /\ Len(emitted') = 0
      <3>1. engine'.start = Unset /\ engine'.firstTs = Unset
        BY <2>2, NewEngineFields
      <3>2. Len(emitted') = 0 /\ ~(0 > 0) /\ \A k \in 1 .. 0 : FALSE
        BY <2>2
      <3> QED BY <3>1, <3>2 DEF TimedInv
    <2> QED BY <1>2, <2>1, <2>2, NotAsked
  <1>3. CASE Ask
    <2> DEFINE ts == TimestampOf(Head(queue))
               e == engine'
    <2>1. /\ ts \in Nat /\ engine \in Engine /\ e = Polled(engine, ts, wall)
          /\ Ready(engine, ts, wall) =>
               /\ Len(emitted') = n + 1
               /\ \A k \in 1 .. n : emitted'[k] = emitted[k]
               /\ emitted'[n + 1].at = wall
               /\ TimestampOf(emitted'[n + 1].entry) = ts
          /\ ~Ready(engine, ts, wall) => UNCHANGED emitted
      BY <1>3, AskAnswer
    <2> HIDE DEF ts
    <2>2. /\ e.start = IF engine.start = Unset THEN wall ELSE engine.start
          /\ e.firstTs = IF engine.firstTs = Unset THEN ts ELSE engine.firstTs
          /\ Ready(engine, ts, wall) =>
               \/ ts <= e.firstTs
               \/ wall >= e.start + ((ts - e.firstTs) * mode.num) \div mode.den
          /\ engine.firstTs = Unset => Ready(engine, ts, wall)
      BY <1>1, <2>1, EngineTimeScaled
    <2>3. CASE n = 0
      <3>1. engine.start = Unset /\ engine.firstTs = Unset
        BY <2>3 DEF TimedInv
      <3>2. /\ Len(emitted') = 1 /\ emitted'[1].at = wall
            /\ TimestampOf(emitted'[1].entry) = ts
        BY <2>1, <2>2, <2>3, <3>1
      <3>3. e.start = wall /\ e.firstTs = ts
        BY <2>2, <3>1
      <3>4. Late(emitted'[1].at - emitted'[1].at,
                 TimestampOf(emitted'[1].entry) - TimestampOf(emitted'[1].entry), mode)
        <4>1. wall - wall = 0 /\ ts - ts = 0 /\ 0 * mode.den >= 0 * mode.num - (mode.den - 1)
          BY <1>1, <2>1
        <4> QED BY <3>2, <4>1 DEF Late
      <3>5. \A k \in 1 .. 1 : k = 1
        OBVIOUS
      <3> QED BY <1>0, <3>2, <3>3, <3>4, <3>5 DEF TimedInv, Late, TimestampOf
    <2>4. CASE n > 0
      <3>1. /\ engine.start = at(1) /\ engine.firstTs = time(1) /\ 1 \in 1 .. n
            /\ \A k \in 1 .. n : Late(at(k) - at(1), time(k) - time(1), mode)
        BY <1>1, <2>4 DEF TimedInv
      <3>2. e.start = at(1) /\ e.firstTs = time(1) /\ at(1) \in Nat /\ time(1) \in Nat
            /\ at(1) <= wall
        BY <1>1, <2>2, <3>1 DEF Unset
      <3>3. CASE ~Ready(engine, ts, wall)
        <4>1. UNCHANGED emitted
          BY <2>1, <3>3
        <4> HIDE DEF e
        <4>2. /\ Len(emitted') > 0 /\ engine'.start = emitted'[1].at
              /\ engine'.firstTs = TimestampOf(emitted'[1].entry)
          BY <2>4, <3>2, <4>1 DEF e, TimestampOf
        <4> QED BY <1>0, <2>4, <3>1, <4>1, <4>2 DEF TimedInv, Late, TimestampOf
      <3>4. CASE Ready(engine, ts, wall)
        <4>1. /\ Len(emitted') = n + 1 /\ \A k \in 1 .. n : emitted'[k] = emitted[k]
              /\ emitted'[n + 1].at = wall /\ TimestampOf(emitted'[n + 1].entry) = ts
          BY <2>1, <3>4
        <4>2. Late(wall - at(1), ts - time(1), mode)
          <5>1. CASE ts <= time(1)
            <6>1. wall - at(1) \in Nat /\ ts - time(1) \in Int /\ ts - time(1) <= 0
              BY <1>1, <2>1, <3>2, <5>1
            <6> QED BY <1>1, <6>1, NoDistance DEF Late
          <5>2. CASE wall >= at(1) + ((ts - time(1)) * mode.num) \div mode.den
            <6>1. PICK x \in Int : x = (ts - time(1)) * mode.num
              BY <1>1, <2>1, <3>2
            <6>2. x \div mode.den \in Int
              BY <1>1, <6>1
            <6>3. wall - at(1) >= x \div mode.den /\ wall - at(1) \in Int
              BY <1>1, <3>2, <5>2, <6>1, <6>2
            <6>4. (wall - at(1)) * mode.den >= x - (mode.den - 1)
              BY <1>1, <6>3, QuotientBound
            <6> QED BY <6>1, <6>4 DEF Late
          <5> QED BY <2>2, <3>2, <3>4, <5>1, <5>2
        <4>3. \A k \in 1 .. n + 1 :
                Late(emitted'[k].at - at(1), TimestampOf(emitted'[k].entry) - time(1), mode)
          <5>1. \A k \in 1 .. n + 1 : k \in 1 .. n \/ k = n + 1
            BY <1>1
          <5> QED BY <3>1, <4>1, <4>2, <5>1
        <4>4. emitted'[1] = emitted[1]
          BY <3>1, <4>1
        <4>5. n + 1 > 0 /\ n + 1 # 0
          BY <1>1
        <4> QED BY <1>0, <3>2, <4>1, <4>3, <4>4, <4>5 DEF TimedInv, Late, TimestampOf
      <3> QED BY <3>3, <3>4
    <2> QED BY <1>1, <2>3, <2>4
  <1> QED BY <1>2, <1>3

(* Every step keeps to one record for every advance.                       *)
LEMMA StepStep ==
    ASSUME Accounted, Accounted', StepInv, [VirtualNext]_all
    PROVE  StepInv'
  <1>0. engine'.mode = engine.mode
    BY CallerStep DEF Accounted
  <1> SUFFICES ASSUME engine.mode.name = "SingleStep" PROVE StepInv'
    BY <1>0 DEF StepInv
  <1>1. Len(emitted) \in Nat /\ advances \in Nat /\ engine \in Engine /\ engine.armed \in BOOLEAN
    BY EmittedNumbers DEF Accounted, CallerTypes, Engine
  <1>2. Len(emitted) + (IF engine.armed THEN 1 ELSE 0) <= advances + 1
    BY DEF StepInv
  <1>3. CASE UNCHANGED <<engine, emitted, advances>>
    BY <1>3 DEF StepInv
  <1>4. CASE engine' = NewEngine(engine.mode) /\ Len(emitted') = 0 /\ advances' = 0
    BY <1>4, NewEngineFields DEF StepInv
  <1>5. CASE /\ ~engine.armed /\ engine' = Advanced(engine) /\ UNCHANGED emitted
             /\ advances' = advances + 1
    <2>1. engine'.armed = TRUE
      BY <1>1, <1>5, EngineAdvanced
    <2> QED BY <1>1, <1>2, <1>5, <2>1 DEF StepInv
  <1>6. CASE Ask
    <2> DEFINE ts == TimestampOf(Head(queue))
    <2>1. /\ ts \in Nat /\ wall \in Nat /\ engine' = Polled(engine, ts, wall)
          /\ UNCHANGED advances
          /\ Ready(engine, ts, wall) => Len(emitted') = Len(emitted) + 1
          /\ ~Ready(engine, ts, wall) => UNCHANGED emitted
      BY <1>6, AskAnswer
    <2> HIDE DEF ts
    <2>2. ~engine'.armed
      <3>1. ~Polled(engine, ts, wall).armed
        BY <1>1, <2>1, EngineSingleStep
      <3> QED BY <2>1, <3>1
    <2>3. Ready(engine, ts, wall) <=> engine.armed
      BY <1>1, <2>1, EngineSingleStep, Zenon
    <2> QED BY <1>1, <1>2, <2>1, <2>2, <2>3 DEF StepInv
  <1> QED BY <1>3, <1>4, <1>5, <1>6, NotAsked


(* One record more, outside of the pause.                                  *)
OneMore(n, at, at2, now) ==
    /\ \A i \in 1 .. n : at[i] \in Nat /\ at[i] <= now /\ at2[i] = at[i]
    /\ at2[n + 1] = now

(* A record more in its burst, or the first of the next one.               *)
LEMMA BurstGrows ==
    ASSUME NEW n \in Nat, NEW b \in Nat, NEW c \in Nat \ {0}, NEW gap \in Nat,
           NEW resume \in Int, NEW now \in Nat, NEW at, NEW at2, OneMore(n, at, at2, now),
           IsBurst(n, b, c, gap, resume, at), resume = Unset \/ now >= resume,
           NEW m \in Nat, m = IF resume = Unset THEN b + 1 ELSE 1
    PROVE  /\ m >= c => IsBurst(n + 1, 0, c, gap, now + gap, at2)
           /\ m < c => IsBurst(n + 1, m, c, gap, Unset, at2)
  <1> USE DEF OneMore
  <1>1. ASSUME NEW i \in 1 .. n - b PROVE now >= at[i] + gap
    <2>1. i \in 1 .. n /\ at[i] \in Nat
      BY <1>1
    <2>2. CASE resume = Unset
      <3>1. b > 0
        BY <1>1, <2>2 DEF IsBurst
      <3>2. n \in n - b + 1 .. n /\ n \in 1 .. n
        BY <2>1, <3>1
      <3>3. at[n] >= at[i] + gap /\ at[n] \in Nat /\ at[n] <= now
        BY <1>1, <3>2 DEF IsBurst
      <3> QED BY <2>1, <3>3
    <2>3. CASE resume # Unset
      <3>1. resume >= at[i] + gap /\ now >= resume
        BY <2>1, <2>3 DEF IsBurst
      <3> QED BY <2>1, <3>1
    <2> QED BY <2>2, <2>3
  <1>2. \A k \in 1 .. n + 1 : k \in 1 .. n \/ k = n + 1
    OBVIOUS
  <1>3. ASSUME NEW k \in 1 .. n + 1, k > c PROVE at2[k] >= at2[k - c] + gap
    <2>1. CASE k \in 1 .. n
      <3>1. at[k] >= at[k - c] + gap /\ k - c \in 1 .. n
        BY <1>3, <2>1 DEF IsBurst
      <3> QED BY <2>1, <3>1
    <2>2. CASE k = n + 1
      <3>1. k - c \in 1 .. n - b /\ k - c \in 1 .. n
        BY <1>3, <2>2 DEF IsBurst
      <3> QED BY <1>1, <2>2, <3>1
    <2> QED BY <1>2, <2>1, <2>2
  <1>4. ASSUME m >= c PROVE IsBurst(n + 1, 0, c, gap, now + gap, at2)
    <2>1. now + gap # Unset
      BY DEF Unset
    <2>2. \A i \in 1 .. n + 1 : now + gap >= at2[i] + gap
      <3> SUFFICES ASSUME NEW i \in 1 .. n + 1 PROVE now + gap >= at2[i] + gap
        OBVIOUS
      <3>1. at2[i] \in Nat /\ at2[i] <= now
        BY <1>2
      <3> QED BY <3>1
    <2>3. \A j \in (n + 1) - 0 + 1 .. n + 1 : FALSE
      OBVIOUS
    <2>4. 0 < c /\ 0 <= n + 1
      OBVIOUS
    <2> QED BY <1>3, <2>1, <2>2, <2>3, <2>4 DEF IsBurst
  <1>5. ASSUME m < c PROVE IsBurst(n + 1, m, c, gap, Unset, at2)
    <2>1. m > 0 /\ m <= n + 1 /\ (n + 1) - m = n - b
      BY DEF IsBurst
    <2>2. ASSUME NEW i \in 1 .. n - b, NEW j \in n - b + 1 .. n + 1
          PROVE  at2[j] >= at2[i] + gap
      <3>1. i \in 1 .. n /\ at2[i] = at[i]
        BY <2>2
      <3>2. CASE j = n + 1
        BY <1>1, <3>1, <3>2
      <3>3. CASE j # n + 1
        <4>1. j \in n - b + 1 .. n /\ j \in 1 .. n
          BY <2>2, <3>3 DEF IsBurst
        <4>2. at[j] >= at[i] + gap
          BY <4>1 DEF IsBurst
        <4> QED BY <3>1, <4>1, <4>2
      <3> QED BY <3>2, <3>3
    <2> QED BY <1>3, <1>5, <2>1, <2>2 DEF IsBurst
  <1> QED BY <1>4, <1>5


(* Every step keeps bursts within their size and apart by the gap.         *)
LEMMA BurstStep ==
    ASSUME Accounted, Accounted', BurstInv, [VirtualNext]_all
    PROVE  BurstInv'
  <1>0. engine'.mode = engine.mode
    BY CallerStep DEF Accounted
  <1> SUFFICES ASSUME engine.mode.name = "Burst" PROVE BurstInv'
    BY <1>0 DEF BurstInv
  <1> DEFINE n == Len(emitted)
             c == engine.mode.count
             gap == engine.mode.gap
  <1>1. /\ engine \in Engine /\ engine.mode \in Modes /\ ValidMode(engine.mode)
        /\ engine.burstCount \in Nat /\ engine.burstResume \in Int
    BY DEF Accounted, CallerTypes, Engine
  <1>2. c \in Nat \ {0} /\ gap \in Nat
    <2>1. c \in Nat /\ gap \in Nat
      BY <1>1, ModeTypes
    <2>2. c > 0
      BY <1>1 DEF ValidMode
    <2> QED BY <2>1, <2>2
  <1>3. /\ n \in Nat /\ wall \in Nat
        /\ \A i \in 1 .. n : Times[i] \in Nat /\ Times[i] <= wall
    <2>1. /\ n \in Nat /\ wall \in Nat
          /\ \A k \in 1 .. n : emitted[k].at \in Nat /\ emitted[k].at <= wall
      BY EmittedNumbers
    <2> QED BY <2>1 DEF Times
  <1>4. IsBurst(n, engine.burstCount, c, gap, engine.burstResume, Times)
    BY DEF BurstInv
  <1>5. CASE UNCHANGED <<engine, emitted, advances>>
    BY <1>5 DEF BurstInv, IsBurst, Times
  <1>6. CASE engine' = NewEngine(engine.mode) /\ Len(emitted') = 0
    <2>1. engine'.burstCount = 0 /\ engine'.burstResume = Unset
      BY <1>6, NewEngineFields
    <2>2. IsBurst(0, 0, c, gap, Unset, Times')
      BY <1>2 DEF IsBurst
    <2>3. IsBurst(Len(emitted'), engine'.burstCount, engine'.mode.count, engine'.mode.gap,
                  engine'.burstResume, Times')
      BY <1>0, <1>6, <2>1, <2>2
    <2> QED BY <2>3 DEF BurstInv, IsBurst
  <1>7. CASE Ask
    <2> DEFINE ts == TimestampOf(Head(queue))
    <2>1. /\ ts \in Nat /\ engine' = Polled(engine, ts, wall)
          /\ Ready(engine, ts, wall) =>
               /\ Len(emitted') = n + 1
               /\ \A k \in 1 .. n : emitted'[k] = emitted[k]
               /\ emitted'[n + 1].at = wall
          /\ ~Ready(engine, ts, wall) => UNCHANGED emitted
      BY <1>7, AskAnswer
    <2> HIDE DEF ts
    <2> DEFINE m == IF engine.burstResume = Unset THEN engine.burstCount + 1 ELSE 1
    <2>2. /\ Ready(engine, ts, wall) <=> ~InPause(engine, wall)
          /\ InPause(engine, wall) => engine' = engine
          /\ ~InPause(engine, wall) =>
               /\ m >= c => engine'.burstCount = 0 /\ engine'.burstResume = wall + gap
               /\ ~(m >= c) => engine'.burstCount = m /\ engine'.burstResume = Unset
      BY <1>1, <1>3, <2>1, EngineBurst
    <2>3. m \in Nat
      BY <1>1
    <2>4. CASE InPause(engine, wall)
      <3>1. UNCHANGED <<engine, emitted>>
        BY <2>1, <2>2, <2>4
      <3> QED BY <3>1 DEF BurstInv, IsBurst, Times
    <2>5. CASE ~InPause(engine, wall)
      <3>1. /\ Len(emitted') = n + 1 /\ \A k \in 1 .. n : emitted'[k] = emitted[k]
            /\ emitted'[n + 1].at = wall
        BY <2>1, <2>2, <2>5
      <3>2. /\ \A i \in 1 .. n : Times'[i] = Times[i]
            /\ Times'[n + 1] = wall
        <4>1. Times' = [k \in 1 .. n + 1 |-> emitted'[k].at]
          BY <3>1 DEF Times
        <4>2. \A i \in 1 .. n : i \in 1 .. n + 1 /\ Times[i] = emitted[i].at
          BY <1>3 DEF Times
        <4>3. n + 1 \in 1 .. n + 1
          BY <1>3
        <4> HIDE DEF n
        <4> QED BY <3>1, <4>1, <4>2, <4>3
      <3>3. engine.burstResume = Unset \/ wall >= engine.burstResume
        BY <1>1, <1>3, <2>5 DEF InPause
      <3> HIDE DEF m, n
      <3>4. m = IF engine.burstResume = Unset THEN engine.burstCount + 1 ELSE 1
        BY DEF m
      <3>5. /\ m >= c => IsBurst(n + 1, 0, c, gap, wall + gap, Times')
            /\ m < c => IsBurst(n + 1, m, c, gap, Unset, Times')
        <4>1. PICK b, resume, at, at2 :
                 /\ b = engine.burstCount /\ resume = engine.burstResume
                 /\ at = Times /\ at2 = Times'
          OBVIOUS
        <4>2. /\ b \in Nat /\ resume \in Int
              /\ OneMore(n, at, at2, wall)
              /\ IsBurst(n, b, c, gap, resume, at) /\ (resume = Unset \/ wall >= resume)
              /\ m = IF resume = Unset THEN b + 1 ELSE 1
          BY <1>1, <1>3, <1>4, <3>2, <3>3, <3>4, <4>1 DEF OneMore
        <4>3. /\ m >= c => IsBurst(n + 1, 0, c, gap, wall + gap, at2)
              /\ m < c => IsBurst(n + 1, m, c, gap, Unset, at2)
          <5> HIDE DEF c, gap
          <5>1. /\ n \in Nat /\ b \in Nat /\ c \in Nat \ {0} /\ gap \in Nat /\ resume \in Int
                /\ wall \in Nat /\ m \in Nat
            BY <1>2, <1>3, <2>3, <4>2 DEF c, gap
          <5> QED BY <4>2, <5>1, BurstGrows
        <4> QED BY <4>1, <4>3
      <3>6. IsBurst(n + 1, engine'.burstCount, c, gap, engine'.burstResume, Times')
        <4>1. CASE m >= c
          BY <2>2, <2>5, <3>5, <4>1 DEF m
        <4>2. CASE ~(m >= c)
          <5>1. m < c
            BY <1>2, <2>3, <4>2
          <5> QED BY <2>2, <2>5, <3>5, <4>2, <5>1 DEF m
        <4> QED BY <4>1, <4>2
      <3>7. IsBurst(Len(emitted'), engine'.burstCount, engine'.mode.count, engine'.mode.gap,
                    engine'.burstResume, Times')
        BY <1>0, <3>1, <3>6
      <3> QED BY <3>7 DEF BurstInv, IsBurst
    <2> QED BY <2>4, <2>5
  <1> QED BY <1>5, <1>6, <1>7, NotAsked

(* The three together.                                                     *)
Paced == TimedInv /\ BurstInv /\ StepInv

(* Nothing has come out initially.                                         *)
LEMMA PacedInit == VirtualInit => Paced
  <1> SUFFICES ASSUME VirtualInit PROVE Paced
    OBVIOUS
  <1>1. PICK mode \in Modes : ValidMode(mode) /\ engine = NewEngine(mode)
    BY DEF VirtualInit
  <1>2. /\ engine.mode = mode /\ engine.start = Unset /\ engine.firstTs = Unset
        /\ engine.burstCount = 0 /\ engine.burstResume = Unset
    BY <1>1, NewEngineFields
  <1>3. Len(emitted) = 0 /\ advances = 0
    BY EmptySeq DEF VirtualInit
  <1>4. TimedInv /\ StepInv
    BY <1>2, <1>3 DEF TimedInv, StepInv
  <1>5. BurstInv
    <2> SUFFICES ASSUME mode.name = "Burst" PROVE BurstInv
      BY <1>2 DEF BurstInv
    <2>1. mode.count \in Nat /\ mode.count > 0
      BY <1>1, ModeTypes DEF ValidMode
    <2> QED BY <1>2, <1>3, <2>1 DEF BurstInv, IsBurst
  <1> QED BY <1>4, <1>5 DEF Paced

(* The three cases are what ReplayPaced says of each mode.                 *)
LEMMA PacedIsEnough == Accounted /\ Paced => ReplayPaced
  <1> SUFFICES ASSUME Accounted, Paced PROVE ReplayPaced
    OBVIOUS
  <1>1. /\ emitted \in Seq(Emission) /\ DOMAIN emitted = 1 .. Len(emitted) /\ Len(emitted) \in Nat
        /\ \A k \in 1 .. Len(emitted) : emitted[k].at \in Nat
        /\ engine.mode \in Modes /\ advances \in Nat
    <2>1. emitted \in Seq(Emission) /\ engine.mode \in Modes /\ advances \in Nat
      BY DEF Accounted, CallerTypes, Engine
    <2> QED BY <2>1, EmittedNumbers, LenProperties
  <1>2. CASE engine.mode.name = "TimeScaled"
    BY <1>1, <1>2 DEF Paced, TimedInv, Late, ReplayPaced
  <1>3. CASE engine.mode.name = "Burst"
    <2>1. engine.mode.count \in Nat /\ engine.mode.gap \in Nat
      BY <1>1, <1>3, ModeTypes
    <2>2. ASSUME NEW k \in DOMAIN emitted, k > engine.mode.count
          PROVE  emitted[k].at - emitted[k - engine.mode.count].at >= engine.mode.gap
      <3>1. k \in 1 .. Len(emitted)
        BY <1>1
      <3>2. Times[k] >= Times[k - engine.mode.count] + engine.mode.gap
        BY <1>3, <2>2, <3>1 DEF Paced, BurstInv, IsBurst
      <3>3. CASE k - engine.mode.count \in 1 .. Len(emitted)
        <4>1. Times[k] = emitted[k].at
              /\ Times[k - engine.mode.count] = emitted[k - engine.mode.count].at
          BY <3>1, <3>3 DEF Times
        <4> QED BY <1>1, <2>1, <3>1, <3>2, <3>3, <4>1
      <3> QED BY <1>1, <2>1, <2>2, <3>1, <3>3
    <2> QED BY <1>3, <2>2 DEF ReplayPaced
  <1>4. CASE engine.mode.name = "SingleStep"
    <2>1. Len(emitted) <= advances + 1
      BY <1>1, <1>4 DEF Paced, StepInv
    <2> QED BY <1>4, <2>1 DEF ReplayPaced
  <1>5. CASE engine.mode.name = "FullSpeed"
    BY <1>5 DEF ReplayPaced
  <1> QED BY <1>1, <1>2, <1>3, <1>4, <1>5, ModeTypes

(* For every mode and every sequence of polls and ticks of the clock:      *)
(* ReplayEngine lets no record out before its distance to the first one    *)
(* has passed, within the gap after a burst, or without advance.           *)
THEOREM ReplayPacedHolds ==
    ASSUME ~PollAfterReadError
    PROVE  VirtualSpec => []ReplayPaced
  <1>1. Accounted /\ [VirtualNext]_all => Accounted'
    BY AccountedNext
  <1>2. Accounted /\ Accounted' /\ [VirtualNext]_all /\ Paced => Paced'
    BY TimedStep, BurstStep, StepStep DEF Paced
  <1>3. VirtualSpec => []Accounted
    BY <1>1, AccountedInit, PTL DEF VirtualSpec
  <1>4. VirtualSpec => []Paced
    BY <1>2, <1>3, PacedInit, PTL DEF VirtualSpec
  <1> QED BY <1>3, <1>4, PacedIsEnough, PTL
=============================================================================
