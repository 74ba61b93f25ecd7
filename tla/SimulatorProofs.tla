-------------------------- MODULE SimulatorProofs --------------------------
(***************************************************************************)
(* The scheduler of the simulator and the dashboard on top of it.          *)
(***************************************************************************)
EXTENDS Dashboard, ModularArithmetic, SequenceTheorems, FiniteSetTheorems

-----------------------------------------------------------------------------
(* Folds                                                                   *)

(* One event more for the log, and for the history of the ticks.           *)
LogStep(v, log, e) == IF Shown(v, e) THEN Append(log, e) ELSE log
HistStep(hist, e) == IF e.kind = "tick" THEN PushHist(hist, e) ELSE hist

(* The operators the scheduler and the dashboard fold with.  What a fold   *)
(* does is shown once for all of them.                                     *)
Apply(op, field, x, y) ==
    CASE op = "act"   -> Act(x, y)
      [] op = "push"  -> TryPush(x, y)
      [] op = "drain" -> Drained(x, y)
      [] op = "sum"   -> x + y[field]
      [] op = "add"   -> x + y
      [] op = "log"   -> LogStep(field, x, y)
      [] op = "hist"  -> HistStep(x, y)

(* The function FoldLeft is defined by.                                    *)
IsFold(it, op, field, base, seq, n) ==
    it = [s \in SUBSET (1 .. n) |->
            IF s = {} THEN base
            ELSE Apply(op, field, it[s \ {Max(s)}], seq[Max(s)])]

(* There is such a function.                                               *)
LEMMA FoldExists ==
    ASSUME NEW op, NEW field, NEW base, NEW seq, NEW n \in Nat
    PROVE  \E it : IsFold(it, op, field, base, seq, n)
  <1> DEFINE A(x, y) == Apply(op, field, x, y)
             Step(it, s) == IF s = {} THEN base ELSE A(it[s \ {Max(s)}], seq[Max(s)])
             T == {k \in Nat : \E it : it = [s \in SUBSET (1 .. k) |-> Step(it, s)]}
  <1> HIDE DEF A
  <1>1. 0 \in T
    <2> DEFINE it == [s \in SUBSET (1 .. 0) |-> base]
    <2>1. \A s \in SUBSET (1 .. 0) : s = {}
      OBVIOUS
    <2>2. \A s \in SUBSET (1 .. 0) : Step(it, s) = base
      BY <2>1
    <2>3. it = [s \in SUBSET (1 .. 0) |-> Step(it, s)]
      <3> HIDE DEF Step
      <3> QED BY <2>2
    <2> HIDE DEF Step, it
    <2> QED BY <2>3
  <1>2. ASSUME NEW k \in Nat, k \in T PROVE k + 1 \in T
    <2>1. PICK it : it = [s \in SUBSET (1 .. k) |-> Step(it, s)]
      BY <1>2
    <2> DEFINE new == [s \in SUBSET (1 .. k + 1) |->
                         IF k + 1 \in s THEN A(it[s \ {k + 1}], seq[k + 1]) ELSE it[s]]
    <2>2. \A s \in SUBSET (1 .. k) : s \in SUBSET (1 .. k + 1) /\ k + 1 \notin s /\ new[s] = it[s]
      OBVIOUS
    <2>3. ASSUME NEW s \in SUBSET (1 .. k + 1) PROVE new[s] = Step(new, s)
      <3>1. CASE k + 1 \in s
        <4>1. Max(s) = k + 1
          <5>1. \A y \in s : k + 1 >= y /\ y \in Nat
            OBVIOUS
          <5>2. \A x \in s : (\A y \in s : x >= y) => x = k + 1
            BY <3>1, <5>1
          <5> QED BY <3>1, <5>1, <5>2 DEF Max
        <4>2. s \ {k + 1} \in SUBSET (1 .. k)
          OBVIOUS
        <4>3. new[s \ {k + 1}] = it[s \ {k + 1}]
          <5> HIDE DEF new
          <5> QED BY <2>2, <4>2
        <4>4. new[s] = A(it[s \ {k + 1}], seq[k + 1])
          BY <3>1
        <4>5. s # {}
          BY <3>1
        <4>6. Step(new, s) = A(new[s \ {k + 1}], seq[k + 1])
          <5> HIDE DEF new
          <5> QED BY <4>1, <4>5
        <4> HIDE DEF Step, new
        <4> QED BY <4>3, <4>4, <4>6
      <3>2. CASE k + 1 \notin s
        <4>0. \A x \in 1 .. k + 1 : x # k + 1 => x \in 1 .. k
          OBVIOUS
        <4>1. s \in SUBSET (1 .. k) /\ s \ {Max(s)} \in SUBSET (1 .. k)
          BY <3>2, <4>0, Zenon
        <4>2. new[s] = it[s] /\ new[s \ {Max(s)}] = it[s \ {Max(s)}]
          <5> HIDE DEF new
          <5> QED BY <2>2, <4>1
        <4>3. it[s] = Step(it, s)
          <5> HIDE DEF Step
          <5> QED BY <2>1, <4>1
        <4>4. Step(it, s) = Step(new, s)
          <5> HIDE DEF new
          <5> QED BY <4>2
        <4> HIDE DEF Step, new
        <4> QED BY <4>2, <4>3, <4>4
      <3> QED BY <3>1, <3>2
    <2>4. new = [s \in SUBSET (1 .. k + 1) |-> new[s]]
      OBVIOUS
    <2>5. new = [s \in SUBSET (1 .. k + 1) |-> Step(new, s)]
      <3> HIDE DEF Step, new
      <3> QED BY <2>3, <2>4
    <2> HIDE DEF Step, new
    <2> QED BY <2>5
  <1>3. n \in T
    <2> HIDE DEF T
    <2> QED BY <1>1, <1>2, Induction
  <1>4. PICK it : it = [s \in SUBSET (1 .. n) |-> Step(it, s)]
    BY <1>3
  <1>5. IsFold(it, op, field, base, seq, n)
    BY <1>4 DEF IsFold, A
  <1> QED BY <1>5

(* What a fold has come to after so many elements.                         *)
FoldSteps(p, op, field, base, seq, n) ==
    /\ p[0] = base
    /\ \A k \in 1 .. n : p[k] = Apply(op, field, p[k - 1], seq[k])

(* The iteration behind a fold visits the elements one by one.             *)
LEMMA FoldUnfolds ==
    ASSUME NEW op, NEW field, NEW base, NEW seq, NEW n \in Nat,
           NEW it, IsFold(it, op, field, base, seq, n)
    PROVE  \E p : FoldSteps(p, op, field, base, seq, n) /\ p[n] = it[1 .. n]
  <1> DEFINE p == [k \in 0 .. n |-> it[1 .. k]]
  <1>1. p[0] = base
    <2>1. 1 .. 0 = {} /\ {} \in SUBSET (1 .. n)
      OBVIOUS
    <2>2. it[{}] = base
      BY <2>1 DEF IsFold
    <2> QED BY <2>1, <2>2
  <1>2. ASSUME NEW k \in 1 .. n PROVE p[k] = Apply(op, field, p[k - 1], seq[k])
    <2>1. 1 .. k \in SUBSET (1 .. n) /\ 1 .. k # {} /\ k \in 1 .. k
      OBVIOUS
    <2>2. Max(1 .. k) = k
      <3>1. \A y \in 1 .. k : k >= y /\ y \in Nat
        OBVIOUS
      <3>2. \A x \in 1 .. k : (\A y \in 1 .. k : x >= y) => x = k
        BY <2>1, <3>1
      <3> QED BY <2>1, <3>1, <3>2 DEF Max
    <2>3. (1 .. k) \ {k} = 1 .. k - 1
      OBVIOUS
    <2>4. it[1 .. k] = Apply(op, field, it[(1 .. k) \ {Max(1 .. k)}], seq[Max(1 .. k)])
      BY <2>1 DEF IsFold
    <2>5. p[k] = it[1 .. k] /\ p[k - 1] = it[1 .. k - 1]
      OBVIOUS
    <2> HIDE DEF p
    <2> QED BY <2>2, <2>3, <2>4, <2>5
  <1>3. p[n] = it[1 .. n]
    OBVIOUS
  <1> HIDE DEF p
  <1> QED BY <1>1, <1>2, <1>3 DEF FoldSteps

(* FoldLeft goes through the elements from the first to the last.          *)
LEMMA ActFold ==
    ASSUME NEW base, NEW seq, NEW n \in Nat, DOMAIN seq = 1 .. n
    PROVE  \E p : FoldSteps(p, "act", 0, base, seq, n) /\ FoldLeft(Act, base, seq) = p[n]
  <1> DEFINE it == CHOOSE it : it = [s \in SUBSET DOMAIN seq |->
                     IF s = {} THEN base ELSE Act(it[s \ {Max(s)}], seq[Max(s)])]
  <1>1. \A x, y : Apply("act", 0, x, y) = Act(x, y)
    BY DEF Apply
  <1>2. PICK it2 : IsFold(it2, "act", 0, base, seq, n)
    BY FoldExists
  <1>3. it2 = [s \in SUBSET DOMAIN seq |->
                     IF s = {} THEN base ELSE Act(it2[s \ {Max(s)}], seq[Max(s)])]
    BY <1>1, <1>2 DEF IsFold
  <1>4. it = [s \in SUBSET DOMAIN seq |->
                     IF s = {} THEN base ELSE Act(it[s \ {Max(s)}], seq[Max(s)])]
    BY <1>3
  <1>5. FoldLeft(Act, base, seq) = it[1 .. n]
    BY DEF FoldLeft, MapThenFoldSet
  <1> HIDE DEF it
  <1>6. IsFold(it, "act", 0, base, seq, n)
    BY <1>1, <1>4 DEF IsFold
  <1> QED BY <1>5, <1>6, FoldUnfolds


(* The batch is pushed packet by packet.                                   *)
LEMMA PushFold ==
    ASSUME NEW base, NEW seq, NEW n \in Nat, DOMAIN seq = 1 .. n
    PROVE  \E p : FoldSteps(p, "push", 0, base, seq, n)
                  /\ FoldLeft(TryPush, base, seq) = p[n]
  <1> DEFINE it == CHOOSE it : it = [s \in SUBSET DOMAIN seq |->
                     IF s = {} THEN base ELSE TryPush(it[s \ {Max(s)}], seq[Max(s)])]
  <1>1. \A x, y : Apply("push", 0, x, y) = TryPush(x, y)
    BY DEF Apply
  <1>2. PICK it2 : IsFold(it2, "push", 0, base, seq, n)
    BY FoldExists
  <1>3. it2 = [s \in SUBSET DOMAIN seq |->
                     IF s = {} THEN base ELSE TryPush(it2[s \ {Max(s)}], seq[Max(s)])]
    BY <1>1, <1>2 DEF IsFold
  <1>4. it = [s \in SUBSET DOMAIN seq |->
                     IF s = {} THEN base ELSE TryPush(it[s \ {Max(s)}], seq[Max(s)])]
    BY <1>3
  <1>5. FoldLeft(TryPush, base, seq) = it[1 .. n]
    BY DEF FoldLeft, MapThenFoldSet
  <1> HIDE DEF it
  <1>6. IsFold(it, "push", 0, base, seq, n)
    BY <1>1, <1>4 DEF IsFold
  <1> QED BY <1>5, <1>6, FoldUnfolds

(* The consumers drain the ring one by one.                                *)
LEMMA DrainFold ==
    ASSUME NEW base, NEW seq, NEW n \in Nat, DOMAIN seq = 1 .. n
    PROVE  \E p : FoldSteps(p, "drain", 0, base, seq, n)
                  /\ FoldLeft(Drained, base, seq) = p[n]
  <1> DEFINE it == CHOOSE it : it = [s \in SUBSET DOMAIN seq |->
                     IF s = {} THEN base ELSE Drained(it[s \ {Max(s)}], seq[Max(s)])]
  <1>1. \A x, y : Apply("drain", 0, x, y) = Drained(x, y)
    BY DEF Apply
  <1>2. PICK it2 : IsFold(it2, "drain", 0, base, seq, n)
    BY FoldExists
  <1>3. it2 = [s \in SUBSET DOMAIN seq |->
                     IF s = {} THEN base ELSE Drained(it2[s \ {Max(s)}], seq[Max(s)])]
    BY <1>1, <1>2 DEF IsFold
  <1>4. it = [s \in SUBSET DOMAIN seq |->
                     IF s = {} THEN base ELSE Drained(it[s \ {Max(s)}], seq[Max(s)])]
    BY <1>3
  <1>5. FoldLeft(Drained, base, seq) = it[1 .. n]
    BY DEF FoldLeft, MapThenFoldSet
  <1> HIDE DEF it
  <1>6. IsFold(it, "drain", 0, base, seq, n)
    BY <1>1, <1>4 DEF IsFold
  <1> QED BY <1>5, <1>6, FoldUnfolds

(* A total over the sources is summed one by one.                          *)
LEMMA SumFold ==
    ASSUME NEW field, NEW seq, NEW n \in Nat, DOMAIN seq = 1 .. n
    PROVE  \E p : FoldSteps(p, "sum", field, 0, seq, n)
                  /\ Total(seq, field) = p[n]
  <1> DEFINE it == CHOOSE it : it = [s \in SUBSET DOMAIN seq |->
                     IF s = {} THEN 0 ELSE it[s \ {Max(s)}] + seq[Max(s)][field]]
  <1>1. \A x, y : Apply("sum", field, x, y) = x + y[field]
    BY DEF Apply
  <1>2. PICK it2 : IsFold(it2, "sum", field, 0, seq, n)
    BY FoldExists
  <1>3. it2 = [s \in SUBSET DOMAIN seq |->
                     IF s = {} THEN 0 ELSE it2[s \ {Max(s)}] + seq[Max(s)][field]]
    BY <1>1, <1>2 DEF IsFold
  <1>4. it = [s \in SUBSET DOMAIN seq |->
                     IF s = {} THEN 0 ELSE it[s \ {Max(s)}] + seq[Max(s)][field]]
    BY <1>3
  <1>5. Total(seq, field) = it[1 .. n]
    BY DEF Total, FoldLeft, MapThenFoldSet
  <1> HIDE DEF it
  <1>6. IsFold(it, "sum", field, 0, seq, n)
    BY <1>1, <1>4 DEF IsFold
  <1> QED BY <1>5, <1>6, FoldUnfolds

(* The samples are summed one by one.                                      *)
LEMMA AddFold ==
    ASSUME NEW seq, NEW n \in Nat, DOMAIN seq = 1 .. n
    PROVE  \E p : FoldSteps(p, "add", 0, 0, seq, n)
                  /\ SumOf(seq) = p[n]
  <1> DEFINE it == CHOOSE it : it = [s \in SUBSET DOMAIN seq |->
                     IF s = {} THEN 0 ELSE it[s \ {Max(s)}] + seq[Max(s)]]
  <1>1. \A x, y : Apply("add", 0, x, y) = x + y
    BY DEF Apply
  <1>2. PICK it2 : IsFold(it2, "add", 0, 0, seq, n)
    BY FoldExists
  <1>3. it2 = [s \in SUBSET DOMAIN seq |->
                     IF s = {} THEN 0 ELSE it2[s \ {Max(s)}] + seq[Max(s)]]
    BY <1>1, <1>2 DEF IsFold
  <1>4. it = [s \in SUBSET DOMAIN seq |->
                     IF s = {} THEN 0 ELSE it[s \ {Max(s)}] + seq[Max(s)]]
    BY <1>3
  <1>5. SumOf(seq) = it[1 .. n]
    BY DEF SumOf, FoldLeft, MapThenFoldSet
  <1> HIDE DEF it
  <1>6. IsFold(it, "add", 0, 0, seq, n)
    BY <1>1, <1>4 DEF IsFold
  <1> QED BY <1>5, <1>6, FoldUnfolds

(* refresh_events reads the new events one by one.                         *)
LEMMA LogFold ==
    ASSUME NEW v, NEW n \in Nat, DOMAIN NewEvents = 1 .. n
    PROVE  \E p : FoldSteps(p, "log", v, v.log, NewEvents, n) /\ Logged(v) = p[n]
  <1>0. PICK seq : seq = NewEvents
    OBVIOUS
  <1>7. DOMAIN seq = 1 .. n
    BY <1>0
  <1> DEFINE it == CHOOSE it : it = [s \in SUBSET DOMAIN seq |->
                     IF s = {} THEN v.log ELSE LogStep(v, it[s \ {Max(s)}], seq[Max(s)])]
  <1>1. \A x, y : Apply("log", v, x, y) = LogStep(v, x, y)
    BY DEF Apply
  <1>2. PICK it2 : IsFold(it2, "log", v, v.log, seq, n)
    BY FoldExists
  <1>3. it2 = [s \in SUBSET DOMAIN seq |->
                     IF s = {} THEN v.log ELSE LogStep(v, it2[s \ {Max(s)}], seq[Max(s)])]
    BY <1>1, <1>2, <1>7 DEF IsFold
  <1>4. it = [s \in SUBSET DOMAIN seq |->
                     IF s = {} THEN v.log ELSE LogStep(v, it[s \ {Max(s)}], seq[Max(s)])]
    BY <1>3
  <1>5. Logged(v) = it[1 .. n]
    BY <1>0 DEF Logged, LogStep, FoldLeft, MapThenFoldSet
  <1> HIDE DEF it
  <1>6. IsFold(it, "log", v, v.log, seq, n)
    BY ONLY <1>1, <1>4, <1>7 DEF IsFold
  <1> QED BY <1>0, <1>5, <1>6, FoldUnfolds

(* ingest_tick_samples reads the new events one by one.                    *)
LEMMA HistFold ==
    ASSUME NEW v, NEW n \in Nat, DOMAIN NewEvents = 1 .. n
    PROVE  \E p : FoldSteps(p, "hist", 0, v.ticks, NewEvents, n) /\ Ticked(v) = p[n]
  <1>0. PICK seq : seq = NewEvents
    OBVIOUS
  <1>7. DOMAIN seq = 1 .. n
    BY <1>0
  <1> DEFINE it == CHOOSE it : it = [s \in SUBSET DOMAIN seq |->
                     IF s = {} THEN v.ticks ELSE HistStep(it[s \ {Max(s)}], seq[Max(s)])]
  <1>1. \A x, y : Apply("hist", 0, x, y) = HistStep(x, y)
    BY DEF Apply
  <1>2. PICK it2 : IsFold(it2, "hist", 0, v.ticks, seq, n)
    BY FoldExists
  <1>3. it2 = [s \in SUBSET DOMAIN seq |->
                     IF s = {} THEN v.ticks ELSE HistStep(it2[s \ {Max(s)}], seq[Max(s)])]
    BY <1>1, <1>2, <1>7 DEF IsFold
  <1>4. it = [s \in SUBSET DOMAIN seq |->
                     IF s = {} THEN v.ticks ELSE HistStep(it[s \ {Max(s)}], seq[Max(s)])]
    BY <1>3
  <1>5. Ticked(v) = it[1 .. n]
    BY <1>0 DEF Ticked, HistStep, FoldLeft, MapThenFoldSet
  <1> HIDE DEF it
  <1>6. IsFold(it, "hist", 0, v.ticks, seq, n)
    BY ONLY <1>1, <1>4, <1>7 DEF IsFold
  <1> QED BY <1>0, <1>5, <1>6, FoldUnfolds

-----------------------------------------------------------------------------
(* Sources                                                                 *)

(* The smaller one of two numbers.                                         *)
LEMMA LesserIs ==
    ASSUME NEW a \in Int, NEW b \in Int
    PROVE  Lesser(a, b) = IF a <= b THEN a ELSE b
  <1>1. CASE a <= b
    <2>1. \A x \in {a, b} : (\A y \in {a, b} : x =< y) => x = a
      BY <1>1
    <2> QED BY <1>1, <2>1 DEF Lesser, Min
  <1>2. CASE ~(a <= b)
    <2>1. \A x \in {a, b} : (\A y \in {a, b} : x =< y) => x = b
      BY <1>2
    <2> QED BY <1>2, <2>1 DEF Lesser, Min
  <1> QED BY <1>1, <1>2

Common == {"name", "kind", "initialized", "fault", "generated", "dropped", "corrupted", "spikeNs"}

IsPacer(p) ==
    /\ {"burstRemaining", "gapRemaining", "carry"} \subseteq DOMAIN p
    /\ p.burstRemaining \in Nat /\ p.gapRemaining \in Nat /\ p.carry \in Nat

(* The types of a source at any time.                                      *)
IsNic(s) ==
    /\ {"traffic", "pacer", "paced", "polls"} \subseteq DOMAIN s
    /\ IsTraffic(s.traffic) /\ IsPacer(s.pacer) /\ s.paced \in Nat /\ s.polls \in Nat

IsPcap(s) ==
    /\ {"capture", "cursor", "replay", "loop", "exhausted"} \subseteq DOMAIN s
    /\ IsCapture(s.capture) /\ s.cursor \in Nat

Counts(s) ==
    /\ Common \subseteq DOMAIN s /\ IsFault(s.fault)
    /\ s.generated \in Nat /\ s.dropped \in Nat /\ s.corrupted \in Nat /\ s.spikeNs \in Nat

IsSource(s) ==
    /\ Counts(s)
    /\ \/ s.kind = "nic" /\ IsNic(s)
       \/ s.kind = "pcap" /\ IsPcap(s)

(* The source has made and lost the same packets.                          *)
SameCounts(s, t) ==
    /\ t.kind = s.kind /\ t.name = s.name /\ t.initialized = s.initialized
    /\ t.generated = s.generated /\ t.dropped = s.dropped /\ t.corrupted = s.corrupted
    /\ t.spikeNs = s.spikeNs

NoCounts(s) == s.generated = 0 /\ s.dropped = 0 /\ s.corrupted = 0 /\ s.spikeNs = 0

(* A new pacer has its type.                                               *)
LEMMA NewPacerTypes ==
    ASSUME NEW t, IsTraffic(t)
    PROVE  IsPacer(NewPacer(t))
  BY DEF IsTraffic, NewPacer, IsPacer

(* A source as it is built.                                                *)
LEMMA NewSourceTypes ==
    ASSUME NEW s, IsNewSource(s)
    PROVE  IsSource(s) /\ NoCounts(s) /\ ~s.initialized
  <1>1. CASE s.kind = "nic" /\ IsTraffic(s.traffic) /\ s = NewNic(s.name, s.traffic, s.fault)
    <2>1. IsPacer(NewPacer(s.traffic)) /\ IsFault(s.fault)
      BY <1>1, NewPacerTypes DEF IsNewSource
    <2>2. PICK n, t, f : n = s.name /\ t = s.traffic /\ f = s.fault
      OBVIOUS
    <2>3. s = NewNic(n, t, f) /\ IsTraffic(t) /\ IsFault(f) /\ IsPacer(NewPacer(t))
      BY <1>1, <2>1, <2>2
    <2>4. Counts(s) /\ s.kind = "nic" /\ NoCounts(s) /\ ~s.initialized
      BY <2>3 DEF NewNic, Counts, Common, NoCounts
    <2>5. IsNic(s)
      BY <2>3 DEF NewNic, IsNic
    <2> QED BY <2>4, <2>5 DEF IsSource
  <1>2. CASE /\ s.kind = "pcap" /\ IsCapture(s.capture)
             /\ s = NewPcap(s.name, s.capture, s.replay.mode, s.loop, s.fault)
    <2>1. IsFault(s.fault)
      BY DEF IsNewSource
    <2>2. PICK n, c, m, l, f : /\ n = s.name /\ c = s.capture /\ m = s.replay.mode
                               /\ l = s.loop /\ f = s.fault
      OBVIOUS
    <2>3. s = NewPcap(n, c, m, l, f) /\ IsCapture(c) /\ IsFault(f)
      BY <1>2, <2>1, <2>2
    <2>4. Counts(s) /\ s.kind = "pcap" /\ NoCounts(s) /\ ~s.initialized
      BY <2>3 DEF NewPcap, Counts, Common, NoCounts
    <2>5. IsPcap(s)
      BY <2>3 DEF NewPcap, IsPcap
    <2> QED BY <2>4, <2>5 DEF IsSource
  <1> QED BY <1>1, <1>2 DEF IsNewSource

(* init: the counters begin again.                                         *)
LEMMA StartedSource ==
    ASSUME NEW s, IsSource(s)
    PROVE  /\ IsSource(Started(s)) /\ NoCounts(Started(s)) /\ Started(s).initialized
           /\ Started(s).kind = s.kind /\ Started(s).name = s.name
  <1>1. Common \subseteq DOMAIN s /\ IsFault(s.fault)
    BY DEF IsSource, Counts
  <1>2. PICK r : r = Reset(s)
    OBVIOUS
  <1>3. /\ DOMAIN r = DOMAIN s /\ NoCounts(r) /\ r.initialized
        /\ r.kind = s.kind /\ r.name = s.name /\ r.fault = s.fault
    BY <1>1, <1>2 DEF Reset, NoCounts, Common
  <1>4. \A f \in DOMAIN s : f \notin {"initialized", "generated", "dropped", "corrupted", "spikeNs"}
          => r[f] = s[f]
    BY <1>2 DEF Reset
  <1>5. CASE s.kind = "nic"
    <2>1. IsNic(s)
      BY <1>5 DEF IsSource
    <2>2. PICK t : t = [r EXCEPT !.pacer = NewPacer(s.traffic), !.paced = 0, !.polls = 0]
      OBVIOUS
    <2>3. Started(s) = t
      BY <1>2, <1>5, <2>2 DEF Started
    <2>4. DOMAIN t = DOMAIN s /\ IsPacer(NewPacer(s.traffic))
      BY <1>3, <2>1, <2>2, NewPacerTypes DEF IsNic
    <2>5. t.pacer = NewPacer(s.traffic) /\ t.paced = 0 /\ t.polls = 0
      BY <1>3, <2>1, <2>2 DEF IsNic
    <2>6. t.traffic = s.traffic
      BY <1>3, <1>4, <2>1, <2>2 DEF IsNic
    <2>7. IsNic(t)
      BY <2>1, <2>4, <2>5, <2>6 DEF IsNic
    <2>8. /\ NoCounts(t) /\ t.initialized
          /\ t.kind = s.kind /\ t.name = s.name /\ t.fault = s.fault
      BY <1>1, <1>3, <2>2 DEF NoCounts, Common
    <2>9. Counts(t)
      BY <1>1, <2>4, <2>8 DEF Counts, NoCounts
    <2> QED BY <1>5, <2>3, <2>7, <2>8, <2>9 DEF IsSource
  <1>6. CASE s.kind # "nic"
    <2>1. IsPcap(s) /\ s.kind = "pcap"
      BY <1>6 DEF IsSource
    <2>2. PICK t : t = [r EXCEPT !.cursor = 0, !.exhausted = FALSE,
                                 !.replay = NewReplay(s.replay.mode)]
      OBVIOUS
    <2>3. Started(s) = t
      BY <1>2, <1>6, <2>2 DEF Started
    <2>4. DOMAIN t = DOMAIN s
      BY <1>3, <2>2
    <2>5. t.cursor = 0 /\ t.capture = s.capture
      BY <1>3, <1>4, <2>1, <2>2 DEF IsPcap
    <2>6. IsPcap(t)
      BY <2>1, <2>4, <2>5 DEF IsPcap
    <2>8. /\ NoCounts(t) /\ t.initialized
          /\ t.kind = s.kind /\ t.name = s.name /\ t.fault = s.fault
      BY <1>1, <1>3, <2>2 DEF NoCounts, Common
    <2>9. Counts(t)
      BY <1>1, <2>4, <2>8 DEF Counts, NoCounts
    <2> QED BY <2>1, <2>3, <2>6, <2>8, <2>9 DEF IsSource
  <1> QED BY <1>5, <1>6

(* The rate is exact so far: every nanosecond polled is a packet's or is   *)
(* carried over, and what is owed completes a burst.                       *)
RateKept(s, tick) ==
    s.traffic.pattern = "FixedRate" /\ s.traffic.pps > 0 =>
        LET nsPerPacket == NsPerSecond \div s.traffic.pps
        IN  nsPerPacket > 0 /\ tick \div nsPerPacket < s.traffic.batchSize =>
              /\ s.polls * tick = s.paced * nsPerPacket + s.pacer.carry
              /\ s.pacer.carry < nsPerPacket

BurstKept(s) ==
    s.traffic.pattern = "Burst" /\ s.traffic.burstSize > 0 =>
        (s.paced + s.pacer.burstRemaining) % s.traffic.burstSize = 0

Rated(s, tick) == s.kind = "nic" => RateKept(s, tick) /\ BurstKept(s)

(* A NIC whose pacer is new keeps its rate.                                *)
LEMMA FreshIsRated ==
    ASSUME NEW s, NEW tick \in Nat, IsTraffic(s.traffic),
           s.pacer = NewPacer(s.traffic), s.paced = 0, s.polls = 0
    PROVE  Rated(s, tick)
  <1>1. RateKept(s, tick)
    <2>1. s.pacer.carry = 0
      BY DEF NewPacer
    <2>2. ASSUME NEW ns \in Int PROVE 0 * tick = 0 * ns + 0
      OBVIOUS
    <2>3. s.traffic.pattern = "FixedRate" => s.traffic.pps \in Nat
      BY DEF IsTraffic
    <2>4. s.traffic.pattern = "FixedRate" /\ s.traffic.pps > 0 => NsPerSecond \div s.traffic.pps \in Nat
      BY <2>3, SecondAssumption, DivMod
    <2> QED BY <2>1, <2>2, <2>4 DEF RateKept
  <1>2. BurstKept(s)
    <2>1. ASSUME s.traffic.pattern = "Burst", s.traffic.burstSize > 0
          PROVE  (s.paced + s.pacer.burstRemaining) % s.traffic.burstSize = 0
      <3>1. PICK b : b = s.traffic.burstSize /\ b \in Nat \ {0}
        BY <2>1 DEF IsTraffic
      <3>2. s.pacer.burstRemaining = b
        BY <2>1, <3>1 DEF NewPacer
      <3>3. 0 + b = b * 1 + 0 /\ 0 \in 0 .. b - 1
        BY <3>1
      <3>4. (0 + b) % b = 0
        BY <3>1, <3>3, ModUnique
      <3> QED BY <3>1, <3>2, <3>4
    <2> QED BY <2>1 DEF BurstKept
  <1> QED BY <1>1, <1>2 DEF Rated

(* packets_for_tick at a fixed rate: what is left of the time is carried   *)
(* over.                                                                   *)
LEMMA FixedRateStep ==
    ASSUME NEW ns \in Nat \ {0}, NEW tick \in Nat, NEW batchSize \in Nat,
           NEW carry \in 0 .. ns - 1, tick \div ns < batchSize
    PROVE  /\ (carry + tick) \div ns \in Nat /\ (carry + tick) % ns \in 0 .. ns - 1
           /\ carry + tick = ns * ((carry + tick) \div ns) + ((carry + tick) % ns)
           /\ (carry + tick) \div ns <= batchSize
  <1>1. PICK q \in Nat, r \in 0 .. ns - 1 : q = tick \div ns /\ tick = ns * q + r
    BY DivMod
  <1>2. carry + tick \in Nat
    OBVIOUS
  <1>3. PICK p \in Nat, t \in 0 .. ns - 1 :
           /\ p = (carry + tick) \div ns /\ t = (carry + tick) % ns
           /\ carry + tick = ns * p + t
    BY <1>2, DivMod
  <1>4. p <= q + 1
    <2> SUFFICES ASSUME p >= q + 2 PROVE FALSE
      OBVIOUS
    <2>1. ns * p = ns * q + ns * (p - q)
      OBVIOUS
    <2>2. ns * (p - q) = ns * 2 + ns * (p - q - 2) /\ ns * (p - q - 2) \in Nat
      OBVIOUS
    <2>3. PICK a \in Nat, b \in Nat, c \in Nat :
             a = ns * q /\ b = ns * (p - q - 2) /\ c = ns * p
      BY <2>2
    <2>4. c = a + (2 * ns + b) /\ carry + (a + r) = c + t
      BY <1>1, <1>3, <2>1, <2>2, <2>3
    <2> QED BY <2>4
  <1> QED BY <1>1, <1>3, <1>4

(* The shapes of what packets_for_tick answers.                            *)
LEMMA FixedRateTypes ==
    ASSUME NEW t, IsTraffic(t), t.pattern = "FixedRate", NEW pacer, IsPacer(pacer),
           NEW tick \in Nat, NEW q, q = FixedRate(t, pacer, tick)
    PROVE  /\ q[1] \in Nat /\ IsPacer(q[2])
           /\ t.pps > 0 /\ NsPerSecond \div t.pps > 0 =>
                LET ns == NsPerSecond \div t.pps
                IN  /\ q[1] = Lesser((pacer.carry + tick) \div ns, t.batchSize)
                    /\ q[2].carry = (pacer.carry + tick) % ns
  <1>1. t.pps \in Nat /\ t.batchSize \in Nat /\ pacer.carry + tick \in Nat
    BY DEF IsTraffic, IsPacer
  <1>2. CASE t.pps = 0
    BY <1>1, <1>2 DEF FixedRate
  <1>3. CASE t.pps # 0
    <2>1. PICK ns : ns = NsPerSecond \div t.pps
      OBVIOUS
    <2>2. ns \in Nat /\ t.pps > 0
      <3>1. t.pps \in Nat \ {0} /\ NsPerSecond \in Nat
        BY <1>1, <1>3, SecondAssumption
      <3>2. NsPerSecond \div t.pps \in Nat
        BY ONLY <3>1, DivMod
      <3> QED BY <2>1, <3>1, <3>2
    <2>3. CASE ns = 0
      <3>1. q = <<t.batchSize, [pacer EXCEPT !.carry = 0]>>
        BY <1>3, <2>1, <2>3 DEF FixedRate
      <3>2. IsPacer([pacer EXCEPT !.carry = 0])
        BY DEF IsPacer
      <3> QED BY <1>1, <2>1, <2>2, <2>3, <3>1, <3>2
    <2>4. CASE ns # 0
      <3>1. PICK b : b = pacer.carry + tick /\ b \in Nat
        BY <1>1
      <3>2. q = <<Lesser(b \div ns, t.batchSize), [pacer EXCEPT !.carry = b % ns]>>
        BY <1>3, <2>1, <2>4, <3>1 DEF FixedRate
      <3>3. b \div ns \in Nat /\ b % ns \in Nat
        BY <2>2, <2>4, <3>1, DivMod
      <3>4. Lesser(b \div ns, t.batchSize) \in Nat
        BY <1>1, <3>3, LesserIs
      <3>5. IsPacer([pacer EXCEPT !.carry = b % ns])
        BY <3>3 DEF IsPacer
      <3>6. q[2].carry = b % ns
        BY <3>2 DEF IsPacer
      <3> QED BY <2>1, <3>1, <3>2, <3>4, <3>5, <3>6
    <2> QED BY <2>3, <2>4
  <1> QED BY <1>2, <1>3

(* A burst goes on with what is left of it, or a new one begins.           *)
LEMMA BurstTypes ==
    ASSUME NEW t, IsTraffic(t), t.pattern = "Burst", NEW pacer, IsPacer(pacer),
           NEW tick \in Nat, NEW q, q = Burst(t, pacer, tick)
    PROVE  /\ q[1] \in Nat /\ IsPacer(q[2])
           /\ \/ q[1] + q[2].burstRemaining = pacer.burstRemaining
              \/ /\ pacer.burstRemaining = 0
                 /\ q[1] + q[2].burstRemaining = t.burstSize
  <1>0. t.batchSize \in Nat /\ t.burstSize \in Nat /\ t.gap \in Nat
    BY DEF IsTraffic
  <1>1. CASE pacer.gapRemaining > 0
    <2>1. PICK g : g = IF pacer.gapRemaining > tick THEN pacer.gapRemaining - tick ELSE 0
      OBVIOUS
    <2>2. g \in Nat
      BY <2>1 DEF IsPacer
    <2>3. q = <<0, [pacer EXCEPT !.gapRemaining = g]>>
      BY <1>1, <2>1 DEF Burst
    <2>4. IsPacer([pacer EXCEPT !.gapRemaining = g])
      BY <2>2 DEF IsPacer
    <2>5. q[2].burstRemaining = pacer.burstRemaining /\ pacer.burstRemaining \in Nat
      BY <2>3 DEF IsPacer
    <2> QED BY <2>3, <2>4, <2>5
  <1>2. CASE ~(pacer.gapRemaining > 0)
    <2>1. PICK owed : owed = IF pacer.burstRemaining = 0 THEN t.burstSize ELSE pacer.burstRemaining
      OBVIOUS
    <2>2. owed \in Nat
      BY <1>0, <2>1 DEF IsPacer
    <2>3. PICK n : n = Lesser(owed, t.batchSize)
      OBVIOUS
    <2>4. n \in Nat /\ n <= owed
      BY <1>0, <2>2, <2>3, LesserIs
    <2>5. PICK g \in Nat : g = IF owed = n THEN t.gap ELSE 0
      BY <1>0
    <2>6. q = <<n, [pacer EXCEPT !.burstRemaining = owed - n, !.gapRemaining = g]>>
      BY <1>2, <2>1, <2>3, <2>5 DEF Burst
    <2>7. IsPacer([pacer EXCEPT !.burstRemaining = owed - n, !.gapRemaining = g])
      BY <2>2, <2>4, <2>5 DEF IsPacer
    <2>8. q[2].burstRemaining = owed - n
      <3>1. q[2] = [pacer EXCEPT !.burstRemaining = owed - n, !.gapRemaining = g]
        BY <2>6
      <3>2. "burstRemaining" \in DOMAIN pacer
        BY DEF IsPacer
      <3> QED BY <3>1, <3>2
    <2> QED BY <2>1, <2>2, <2>4, <2>6, <2>7, <2>8
  <1> QED BY <1>1, <1>2

(* packets_for_tick keeps the types, for every pattern.                    *)
LEMMA PacketsTypes ==
    ASSUME NEW t, IsTraffic(t), NEW pacer, IsPacer(pacer),
           NEW tick \in Nat, NEW q \in PacketsForTick(t, pacer, tick)
    PROVE  q[1] \in Nat /\ IsPacer(q[2])
  <1>0. t.batchSize \in Nat
    BY DEF IsTraffic
  <1>1. CASE t.pattern = "FullSpeed"
    BY <1>0, <1>1 DEF PacketsForTick
  <1>2. CASE t.pattern = "FixedRate"
    BY <1>2, FixedRateTypes DEF PacketsForTick
  <1>3. CASE t.pattern = "Burst"
    BY <1>3, BurstTypes DEF PacketsForTick
  <1>4. CASE t.pattern = "Gaussian"
    BY <1>0, <1>4 DEF PacketsForTick
  <1> QED BY <1>1, <1>2, <1>3, <1>4 DEF IsTraffic

(* The time of all polls is that of the packets and what is carried over.  *)
LEMMA CarryStep ==
    ASSUME NEW polls \in Nat, NEW tick \in Nat, NEW paced \in Nat, NEW ns \in Nat,
           NEW c \in Nat, NEW n \in Nat, NEW r \in Nat,
           polls * tick = paced * ns + c, c + tick = ns * n + r
    PROVE  (polls + 1) * tick = (paced + n) * ns + r
  <1>1. (polls + 1) * tick = polls * tick + tick /\ (paced + n) * ns = paced * ns + ns * n
    BY ONLY polls \in Nat, tick \in Nat, paced \in Nat, ns \in Nat, n \in Nat
  <1>2. PICK x, y, z : x = polls * tick /\ y = paced * ns /\ z = ns * n
    OBVIOUS
  <1>3. x \in Nat /\ y \in Nat /\ z \in Nat
    BY <1>2
  <1>4. x = y + c /\ c + tick = z + r
    BY <1>2
  <1>5. x + tick = (y + z) + r
    BY <1>3, <1>4
  <1> QED BY <1>1, <1>2, <1>5

(* poll_batch of a NIC, the pacer: no packet is lost to the rate.          *)
LEMMA PacedRate ==
    ASSUME NEW s, NEW t, NEW tick \in Nat, NEW q,
           IsNic(s), RateKept(s, tick), q \in PacketsForTick(s.traffic, s.pacer, tick),
           t.traffic = s.traffic, t.pacer = q[2], t.paced = s.paced + q[1],
           t.polls = s.polls + 1
    PROVE  RateKept(t, tick)
  <1> SUFFICES ASSUME s.traffic.pattern = "FixedRate", s.traffic.pps > 0,
                      NsPerSecond \div s.traffic.pps > 0,
                      tick \div (NsPerSecond \div s.traffic.pps) < s.traffic.batchSize
               PROVE  /\ t.polls * tick = t.paced * (NsPerSecond \div s.traffic.pps) + t.pacer.carry
                      /\ t.pacer.carry < NsPerSecond \div s.traffic.pps
    BY DEF RateKept
  <1>1. PICK ns, b : ns = NsPerSecond \div s.traffic.pps /\ b = s.traffic.batchSize
    OBVIOUS
  <1>2. b \in Nat /\ s.traffic.pps \in Nat \ {0} /\ s.pacer.carry \in Nat
    BY <1>1 DEF IsNic, IsTraffic, IsPacer
  <1>3. ns \in Nat \ {0}
    <2>1. NsPerSecond \in Nat /\ s.traffic.pps \in Nat \ {0}
      BY <1>2, SecondAssumption
    <2>2. NsPerSecond \div s.traffic.pps \in Nat
      BY ONLY <2>1, DivMod
    <2> QED BY <1>1, <2>2
  <1>4. /\ s.polls * tick = s.paced * ns + s.pacer.carry
        /\ s.pacer.carry \in 0 .. ns - 1
    BY <1>1, <1>2, <1>3 DEF RateKept
  <1>5. q = FixedRate(s.traffic, s.pacer, tick)
    BY DEF PacketsForTick
  <1>6. q[1] = Lesser((s.pacer.carry + tick) \div ns, b) /\ q[2].carry = (s.pacer.carry + tick) % ns
    <2>1. IsTraffic(s.traffic) /\ IsPacer(s.pacer)
      BY DEF IsNic
    <2>2. PICK tr, pa : tr = s.traffic /\ pa = s.pacer
      OBVIOUS
    <2>3. /\ tr.pps > 0 /\ NsPerSecond \div tr.pps > 0
          /\ IsTraffic(tr) /\ tr.pattern = "FixedRate" /\ IsPacer(pa)
          /\ q = FixedRate(tr, pa, tick)
      BY <1>5, <2>1, <2>2
    <2>4. LET m == NsPerSecond \div tr.pps
          IN  /\ q[1] = Lesser((pa.carry + tick) \div m, tr.batchSize)
              /\ q[2].carry = (pa.carry + tick) % m
      BY ONLY <2>3, tick \in Nat, FixedRateTypes
    <2> QED BY <1>1, <2>2, <2>4
  <1>7. PICK c \in 0 .. ns - 1 : c = s.pacer.carry
    BY <1>4
  <1>8. tick \div ns < b
    BY <1>1
  <1>9. /\ (c + tick) \div ns \in Nat /\ (c + tick) % ns \in 0 .. ns - 1
        /\ c + tick = ns * ((c + tick) \div ns) + ((c + tick) % ns)
        /\ (c + tick) \div ns <= b
    BY <1>2, <1>3, <1>8, FixedRateStep
  <1>10. PICK n \in Nat, r \in 0 .. ns - 1 :
            n = (c + tick) \div ns /\ r = (c + tick) % ns /\ c + tick = ns * n + r /\ n <= b
    BY <1>9
  <1>11. q[1] = n /\ q[2].carry = r
    BY <1>2, <1>6, <1>7, <1>10, LesserIs
  <1>12. PICK polls \in Nat, paced \in Nat : polls = s.polls /\ paced = s.paced
    BY DEF IsNic
  <1>13. polls * tick = paced * ns + c /\ c + tick = ns * n + r
    BY <1>4, <1>7, <1>10, <1>12
  <1>14. (polls + 1) * tick = (paced + n) * ns + r
    <2>1. ns \in Nat /\ r \in Nat /\ c \in Nat
      BY <1>3
    <2> QED BY <1>13, <2>1, CarryStep
  <1> QED BY <1>1, <1>11, <1>12, <1>14

(* Nor does a burst lose any.                                              *)
LEMMA PacedBurst ==
    ASSUME NEW s, NEW t, NEW tick \in Nat, NEW q,
           IsNic(s), BurstKept(s), q \in PacketsForTick(s.traffic, s.pacer, tick),
           t.traffic = s.traffic, t.pacer = q[2], t.paced = s.paced + q[1]
    PROVE  BurstKept(t)
  <1> SUFFICES ASSUME s.traffic.pattern = "Burst", s.traffic.burstSize > 0
               PROVE  (t.paced + t.pacer.burstRemaining) % s.traffic.burstSize = 0
    BY DEF BurstKept
  <1>1. PICK b : b = s.traffic.burstSize /\ b \in Nat \ {0}
    BY DEF IsNic, IsTraffic
  <1>2. PICK n \in Nat, x \in Nat, y \in Nat, paced \in Nat :
           /\ n = q[1] /\ x = s.pacer.burstRemaining /\ y = q[2].burstRemaining
           /\ paced = s.paced
           /\ \/ n + y = x
              \/ x = 0 /\ n + y = b
    <2>1. q = Burst(s.traffic, s.pacer, tick)
      BY DEF PacketsForTick
    <2>2. /\ q[1] \in Nat /\ IsPacer(q[2])
          /\ \/ q[1] + q[2].burstRemaining = s.pacer.burstRemaining
             \/ /\ s.pacer.burstRemaining = 0
                /\ q[1] + q[2].burstRemaining = s.traffic.burstSize
      <3>1. IsTraffic(s.traffic) /\ IsPacer(s.pacer)
        BY DEF IsNic
      <3>2. PICK tr, pa : tr = s.traffic /\ pa = s.pacer
        OBVIOUS
      <3>3. /\ IsTraffic(tr) /\ tr.pattern = "Burst" /\ IsPacer(pa)
            /\ q = Burst(tr, pa, tick)
        BY <2>1, <3>1, <3>2
      <3>4. /\ q[1] \in Nat /\ IsPacer(q[2])
            /\ \/ q[1] + q[2].burstRemaining = pa.burstRemaining
               \/ /\ pa.burstRemaining = 0
                  /\ q[1] + q[2].burstRemaining = tr.burstSize
        BY ONLY <3>3, tick \in Nat, BurstTypes
      <3> QED BY <3>2, <3>4
    <2> QED BY <1>1, <2>2 DEF IsNic, IsPacer
  <1>3. (paced + x) % b = 0
    BY <1>1, <1>2 DEF BurstKept
  <1>4. (paced + n + y) % b = 0
    <2>1. CASE n + y = x
      <3>1. paced + n + y = paced + x
        BY <2>1
      <3> QED BY <1>3, <3>1
    <2>2. CASE x = 0 /\ n + y = b
      <3>1. paced % b = 0
        <4>1. paced + x = paced
          BY <2>2
        <4> QED BY <1>3, <4>1
      <3>2. b = b * 1 + 0 /\ 0 \in 0 .. b - 1
        BY <1>1
      <3>3. b % b = 0
        BY <1>1, <3>2, ModUnique
      <3>4. (paced + b) % b = 0
        BY <1>1, <3>1, <3>3, ModPlusMultiple
      <3>5. paced + n + y = paced + b
        BY <2>2
      <3> QED BY <3>4, <3>5
    <2> QED BY <1>2, <2>1, <2>2
  <1> QED BY <1>1, <1>2, <1>4

(* A source between two polls, at this tick.                               *)
GoodSource(s, tick) == IsSource(s) /\ Rated(s, tick)

(* A poll paces a NIC and keeps its counters.                              *)
LEMMA PacedSource ==
    ASSUME NEW s, NEW tick \in Nat, GoodSource(s, tick), s.kind = "nic",
           NEW p \in Paced(s, tick)
    PROVE  p.count \in Nat /\ GoodSource(p.source, tick) /\ SameCounts(s, p.source)
  <1>1. PICK q \in PacketsForTick(s.traffic, s.pacer, tick) :
           p = [count |-> q[1],
                source |-> [s EXCEPT !.pacer = q[2], !.paced = @ + q[1], !.polls = @ + 1]]
    BY DEF Paced
  <1>2. IsNic(s) /\ Counts(s) /\ Rated(s, tick)
    BY DEF GoodSource, IsSource
  <1>3. q[1] \in Nat /\ IsPacer(q[2])
    BY <1>2, PacketsTypes DEF IsNic
  <1>4. PICK t : t = [s EXCEPT !.pacer = q[2], !.paced = @ + q[1], !.polls = @ + 1]
    OBVIOUS
  <1>5. p.count = q[1] /\ p.source = t
    BY <1>1, <1>4
  <1>6. {"traffic", "pacer", "paced", "polls"} \subseteq DOMAIN s /\ Common \subseteq DOMAIN s
    BY <1>2 DEF IsNic, Counts
  <1>7. /\ DOMAIN t = DOMAIN s
        /\ t.traffic = s.traffic /\ t.pacer = q[2] /\ t.paced = s.paced + q[1]
        /\ t.polls = s.polls + 1
    BY <1>4, <1>6
  <1>8. SameCounts(s, t) /\ t.fault = s.fault
    BY <1>4, <1>6 DEF Common, SameCounts
  <1>9. IsNic(t)
    BY <1>2, <1>3, <1>6, <1>7 DEF IsNic
  <1>10. Counts(t)
    BY <1>2, <1>6, <1>7, <1>8 DEF Counts, SameCounts
  <1>11. RateKept(t, tick) /\ BurstKept(t)
    <2>1. RateKept(s, tick) /\ BurstKept(s)
      BY <1>2 DEF Rated
    <2> QED BY <1>2, <1>7, <2>1, PacedRate, PacedBurst
  <1>12. t.kind = "nic"
    BY <1>8 DEF SameCounts
  <1> QED BY <1>3, <1>5, <1>8, <1>9, <1>10, <1>11, <1>12 DEF GoodSource, IsSource, Rated

(* A source as it is built, and as init leaves it.                         *)
LEMMA NewSourceGood ==
    ASSUME NEW s, IsNewSource(s), NEW tick \in Nat
    PROVE  GoodSource(s, tick)
  <1>1. IsSource(s)
    BY NewSourceTypes
  <1>2. CASE s.kind = "nic"
    <2>1. IsTraffic(s.traffic) /\ s = NewNic(s.name, s.traffic, s.fault)
      BY <1>2 DEF IsNewSource
    <2>2. PICK n, t, f : n = s.name /\ t = s.traffic /\ f = s.fault
      OBVIOUS
    <2>3. s = NewNic(n, t, f)
      BY <2>1, <2>2
    <2>4. s.pacer = NewPacer(t) /\ s.paced = 0 /\ s.polls = 0
      BY <2>3 DEF NewNic
    <2>5. Rated(s, tick)
      BY <2>1, <2>2, <2>4, FreshIsRated
    <2> QED BY <1>1, <2>5 DEF GoodSource
  <1>3. CASE s.kind # "nic"
    BY <1>1, <1>3 DEF GoodSource, Rated
  <1> QED BY <1>2, <1>3

(* init of a source: its counters start again.                             *)
LEMMA StartedGood ==
    ASSUME NEW s, NEW tick \in Nat, GoodSource(s, tick)
    PROVE  /\ GoodSource(Started(s), tick) /\ NoCounts(Started(s)) /\ Started(s).initialized
           /\ Started(s).kind = s.kind /\ Started(s).name = s.name
  <1>1. IsSource(s)
    BY DEF GoodSource
  <1>2. PICK t : t = Started(s)
    OBVIOUS
  <1>3. IsSource(t) /\ NoCounts(t) /\ t.initialized /\ t.kind = s.kind /\ t.name = s.name
    BY <1>1, <1>2, StartedSource
  <1>4. CASE s.kind = "nic"
    <2>1. IsNic(s) /\ Common \subseteq DOMAIN s
      BY <1>1, <1>4 DEF IsSource, Counts
    <2>2. PICK r : r = Reset(s)
      OBVIOUS
    <2>3. t = [r EXCEPT !.pacer = NewPacer(s.traffic), !.paced = 0, !.polls = 0]
      BY <1>2, <1>4, <2>2 DEF Started
    <2>4. {"traffic", "pacer", "paced", "polls"} \subseteq DOMAIN r /\ r.traffic = s.traffic
      BY <2>1, <2>2 DEF Reset, IsNic
    <2>5. /\ t.pacer = NewPacer(s.traffic) /\ t.paced = 0 /\ t.polls = 0
          /\ t.traffic = s.traffic
      BY <2>3, <2>4
    <2>6. IsTraffic(s.traffic)
      BY <2>1 DEF IsNic
    <2>7. Rated(t, tick)
      BY <2>5, <2>6, FreshIsRated
    <2> QED BY <1>2, <1>3, <2>7 DEF GoodSource
  <1>5. CASE s.kind # "nic"
    BY <1>2, <1>3, <1>5 DEF GoodSource, Rated
  <1> QED BY <1>4, <1>5

(* A source that differs in the common fields only is as good.             *)
LEMMA CommonChanged ==
    ASSUME NEW s, NEW t, NEW tick, GoodSource(s, tick), DOMAIN t = DOMAIN s,
           \A f \in DOMAIN s : f \notin Common => t[f] = s[f],
           t.kind = s.kind, Counts(t)
    PROVE  GoodSource(t, tick)
  <1>1. CASE s.kind = "nic"
    <2>1. IsNic(s) /\ Rated(s, tick)
      BY <1>1 DEF GoodSource, IsSource
    <2>2. /\ {"traffic", "pacer", "paced", "polls"} \subseteq DOMAIN s
          /\ {"traffic", "pacer", "paced", "polls"} \cap Common = {}
      BY <2>1 DEF IsNic, Common
    <2>3. t.traffic = s.traffic /\ t.pacer = s.pacer /\ t.paced = s.paced /\ t.polls = s.polls
      BY <2>2
    <2>4. IsNic(t)
      BY <2>1, <2>3 DEF IsNic
    <2>5. Rated(t, tick)
      BY <2>1, <2>3 DEF Rated, RateKept, BurstKept
    <2> QED BY <1>1, <2>4, <2>5 DEF GoodSource, IsSource
  <1>2. CASE s.kind # "nic"
    <2>1. IsPcap(s) /\ s.kind = "pcap"
      BY <1>2 DEF GoodSource, IsSource
    <2>2. /\ {"capture", "cursor"} \subseteq DOMAIN s
          /\ {"capture", "cursor"} \cap Common = {}
      BY <2>1 DEF IsPcap, Common
    <2>3. t.capture = s.capture /\ t.cursor = s.cursor
      BY <2>2
    <2>4. IsPcap(t)
      BY <2>1, <2>3 DEF IsPcap
    <2> QED BY <2>1, <2>4 DEF GoodSource, IsSource, Rated
  <1> QED BY <1>1, <1>2

(* The source keeps its counters.                                          *)
KeepsCounts(s, t) ==
    /\ t.kind = s.kind /\ t.name = s.name
    /\ t.generated = s.generated /\ t.dropped = s.dropped /\ t.corrupted = s.corrupted

(* shutdown of a source keeps its counters.                                *)
LEMMA StoppedGood ==
    ASSUME NEW s, NEW tick, GoodSource(s, tick)
    PROVE  GoodSource(Stopped(s), tick) /\ KeepsCounts(s, Stopped(s)) /\ ~Stopped(s).initialized
  <1>1. Counts(s)
    BY DEF GoodSource, IsSource
  <1>2. PICK t : t = Stopped(s)
    OBVIOUS
  <1>3. DOMAIN t = DOMAIN s /\ \A f \in DOMAIN s : f # "initialized" => t[f] = s[f]
    BY <1>2 DEF Stopped
  <1>4. Common \subseteq DOMAIN s /\ "initialized" \in DOMAIN s
    BY <1>1 DEF Counts, Common
  <1>5. ~t.initialized
    BY <1>2, <1>4 DEF Stopped
  <1>6. KeepsCounts(s, t) /\ t.fault = s.fault /\ t.spikeNs = s.spikeNs /\ t.kind = s.kind
    BY <1>3, <1>4 DEF Common, KeepsCounts
  <1>7. Counts(t)
    BY <1>1, <1>3, <1>6 DEF Counts, KeepsCounts
  <1>8. \A f \in DOMAIN s : f \notin Common => t[f] = s[f]
    BY <1>3 DEF Common
  <1> QED BY <1>2, <1>3, <1>5, <1>6, <1>7, <1>8, CommonChanged

(* A hot swap of the fault keeps a source good, and its counters.          *)
LEMMA FaultGood ==
    ASSUME NEW s, NEW tick, GoodSource(s, tick), NEW fault, IsFault(fault)
    PROVE  GoodSource(WithFault(s, fault), tick) /\ SameCounts(s, WithFault(s, fault))
  <1>1. Counts(s)
    BY DEF GoodSource, IsSource
  <1>2. PICK t : t = WithFault(s, fault)
    OBVIOUS
  <1>3. DOMAIN t = DOMAIN s /\ \A f \in DOMAIN s : f # "fault" => t[f] = s[f]
    BY <1>2 DEF WithFault
  <1>4. Common \subseteq DOMAIN s /\ "fault" \in DOMAIN s
    BY <1>1 DEF Counts, Common
  <1>5. t.fault = fault
    BY <1>2, <1>4 DEF WithFault
  <1>6. SameCounts(s, t) /\ t.kind = s.kind
    BY <1>3, <1>4 DEF Common, SameCounts
  <1>7. Counts(t)
    BY <1>1, <1>3, <1>5, <1>6 DEF Counts, SameCounts
  <1>8. \A f \in DOMAIN s : f \notin Common => t[f] = s[f]
    BY <1>3 DEF Common
  <1> QED BY <1>2, <1>3, <1>6, <1>7, <1>8, CommonChanged

(* A hot swap of the traffic keeps a source good, and its counters.        *)
LEMMA TrafficGood ==
    ASSUME NEW s, NEW tick \in Nat, GoodSource(s, tick), NEW traffic, IsTraffic(traffic)
    PROVE  /\ GoodSource(WithTraffic(s, traffic), tick)
           /\ SameCounts(s, WithTraffic(s, traffic))
  <1>1. Counts(s) /\ IsSource(s)
    BY DEF GoodSource, IsSource
  <1>2. CASE s.kind = "pcap"
    <2>1. WithTraffic(s, traffic) = s
      BY <1>2 DEF WithTraffic
    <2> QED BY <2>1 DEF SameCounts
  <1>3. CASE s.kind # "pcap"
    <2>1. IsNic(s) /\ s.kind = "nic"
      BY <1>1, <1>3 DEF IsSource
    <2>2. PICK t : t = [s EXCEPT !.traffic = traffic, !.pacer = NewPacer(traffic),
                                 !.paced = 0, !.polls = 0]
      OBVIOUS
    <2>3. WithTraffic(s, traffic) = t
      BY <1>3, <2>2 DEF WithTraffic
    <2>4. {"traffic", "pacer", "paced", "polls"} \subseteq DOMAIN s /\ Common \subseteq DOMAIN s
      BY <1>1, <2>1 DEF IsNic, Counts
    <2>5. /\ DOMAIN t = DOMAIN s /\ t.traffic = traffic /\ t.pacer = NewPacer(traffic)
          /\ t.paced = 0 /\ t.polls = 0
      BY <2>2, <2>4
    <2>6. SameCounts(s, t) /\ t.fault = s.fault
      BY <2>2, <2>4 DEF Common, SameCounts
    <2>7. IsNic(t)
      BY <2>4, <2>5, NewPacerTypes DEF IsNic
    <2>8. Counts(t)
      BY <1>1, <2>5, <2>6 DEF Counts, SameCounts
    <2>9. Rated(t, tick)
      BY <2>5, FreshIsRated
    <2>10. t.kind = "nic"
      BY <2>1, <2>6 DEF SameCounts
    <2> QED BY <2>3, <2>6, <2>7, <2>8, <2>9, <2>10 DEF GoodSource, IsSource
  <1> QED BY <1>2, <1>3

(* A packet is counted, once as made and at most once as dropped.          *)
LEMMA CountedGood ==
    ASSUME NEW s, NEW tick, GoodSource(s, tick), NEW fate
    PROVE  /\ GoodSource(Counted(s, fate), tick)
           /\ Counted(s, fate).kind = s.kind /\ Counted(s, fate).name = s.name
           /\ Counted(s, fate).initialized = s.initialized
           /\ Counted(s, fate).generated = s.generated + 1
           /\ Counted(s, fate).dropped = s.dropped + (IF "drop" \in fate THEN 1 ELSE 0)
  <1>1. Counts(s)
    BY DEF GoodSource, IsSource
  <1>2. Common \subseteq DOMAIN s
    BY <1>1 DEF Counts
  <1>3. PICK t, d, c, n : /\ t = Counted(s, fate)
                          /\ d = IF "drop" \in fate THEN s.dropped + 1 ELSE s.dropped
                          /\ c = IF "corrupt" \in fate THEN s.corrupted + 1 ELSE s.corrupted
                          /\ n = IF "spike" \in fate THEN s.spikeNs + s.fault.spikeNs ELSE s.spikeNs
    OBVIOUS
  <1>4. t = [s EXCEPT !.generated = s.generated + 1, !.dropped = d, !.corrupted = c, !.spikeNs = n]
    BY <1>3 DEF Counted
  <1>5. d \in Nat /\ c \in Nat /\ n \in Nat
    BY <1>1, <1>3 DEF Counts, IsFault
  <1>6. /\ DOMAIN t = DOMAIN s /\ t.generated = s.generated + 1 /\ t.dropped = d
        /\ t.corrupted = c /\ t.spikeNs = n
    BY <1>2, <1>4 DEF Common
  <1>7. t.kind = s.kind /\ t.name = s.name /\ t.fault = s.fault /\ t.initialized = s.initialized
    BY <1>2, <1>4 DEF Common
  <1>8. Counts(t)
    BY <1>1, <1>5, <1>6, <1>7 DEF Counts
  <1>9. \A f \in DOMAIN s : f \notin Common => t[f] = s[f]
    BY <1>4 DEF Common
  <1>10. GoodSource(t, tick)
    BY <1>6, <1>7, <1>8, <1>9, CommonChanged
  <1>11. d = s.dropped + (IF "drop" \in fate THEN 1 ELSE 0)
    BY <1>1, <1>3 DEF Counts
  <1> QED BY <1>3, <1>6, <1>7, <1>10, <1>11

(* take_spike_ns.                                                          *)
SpikeTaken(s) == [s EXCEPT !.spikeNs = 0]

(* take_spike_ns keeps a source good, and its counters.                    *)
LEMMA SpikeGood ==
    ASSUME NEW s, NEW tick, GoodSource(s, tick)
    PROVE  /\ GoodSource(SpikeTaken(s), tick) /\ KeepsCounts(s, SpikeTaken(s))
           /\ SpikeTaken(s).initialized = s.initialized
           /\ s.spikeNs \in Nat
  <1>1. Counts(s)
    BY DEF GoodSource, IsSource
  <1>2. PICK t : t = SpikeTaken(s)
    OBVIOUS
  <1>3. DOMAIN t = DOMAIN s /\ \A f \in DOMAIN s : f # "spikeNs" => t[f] = s[f]
    BY <1>2 DEF SpikeTaken
  <1>4. Common \subseteq DOMAIN s /\ "spikeNs" \in DOMAIN s
    BY <1>1 DEF Counts, Common
  <1>5. t.spikeNs = 0
    BY <1>2, <1>4 DEF SpikeTaken
  <1>6. KeepsCounts(s, t) /\ t.fault = s.fault /\ t.kind = s.kind /\ t.initialized = s.initialized
    BY <1>3, <1>4 DEF Common, KeepsCounts
  <1>7. Counts(t)
    BY <1>1, <1>3, <1>5, <1>6 DEF Counts, KeepsCounts
  <1>8. \A f \in DOMAIN s : f \notin Common => t[f] = s[f]
    BY <1>3 DEF Common
  <1>9. s.spikeNs \in Nat
    BY <1>1 DEF Counts
  <1> QED BY <1>2, <1>3, <1>6, <1>7, <1>8, <1>9, CommonChanged

(* What a poll of a capture leaves alone.                                  *)
SameCapture(s, t) ==
    /\ DOMAIN t = DOMAIN s /\ t.capture = s.capture
    /\ \A f \in Common : t[f] = s[f]

(* A capture source at another place of its capture is good.               *)
LEMMA SameCaptureGood ==
    ASSUME NEW s, NEW tick, GoodSource(s, tick), s.kind = "pcap",
           NEW t, SameCapture(s, t), t.cursor \in Nat
    PROVE  GoodSource(t, tick) /\ SameCounts(s, t)
  <1>1. Counts(s) /\ IsPcap(s)
    BY DEF GoodSource, IsSource
  <1>2. SameCounts(s, t) /\ t.fault = s.fault
    BY DEF SameCapture, Common, SameCounts
  <1>3. Counts(t)
    BY <1>1, <1>2 DEF Counts, SameCounts, SameCapture
  <1>4. IsPcap(t)
    BY <1>1 DEF IsPcap, SameCapture
  <1>5. t.kind = "pcap"
    BY <1>2 DEF SameCounts
  <1> QED BY <1>2, <1>3, <1>4, <1>5 DEF GoodSource, IsSource, Rated

(* A looped capture starts again.                                          *)
LEMMA RewoundGood ==
    ASSUME NEW s, NEW tick, GoodSource(s, tick), s.kind = "pcap"
    PROVE  SameCapture(s, Rewound(s)) /\ Rewound(s).cursor \in Nat
  <1>1. /\ Common \subseteq DOMAIN s /\ s.cursor \in Nat
        /\ {"capture", "cursor", "replay"} \subseteq DOMAIN s
    BY DEF GoodSource, IsSource, Counts, IsPcap
  <1>2. PICK t, r : t = Rewound(s) /\ r = NewReplay(s.replay.mode)
    OBVIOUS
  <1>3. CASE t = s
    BY <1>1, <1>2, <1>3 DEF SameCapture
  <1>4. CASE t # s
    <2>1. t = [s EXCEPT !.cursor = 0, !.replay = r]
      BY <1>2, <1>4 DEF Rewound
    <2>2. SameCapture(s, t) /\ t.cursor = 0
      BY <1>1, <2>1 DEF SameCapture, Common
    <2> QED BY <1>2, <2>2
  <1> QED BY <1>3, <1>4

(* The replay of a capture is asked, and its next packet taken.            *)
LEMMA AskedGood ==
    ASSUME NEW s, NEW tick, GoodSource(s, tick), s.kind = "pcap", NEW time
    PROVE  /\ GoodSource(PcapAsked(s, time), tick) /\ SameCounts(s, PcapAsked(s, time))
           /\ GoodSource(PcapTaken(s, time), tick) /\ SameCounts(s, PcapTaken(s, time))
  <1>1. PICK r : r = Rewound(s)
    OBVIOUS
  <1>2. SameCapture(s, r) /\ r.cursor \in Nat
    BY <1>1, RewoundGood
  <1>3. /\ Common \subseteq DOMAIN r
        /\ {"capture", "cursor", "replay", "exhausted"} \subseteq DOMAIN r
    BY <1>2 DEF GoodSource, IsSource, Counts, IsPcap, SameCapture
  <1>4. PICK t, y : /\ t = PcapAsked(s, time)
                    /\ y = AfterReadyAt(r.replay, r.capture[r.cursor + 1].ts, time)
    OBVIOUS
  <1>5. t = [r EXCEPT !.exhausted = TRUE] \/ t = [r EXCEPT !.replay = y]
    BY <1>1, <1>4 DEF PcapAsked
  <1>6. SameCapture(r, t) /\ t.cursor = r.cursor
    <2>1. CASE t = [r EXCEPT !.exhausted = TRUE]
      BY <1>3, <2>1 DEF SameCapture, Common
    <2>2. CASE t = [r EXCEPT !.replay = y]
      BY <1>3, <2>2 DEF SameCapture, Common
    <2> QED BY <1>5, <2>1, <2>2
  <1>7. SameCapture(s, t) /\ t.cursor \in Nat
    BY <1>2, <1>6 DEF SameCapture
  <1>8. PICK u : u = [t EXCEPT !.cursor = t.cursor + 1]
    OBVIOUS
  <1>9. u = PcapTaken(s, time)
    BY <1>4, <1>8 DEF PcapTaken
  <1>10. SameCapture(t, u) /\ u.cursor = t.cursor + 1
    <2>1. DOMAIN t = DOMAIN r
      BY <1>6 DEF SameCapture
    <2> QED BY <1>3, <1>8, <2>1 DEF SameCapture, Common
  <1>11. SameCapture(s, u) /\ u.cursor \in Nat
    BY <1>7, <1>10 DEF SameCapture
  <1> QED BY <1>4, <1>7, <1>9, <1>11, SameCaptureGood

(* The size of a packet that is due.                                       *)
LEMMA SizeOfPacket ==
    ASSUME NEW s, NEW tick, GoodSource(s, tick), s.kind = "pcap", NEW time,
           PcapReady(s, time)
    PROVE  PcapSize(s) \in Nat
  <1>1. PICK r : r = Rewound(s)
    OBVIOUS
  <1>2. SameCapture(s, r) /\ r.cursor \in Nat
    BY <1>1, RewoundGood
  <1>3. ~AtEnd(r)
    BY <1>1 DEF PcapReady
  <1>4. IsCapture(r.capture)
    BY <1>2 DEF GoodSource, IsSource, IsPcap, SameCapture
  <1>5. r.cursor + 1 \in DOMAIN r.capture
    BY <1>2, <1>3, <1>4 DEF AtEnd, IsCapture, IsList
  <1> QED BY <1>1, <1>4, <1>5 DEF PcapSize, IsCapture

-----------------------------------------------------------------------------
(* The timeline                                                            *)

(* Functions on 1 .. n are lists of that length.                           *)
LEMMA ListOf ==
    ASSUME NEW n \in Nat, NEW f, f = [i \in 1 .. n |-> f[i]]
    PROVE  IsList(f) /\ Len(f) = n
  <1>1. f \in Seq({f[i] : i \in 1 .. n})
    OBVIOUS
  <1>2. Len(f) = n
    BY <1>1
  <1> QED BY <1>2 DEF IsList

(* A list is a sequence.                                                   *)
LEMMA ListIs ==
    ASSUME NEW s, IsList(s)
    PROVE  s \in Seq({s[i] : i \in 1 .. Len(s)}) /\ DOMAIN s = 1 .. Len(s) /\ Len(s) \in Nat
  <1>1. Len(s) \in Nat /\ s = [i \in 1 .. Len(s) |-> s[i]]
    BY DEF IsList
  <1>2. PICK n \in Nat : n = Len(s)
    BY <1>1
  <1>3. s = [i \in 1 .. n |-> s[i]]
    BY <1>1, <1>2
  <1>4. s \in Seq({s[i] : i \in 1 .. n})
    BY <1>3
  <1>5. DOMAIN s = 1 .. n
    BY <1>3
  <1> QED BY <1>2, <1>4, <1>5

GoodSources(srcs, tick) == IsList(srcs) /\ \A k \in DOMAIN srcs : GoodSource(srcs[k], tick)
GoodBudgets(b) == IsList(b) /\ \A i \in DOMAIN b : b[i] \in Nat \ {0}

SameSources(srcs, new) ==
    Len(new) = Len(srcs) /\ \A k \in 1 .. Len(srcs) : SameCounts(srcs[k], new[k])

(* The sources and the budgets after some actions.                         *)
GoodParts(parts, srcs, buds, tick) ==
    /\ DOMAIN parts = {"sources", "budgets"}
    /\ GoodSources(parts.sources, tick) /\ SameSources(srcs, parts.sources)
    /\ GoodBudgets(parts.budgets) /\ Len(parts.budgets) = Len(buds)

(* Counters that are kept twice are kept.                                  *)
LEMMA SameTwice ==
    ASSUME NEW r, NEW s, NEW t, SameCounts(r, s), SameCounts(s, t)
    PROVE  SameCounts(r, t)
  BY DEF SameCounts

(* An action of the timeline keeps the sources good, and their counters.   *)
LEMMA ActOnSources ==
    ASSUME NEW srcs, NEW tick, GoodSources(srcs, tick), NEW new, NEW old, SameSources(old, srcs),
           new = [k \in DOMAIN srcs |-> new[k]],
           \A k \in DOMAIN srcs : GoodSource(new[k], tick) /\ SameCounts(srcs[k], new[k])
    PROVE  GoodSources(new, tick) /\ SameSources(old, new)
  <1>1. DOMAIN srcs = 1 .. Len(srcs) /\ Len(srcs) \in Nat
    BY ListIs DEF GoodSources
  <1>2. new = [k \in 1 .. Len(srcs) |-> new[k]] /\ DOMAIN new = 1 .. Len(srcs)
    BY <1>1
  <1>3. IsList(new) /\ Len(new) = Len(srcs)
    BY <1>1, <1>2, ListOf
  <1>4. GoodSources(new, tick)
    BY <1>1, <1>2, <1>3 DEF GoodSources
  <1>5. SameSources(old, new)
    <2>1. \A k \in 1 .. Len(old) : SameCounts(old[k], srcs[k]) /\ SameCounts(srcs[k], new[k])
      BY <1>1 DEF SameSources
    <2>2. \A k \in 1 .. Len(old) : SameCounts(old[k], new[k])
      BY <2>1, SameTwice
    <2> QED BY <1>3, <2>2 DEF SameSources
  <1> QED BY <1>4, <1>5

(* One action of the timeline.                                             *)
LEMMA ActGood ==
    ASSUME NEW parts, NEW srcs, NEW buds, NEW tick \in Nat, GoodParts(parts, srcs, buds, tick),
           NEW action, IsAction(action)
    PROVE  GoodParts(Act(parts, action), srcs, buds, tick)
  <1>1. PICK s, b : s = parts.sources /\ b = parts.budgets
    OBVIOUS
  <1>2. /\ DOMAIN parts = {"sources", "budgets"}
        /\ GoodSources(s, tick) /\ SameSources(srcs, s) /\ GoodBudgets(b) /\ Len(b) = Len(buds)
    BY <1>1 DEF GoodParts
  <1>3. ASSUME NEW new, GoodSources(new, tick), SameSources(srcs, new),
               Act(parts, action) = [parts EXCEPT !.sources = new]
        PROVE  GoodParts(Act(parts, action), srcs, buds, tick)
    BY <1>1, <1>2, <1>3 DEF GoodParts
  <1>4. CASE action.kind = "traffic" /\ IsTraffic(action.value)
    <2>1. PICK new : new = [k \in DOMAIN s |->
                 IF s[k].name = action.target THEN WithTraffic(s[k], action.value) ELSE s[k]]
      OBVIOUS
    <2>2. Act(parts, action) = [parts EXCEPT !.sources = new]
      BY <1>1, <1>2, <1>4, <2>1 DEF Act
    <2>3. ASSUME NEW k \in DOMAIN s
          PROVE  GoodSource(new[k], tick) /\ SameCounts(s[k], new[k])
      <3>1. GoodSource(s[k], tick) /\ SameCounts(s[k], s[k])
        BY <1>2 DEF GoodSources, SameCounts
      <3>2. new[k] = WithTraffic(s[k], action.value) \/ new[k] = s[k]
        BY <2>1
      <3> QED BY <1>4, <3>1, <3>2, TrafficGood
    <2>4. new = [k \in DOMAIN s |-> new[k]]
      BY <2>1
    <2> QED BY <1>2, <1>3, <2>2, <2>3, <2>4, ActOnSources
  <1>5. CASE action.kind = "fault" /\ IsFault(action.value)
    <2>1. PICK new : new = [k \in DOMAIN s |->
                 IF s[k].name = action.target THEN WithFault(s[k], action.value) ELSE s[k]]
      OBVIOUS
    <2>2. Act(parts, action) = [parts EXCEPT !.sources = new]
      BY <1>1, <1>2, <1>5, <2>1 DEF Act
    <2>3. ASSUME NEW k \in DOMAIN s
          PROVE  GoodSource(new[k], tick) /\ SameCounts(s[k], new[k])
      <3>1. GoodSource(s[k], tick) /\ SameCounts(s[k], s[k])
        BY <1>2 DEF GoodSources, SameCounts
      <3>2. new[k] = WithFault(s[k], action.value) \/ new[k] = s[k]
        BY <2>1
      <3> QED BY <1>5, <3>1, <3>2, FaultGood
    <2>4. new = [k \in DOMAIN s |-> new[k]]
      BY <2>1
    <2> QED BY <1>2, <1>3, <2>2, <2>3, <2>4, ActOnSources
  <1>6. CASE action.kind = "slow" /\ action.value \in Nat
    <2>1. PICK new : new = [c \in DOMAIN b |->
                 IF plan.consumers[c].name = action.target THEN Greater(action.value, 1) ELSE b[c]]
      OBVIOUS
    <2>2. Act(parts, action) = [parts EXCEPT !.budgets = new]
      BY <1>1, <1>2, <1>6, <2>1 DEF Act
    <2>3. \A c \in DOMAIN b : new[c] \in Nat \ {0}
      BY <1>2, <1>6, <2>1 DEF GoodBudgets, Greater
    <2>4. DOMAIN b = 1 .. Len(b) /\ Len(b) \in Nat
      BY <1>2, ListIs DEF GoodBudgets
    <2>5. new = [c \in 1 .. Len(b) |-> new[c]] /\ DOMAIN new = 1 .. Len(b)
      BY <2>1, <2>4
    <2>6. GoodBudgets(new) /\ Len(new) = Len(b)
      BY <2>3, <2>4, <2>5, ListOf DEF GoodBudgets
    <2> QED BY <1>1, <1>2, <2>2, <2>6 DEF GoodParts
  <1> QED BY <1>4, <1>5, <1>6 DEF IsAction

(* Any number of them.                                                     *)
LEMMA ActsGood ==
    ASSUME NEW parts, NEW srcs, NEW buds, NEW tick \in Nat, GoodParts(parts, srcs, buds, tick),
           NEW seq, NEW n \in Nat, DOMAIN seq = 1 .. n, \A i \in 1 .. n : IsAction(seq[i])
    PROVE  GoodParts(FoldLeft(Act, parts, seq), srcs, buds, tick)
  <1>1. PICK p : FoldSteps(p, "act", 0, parts, seq, n) /\ FoldLeft(Act, parts, seq) = p[n]
    BY ActFold
  <1> DEFINE T == {k \in Nat : k <= n => GoodParts(p[k], srcs, buds, tick)}
  <1>2. 0 \in T
    BY <1>1 DEF FoldSteps
  <1>3. ASSUME NEW k \in Nat, k \in T PROVE k + 1 \in T
    <2> SUFFICES ASSUME k + 1 <= n PROVE GoodParts(p[k + 1], srcs, buds, tick)
      OBVIOUS
    <2>1. k + 1 \in 1 .. n /\ GoodParts(p[k], srcs, buds, tick)
      BY <1>3
    <2>2. p[k + 1] = Apply("act", 0, p[(k + 1) - 1], seq[k + 1])
      BY <1>1, <2>1 DEF FoldSteps
    <2>3. p[k + 1] = Act(p[k], seq[k + 1])
      BY <2>2 DEF Apply
    <2> QED BY <2>1, <2>3, ActGood
  <1>4. n \in T
    <2> HIDE DEF T
    <2> QED BY <1>2, <1>3, Induction
  <1> QED BY <1>1, <1>4

(* The actions that are due are some of the timeline.                      *)
LEMMA DueIs ==
    ASSUME IsList(Timeline), NEW t
    PROVE  Due(t) \in 0 .. Len(Timeline)
  <1>1. DOMAIN Timeline = 1 .. Len(Timeline) /\ Len(Timeline) \in Nat
    BY ListIs
  <1>2. PICK n \in Nat : n = Len(Timeline)
    BY <1>1
  <1>3. PICK D : D = {i \in DOMAIN Timeline : Timeline[i].at <= t}
    OBVIOUS
  <1>4. D \in SUBSET (1 .. n)
    BY <1>1, <1>2, <1>3
  <1>5. IsFiniteSet(1 .. n) /\ Cardinality(1 .. n) = n
    BY FS_Interval
  <1>6. IsFiniteSet(D) /\ Cardinality(D) <= n
    BY <1>4, <1>5, FS_Subset
  <1>7. Cardinality(D) \in Nat
    BY <1>6, FS_CardinalityType
  <1>8. Due(t) = Cardinality(D)
    BY <1>3 DEF Due
  <1> QED BY <1>2, <1>6, <1>7, <1>8

(* apply_timeline changes settings and no counter.                         *)
LEMMA TimelineApplied ==
    ASSUME NEW srcs, NEW tick \in Nat, GoodSources(srcs, tick), GoodBudgets(budgets),
           IsPlan(plan), NEW from \in Nat, NEW t, ApplyTimeline(srcs, from, t)
    PROVE  /\ GoodSources(sources', tick) /\ SameSources(srcs, sources')
           /\ GoodBudgets(budgets') /\ Len(budgets') = Len(budgets)
           /\ timelineIdx' \in Nat
  <1>1. IsList(Timeline) /\ \A i \in DOMAIN Timeline : IsAction(Timeline[i])
    BY DEF IsPlan, Timeline
  <1>2. DOMAIN Timeline = 1 .. Len(Timeline) /\ Len(Timeline) \in Nat
    BY <1>1, ListIs
  <1>3. PICK tl, d : tl = Timeline /\ d = Due(t) /\ d \in 0 .. Len(tl)
    BY <1>1, DueIs
  <1>4. PICK seq : seq = SubSeq(tl, from + 1, d)
    OBVIOUS
  <1>5. PICK S : S = {tl[i] : i \in 1 .. Len(tl)}
    OBVIOUS
  <1>6. \A i \in from + 1 .. d : tl[i] \in S
    BY <1>2, <1>3, <1>5
  <1>7. /\ seq \in Seq(S) /\ Len(seq) = (IF from + 1 <= d THEN d - (from + 1) + 1 ELSE 0)
        /\ \A i \in 1 .. d - (from + 1) + 1 : seq[i] = tl[from + 1 + i - 1]
    BY <1>2, <1>3, <1>4, <1>6, SubSeqProperties
  <1>8. PICK n \in Nat : n = Len(seq)
    BY <1>7
  <1>9. DOMAIN seq = 1 .. n
    BY <1>7, <1>8
  <1>10. \A i \in 1 .. n : IsAction(seq[i])
    <2>1. \A i \in 1 .. n : seq[i] \in S
      BY <1>7, <1>8
    <2>2. \A a \in S : IsAction(a)
      BY <1>1, <1>2, <1>3, <1>5
    <2> QED BY <2>1, <2>2
  <1>11. PICK parts : parts = [sources |-> srcs, budgets |-> budgets]
    OBVIOUS
  <1>12. GoodParts(parts, srcs, budgets, tick)
    <2>1. SameSources(srcs, srcs)
      BY DEF SameSources, SameCounts
    <2> QED BY <1>11, <2>1 DEF GoodParts
  <1>13. PICK after : after = FoldLeft(Act, parts, seq)
    OBVIOUS
  <1>14. GoodParts(after, srcs, budgets, tick)
    BY <1>9, <1>10, <1>12, <1>13, ActsGood
  <1>15. sources' = after.sources /\ budgets' = after.budgets
    BY <1>3, <1>4, <1>11, <1>13 DEF ApplyTimeline
  <1>16. timelineIdx' \in Nat
    BY <1>2, <1>3 DEF ApplyTimeline
  <1> QED BY <1>14, <1>15, <1>16 DEF GoodParts

-----------------------------------------------------------------------------
(* The ring                                                                *)

(* What was taken out and what is left make up the ring.                   *)
Split(queue, all, S) ==
    /\ DOMAIN queue = {"rest", "got"} /\ queue.rest \in Seq(S) /\ queue.got \in Seq(S)
    /\ queue.got \o queue.rest = all

(* What one more consumer drains is cut off the front of the ring.         *)
LEMMA DrainedSplits ==
    ASSUME NEW S, NEW all, NEW queue, Split(queue, all, S), NEW budget \in Nat
    PROVE  Split(Drained(queue, budget), all, S)
  <1>1. PICK rest \in Seq(S), got \in Seq(S) : rest = queue.rest /\ got = queue.got
    BY DEF Split
  <1>2. PICK n : n = Lesser(budget, Len(rest))
    OBVIOUS
  <1>3. n \in 0 .. Len(rest)
    BY <1>2, LesserIs
  <1>4. PICK a, b : a = SubSeq(rest, 1, n) /\ b = SubSeq(rest, n + 1, Len(rest))
    OBVIOUS
  <1>5. Drained(queue, budget) = [rest |-> b, got |-> got \o a]
    BY <1>1, <1>2, <1>4 DEF Drained
  <1>6. a \in Seq(S) /\ b \in Seq(S)
    <2>1. n \in Int /\ Len(rest) \in Int /\ \A i \in 1 .. Len(rest) : rest[i] \in S
      BY <1>3
    <2>2. (\A i \in 1 .. n : rest[i] \in S) /\ (\A i \in n + 1 .. Len(rest) : rest[i] \in S)
      BY <1>3, <2>1
    <2> QED BY <1>4, <2>1, <2>2, SubSeqProperties
  <1>7. a \o b = rest
    <2>1. /\ 1 \in 1 .. Len(rest) + 1 /\ n \in 1 - 1 .. Len(rest)
          /\ Len(rest) \in n .. Len(rest)
      BY <1>3
    <2>2. a \o b = SubSeq(rest, 1, Len(rest))
      BY <1>4, <2>1, ConcatAdjacentSubSeq
    <2> QED BY <2>2, SubSeqFull
  <1>8. (got \o a) \o b = got \o (a \o b)
    BY <1>6, ConcatAssociative
  <1>9. PICK g : g = got \o a
    OBVIOUS
  <1>10. g \in Seq(S)
    BY <1>6, <1>9, ConcatProperties
  <1>11. got \o rest = all
    BY <1>1 DEF Split
  <1>12. g \o b = all
    BY <1>7, <1>8, <1>9, <1>11, Zenon
  <1>13. PICK q : q = [rest |-> b, got |-> g]
    OBVIOUS
  <1>14. DOMAIN q = {"rest", "got"} /\ q.rest = b /\ q.got = g
    BY <1>13
  <1>15. Split(q, all, S)
    BY <1>6, <1>10, <1>12, <1>14 DEF Split
  <1> QED BY <1>5, <1>9, <1>13, <1>15

(* drain of every consumer in turn: the packets that are read are the      *)
(* first ones of the ring, in their order.                                 *)
LEMMA DrainSplits ==
    ASSUME NEW S, NEW queue \in Seq(S), NEW b, GoodBudgets(b)
    PROVE  Split(FoldLeft(Drained, [rest |-> queue, got |-> <<>>], b), queue, S)
  <1>1. PICK base : base = [rest |-> queue, got |-> <<>>]
    OBVIOUS
  <1>2. PICK n \in Nat : DOMAIN b = 1 .. n
    BY ListIs DEF GoodBudgets
  <1>3. PICK p : FoldSteps(p, "drain", 0, base, b, n) /\ FoldLeft(Drained, base, b) = p[n]
    BY <1>2, DrainFold
  <1> DEFINE T == {k \in Nat : k <= n => Split(p[k], queue, S)}
  <1>4. 0 \in T
    <2>1. <<>> \o queue = queue /\ <<>> \in Seq(S)
      BY ConcatEmptySeq
    <2>2. Split(base, queue, S)
      BY <1>1, <2>1 DEF Split
    <2> QED BY <1>3, <2>2 DEF FoldSteps
  <1>5. ASSUME NEW k \in Nat, k \in T PROVE k + 1 \in T
    <2> SUFFICES ASSUME k + 1 <= n PROVE Split(p[k + 1], queue, S)
      OBVIOUS
    <2>1. k + 1 \in 1 .. n /\ Split(p[k], queue, S)
      BY <1>5
    <2>2. p[k + 1] = Apply("drain", 0, p[(k + 1) - 1], b[k + 1])
      BY <1>3, <2>1 DEF FoldSteps
    <2>3. p[k + 1] = Drained(p[k], b[k + 1])
      BY <2>2 DEF Apply
    <2>4. b[k + 1] \in Nat
      BY <1>2, <2>1 DEF GoodBudgets
    <2> QED BY <2>1, <2>3, <2>4, DrainedSplits
  <1>6. n \in T
    <2> HIDE DEF T
    <2> QED BY <1>4, <1>5, Induction
  <1> QED BY <1>1, <1>3, <1>6

(* try_push of a packet.                                                   *)
LEMMA TryPushed ==
    ASSUME NEW S, NEW queue \in Seq(S), NEW packet \in S, RingCapacity \in Nat
    PROVE  /\ TryPush(queue, packet) \in Seq(S)
           /\ Len(TryPush(queue, packet)) \in Len(queue) .. Len(queue) + 1
           /\ Len(queue) <= RingCapacity => Len(TryPush(queue, packet)) <= RingCapacity
           /\ \/ TryPush(queue, packet) = queue
              \/ TryPush(queue, packet) = Append(queue, packet)
  <1>1. CASE TryPush(queue, packet) = queue
    BY <1>1
  <1>2. CASE TryPush(queue, packet) # queue
    <2>1. TryPush(queue, packet) = Append(queue, packet) /\ Len(queue) < RingCapacity
      BY <1>2 DEF TryPush
    <2>2. Append(queue, packet) \in Seq(S) /\ Len(Append(queue, packet)) = Len(queue) + 1
      OBVIOUS
    <2> QED BY <2>1, <2>2
  <1> QED BY <1>1, <1>2

(* The ring after so many packets of the batch.                            *)
Filled(r, queue, k, S) ==
    /\ r \in Seq(S) /\ Len(r) \in Len(queue) .. Len(queue) + k
    /\ Len(queue) <= RingCapacity => Len(r) <= RingCapacity

(* The batch is pushed: the ring grows by no more than the batch and never *)
(* beyond its capacity.                                                    *)
LEMMA PushFills ==
    ASSUME NEW S, NEW queue \in Seq(S), NEW b \in Seq(S), RingCapacity \in Nat
    PROVE  Filled(FoldLeft(TryPush, queue, b), queue, Len(b), S)
  <1>1. PICK n \in Nat : n = Len(b) /\ DOMAIN b = 1 .. n
    OBVIOUS
  <1>2. PICK p : FoldSteps(p, "push", 0, queue, b, n) /\ FoldLeft(TryPush, queue, b) = p[n]
    BY <1>1, PushFold
  <1> DEFINE T == {k \in Nat : k <= n => Filled(p[k], queue, k, S)}
  <1>3. 0 \in T
    <2>1. Filled(queue, queue, 0, S)
      BY DEF Filled
    <2> QED BY <1>2, <2>1 DEF FoldSteps
  <1>4. ASSUME NEW k \in Nat, k \in T PROVE k + 1 \in T
    <2> SUFFICES ASSUME k + 1 <= n PROVE Filled(p[k + 1], queue, k + 1, S)
      OBVIOUS
    <2>1. k + 1 \in 1 .. n /\ Filled(p[k], queue, k, S)
      BY <1>4
    <2>2. p[k + 1] = Apply("push", 0, p[(k + 1) - 1], b[k + 1])
      BY <1>2, <2>1 DEF FoldSteps
    <2>3. p[k + 1] = TryPush(p[k], b[k + 1])
      BY <2>2 DEF Apply
    <2>4. PICK r \in Seq(S), x \in S : r = p[k] /\ x = b[k + 1]
      BY <1>1, <2>1 DEF Filled
    <2>5. /\ TryPush(r, x) \in Seq(S)
          /\ Len(TryPush(r, x)) \in Len(r) .. Len(r) + 1
          /\ Len(r) <= RingCapacity => Len(TryPush(r, x)) <= RingCapacity
      BY TryPushed
    <2>6. Len(r) \in Len(queue) .. Len(queue) + k /\ Len(queue) \in Nat
      BY <2>1, <2>4 DEF Filled
    <2>7. Len(TryPush(r, x)) \in Len(queue) .. Len(queue) + (k + 1)
      BY <2>5, <2>6
    <2>8. Len(queue) <= RingCapacity => Len(r) <= RingCapacity
      BY <2>1, <2>4 DEF Filled
    <2>9. Filled(TryPush(r, x), queue, k + 1, S)
      BY <2>5, <2>7, <2>8 DEF Filled
    <2> QED BY <2>3, <2>4, <2>9
  <1>5. n \in T
    <2> HIDE DEF T
    <2> QED BY <1>3, <1>4, Induction
  <1> QED BY <1>1, <1>2, <1>5

(* The order in which the packets of a source were made.                   *)
Before(p, q) ==
    p.source = q.source =>
        \/ p.run < q.run
        \/ p.run = q.run /\ p.seq < q.seq

Ordered(s) == \A i, j \in DOMAIN s : i < j => Before(s[i], s[j])
Precede(s, t) == \A i \in DOMAIN s, j \in DOMAIN t : Before(s[i], t[j])

(* A packet behind all others keeps the order.                             *)
LEMMA AppendOrdered ==
    ASSUME NEW S, NEW s \in Seq(S), NEW x \in S, Ordered(s),
           \A i \in DOMAIN s : Before(s[i], x)
    PROVE  Ordered(Append(s, x))
  <1>1. PICK t : t = Append(s, x)
    OBVIOUS
  <1>2. /\ DOMAIN t = 1 .. Len(s) + 1 /\ t[Len(s) + 1] = x /\ DOMAIN s = 1 .. Len(s)
        /\ \A i \in 1 .. Len(s) : t[i] = s[i]
    BY <1>1
  <1>3. ASSUME NEW i \in DOMAIN t, NEW j \in DOMAIN t, i < j PROVE Before(t[i], t[j])
    <2>1. i \in 1 .. Len(s) /\ t[i] = s[i]
      BY <1>2, <1>3
    <2>2. CASE j = Len(s) + 1
      BY <1>2, <2>1, <2>2
    <2>3. CASE j # Len(s) + 1
      <3>1. j \in 1 .. Len(s) /\ t[j] = s[j]
        BY <1>2, <2>3
      <3> QED BY <1>2, <1>3, <2>1, <3>1 DEF Ordered
    <2> QED BY <2>2, <2>3
  <1> QED BY <1>1, <1>3 DEF Ordered

(* The ring after so many packets: in order, and before the others.        *)
InOrder(r, first, b, k, S) ==
    /\ r \in Seq(S) /\ Ordered(r) /\ Precede(first, r)
    /\ \A i \in DOMAIN r, j \in k + 1 .. Len(b) : Before(r[i], b[j])

(* The ring is in order after a batch that is behind it.                   *)
LEMMA PushOrdered ==
    ASSUME NEW S, NEW queue \in Seq(S), NEW b \in Seq(S), NEW first \in Seq(S),
           RingCapacity \in Nat, Ordered(queue), Ordered(b),
           Precede(first, queue), Precede(first, b), Precede(queue, b)
    PROVE  InOrder(FoldLeft(TryPush, queue, b), first, b, Len(b), S)
  <1>1. PICK n \in Nat : n = Len(b) /\ DOMAIN b = 1 .. n
    OBVIOUS
  <1>2. PICK p : FoldSteps(p, "push", 0, queue, b, n) /\ FoldLeft(TryPush, queue, b) = p[n]
    BY <1>1, PushFold
  <1> DEFINE T == {k \in Nat : k <= n => InOrder(p[k], first, b, k, S)}
  <1>3. 0 \in T
    <2>1. InOrder(queue, first, b, 0, S)
      BY DEF InOrder, Precede
    <2> QED BY <1>2, <2>1 DEF FoldSteps
  <1>4. ASSUME NEW k \in Nat, k \in T PROVE k + 1 \in T
    <2> SUFFICES ASSUME k + 1 <= n PROVE InOrder(p[k + 1], first, b, k + 1, S)
      OBVIOUS
    <2>1. k + 1 \in 1 .. n /\ InOrder(p[k], first, b, k, S)
      BY <1>4
    <2>2. p[k + 1] = Apply("push", 0, p[(k + 1) - 1], b[k + 1])
      BY <1>2, <2>1 DEF FoldSteps
    <2>3. p[k + 1] = TryPush(p[k], b[k + 1])
      BY <2>2 DEF Apply
    <2>4. PICK r \in Seq(S), x \in S : r = p[k] /\ x = b[k + 1]
      BY <1>1, <2>1 DEF InOrder
    <2>5. /\ Ordered(r) /\ Precede(first, r)
          /\ \A i \in DOMAIN r, j \in k + 1 .. Len(b) : Before(r[i], b[j])
      BY <2>1, <2>4 DEF InOrder
    <2>6. CASE TryPush(r, x) = r
      <3>1. InOrder(r, first, b, k + 1, S)
        <4>1. \A j \in (k + 1) + 1 .. Len(b) : j \in k + 1 .. Len(b)
          BY <1>1
        <4> QED BY <2>5, <4>1 DEF InOrder
      <3> QED BY <2>3, <2>4, <2>6, <3>1
    <2>7. CASE TryPush(r, x) # r
      <3>0. TryPush(r, x) = Append(r, x)
        BY <2>7, TryPushed
      <3>1. PICK t : t = Append(r, x) /\ t = TryPush(r, x)
        BY <3>0
      <3>2. /\ t \in Seq(S) /\ DOMAIN t = 1 .. Len(r) + 1 /\ t[Len(r) + 1] = x
            /\ DOMAIN r = 1 .. Len(r) /\ \A i \in 1 .. Len(r) : t[i] = r[i]
        <4>1. t = Append(r, x)
          BY <3>1
        <4> QED BY ONLY <4>1, r \in Seq(S), x \in S
      <3>3. Ordered(t)
        <4>1. \A i \in DOMAIN r : Before(r[i], x)
          BY <1>1, <2>1, <2>4, <2>5
        <4> QED BY <2>5, <3>1, <4>1, AppendOrdered
      <3>4. Precede(first, t)
        <4>1. ASSUME NEW i \in DOMAIN first, NEW j \in DOMAIN t PROVE Before(first[i], t[j])
          <5>1. CASE j = Len(r) + 1
            BY <1>1, <2>1, <2>4, <3>2, <5>1 DEF Precede
          <5>2. CASE j # Len(r) + 1
            <6>1. j \in DOMAIN r /\ t[j] = r[j]
              BY <3>2, <5>2
            <6> QED BY <2>5, <6>1 DEF Precede
          <5> QED BY <5>1, <5>2
        <4> QED BY <4>1 DEF Precede
      <3>5. ASSUME NEW i \in DOMAIN t, NEW j \in (k + 1) + 1 .. Len(b)
            PROVE  Before(t[i], b[j])
        <4>0. j \in k + 1 .. Len(b) /\ j \in 1 .. n /\ k + 1 < j
          BY <1>1
        <4>1. CASE i = Len(r) + 1
          BY <1>1, <2>1, <2>4, <3>2, <4>0, <4>1 DEF Ordered
        <4>2. CASE i # Len(r) + 1
          <5>1. i \in DOMAIN r /\ t[i] = r[i]
            BY <3>2, <4>2
          <5> QED BY <2>5, <4>0, <5>1
        <4> QED BY <4>1, <4>2
      <3>6. InOrder(t, first, b, k + 1, S)
        BY <3>2, <3>3, <3>4, <3>5 DEF InOrder
      <3> QED BY <2>3, <2>4, <3>1, <3>6
    <2> QED BY <2>6, <2>7
  <1>5. n \in T
    <2> HIDE DEF T
    <2> QED BY <1>3, <1>4, Induction
  <1> QED BY <1>1, <1>2, <1>5

(* snapshot_nic_stats adds up numbers.                                     *)
LEMMA TotalIs ==
    ASSUME NEW srcs, NEW field, NEW n \in Nat, DOMAIN srcs = 1 .. n,
           \A k \in 1 .. n : srcs[k][field] \in Nat
    PROVE  /\ Total(srcs, field) \in Nat
           /\ n = 1 => Total(srcs, field) = srcs[1][field]
  <1>1. PICK p : FoldSteps(p, "sum", field, 0, srcs, n) /\ Total(srcs, field) = p[n]
    BY SumFold
  <1>0. ASSUME NEW k \in Nat, k + 1 <= n PROVE p[k + 1] = p[k] + srcs[k + 1][field]
    <2>1. p[k + 1] = Apply("sum", field, p[(k + 1) - 1], srcs[k + 1])
      BY <1>0, <1>1 DEF FoldSteps
    <2> QED BY <2>1 DEF Apply
  <1> DEFINE T == {k \in Nat : k <= n => p[k] \in Nat}
  <1>2. p[0] = 0
    BY <1>1 DEF FoldSteps
  <1>3. ASSUME NEW k \in Nat, k \in T PROVE k + 1 \in T
    <2> SUFFICES ASSUME k + 1 <= n PROVE p[k + 1] \in Nat
      OBVIOUS
    <2>1. k + 1 \in 1 .. n /\ p[k] \in Nat /\ srcs[k + 1][field] \in Nat
      BY <1>3
    <2> QED BY <1>0, <2>1
  <1>4. n \in T
    <2>1. 0 \in T
      BY <1>2
    <2> HIDE DEF T
    <2> QED BY <1>3, <2>1, Induction
  <1>5. ASSUME n = 1 PROVE p[n] = srcs[1][field]
    <2>1. p[0 + 1] = p[0] + srcs[0 + 1][field] /\ srcs[1][field] \in Nat
      BY <1>0, <1>5
    <2> QED BY <1>2, <1>5, <2>1
  <1> QED BY <1>1, <1>4, <1>5

-----------------------------------------------------------------------------
(* The inductive invariant                                                 *)

Frames == [source : Nat, run : Nat, seq : Nat, size : Nat, whole : BOOLEAN]

Stats == [ticks : Nat, generated : Nat, dropped : Nat, corrupted : Nat,
          written : Nat, consumed : Nat, overflows : Nat, clock : Nat]

Loaded == pc \notin {"load", "rejected"}
Ticking == pc \in {"poll", "packets", "drain", "end"}

(* The packets that have been made: those of this run have a number their  *)
(* source has counted.                                                     *)
Made ==
    {p \in Frames : /\ p.run <= runs
                    /\ p.run = runs => /\ p.source \in DOMAIN sources
                                       /\ p.seq <= sources[p.source].generated}

SimNumbers ==
    /\ clock \in Nat /\ now \in Nat /\ timelineIdx \in Nat /\ running \in BOOLEAN
    /\ stats \in Stats /\ left \in Nat /\ spikeNs \in Nat
    /\ carried \in Nat /\ runs \in 0 .. MaxRuns
    /\ pc \in {"load", "rejected", "idle", "step", "begun", "poll", "packets", "drain", "end"}
    /\ caller \in {"none", "run", "step"}

SimParts ==
    /\ GoodSources(sources, TickNs) /\ GoodBudgets(budgets)
    /\ ring \in Seq(Made) /\ read \in Seq(Made) /\ batch \in Seq(Made)

(* What holds at each place of a step: the batch and the source that is    *)
(* polled are a tick's own, and the sources are up while it runs.          *)
SimPlaces ==
    /\ Loaded => IsPlan(plan) /\ Len(ring) <= RingCapacity /\ Len(batch) <= BatchSize
    /\ ~Loaded => runs = 0 /\ ring = <<>> /\ read = <<>> /\ ~running
    /\ current \in 1 .. Len(sources) + 1
    /\ pc = "packets" => current <= Len(sources)
    /\ ~Ticking => current = 1 /\ batch = <<>>
    /\ pc = "poll" /\ current = 1 => batch = <<>>

SimLive ==
    /\ Ticking \/ pc \in {"step", "begun"} => running
    /\ running => \A k \in DOMAIN sources : sources[k].initialized

SimTyped == SimNumbers /\ SimParts /\ SimPlaces /\ SimLive

(* The packets in the ring come behind those that were read, and those of  *)
(* the batch that is filled behind both.                                   *)
SimOrdered ==
    /\ Ordered(read) /\ Ordered(ring) /\ Precede(read, ring)
    /\ pc \in {"poll", "packets"} =>
         Ordered(batch) /\ Precede(read, batch) /\ Precede(ring, batch)

(* With one source, the batch of a tick is what is not accounted for yet.  *)
Collecting == pc \in {"poll", "packets"}
Outstanding == IF Collecting THEN Len(batch) ELSE 0

(* The snapshot of the counters is the one source's.                       *)
Settled(st) == st.generated = sources[1].generated /\ st.dropped = sources[1].dropped

SimAccounted ==
    Loaded =>
        /\ Len(sources) = 1
        /\ sources[1].generated - sources[1].dropped
             = stats.written + stats.overflows + Outstanding
        /\ ~Ticking => Settled(stats)

-----------------------------------------------------------------------------
(* What the parts of the actions do                                        *)

(* A sequence over a set is one over any larger set.                       *)
LEMMA SeqWider ==
    ASSUME NEW S, NEW T, S \subseteq T, NEW s \in Seq(S)
    PROVE  s \in Seq(T)
  OBVIOUS

(* No source has forgotten a packet it has made.                           *)
Grown ==
    \A k \in DOMAIN sources :
        /\ k \in DOMAIN sources' /\ sources[k].generated \in Nat
        /\ sources'[k].generated \in Nat /\ sources'[k].generated >= sources[k].generated

(* What has been made stays so, in this run and in the next one.           *)
LEMMA MadeGrows ==
    ASSUME runs \in Nat,
           \/ runs' = runs /\ Grown
           \/ runs' = runs + 1
    PROVE  Made \subseteq Made'
  <1> SUFFICES ASSUME NEW p \in Made PROVE p \in Made'
    OBVIOUS
  <1>1. /\ p \in Frames /\ p.run <= runs
        /\ p.run = runs => p.source \in DOMAIN sources /\ p.seq <= sources[p.source].generated
    BY DEF Made
  <1>2. p.run \in Nat /\ p.seq \in Nat
    BY <1>1 DEF Frames
  <1>3. CASE runs' = runs + 1
    BY <1>1, <1>2, <1>3 DEF Made
  <1>4. CASE runs' = runs /\ Grown
    <2>1. CASE p.run # runs
      BY <1>1, <1>4, <2>1 DEF Made
    <2>2. CASE p.run = runs
      <3>1. p.source \in DOMAIN sources /\ p.seq <= sources[p.source].generated
        BY <1>1, <2>2
      <3>2. /\ p.source \in DOMAIN sources' /\ p.seq <= sources'[p.source].generated
        BY <1>2, <1>4, <3>1 DEF Grown
      <3> QED BY <1>1, <1>4, <2>2, <3>2 DEF Made
    <2> QED BY <2>1, <2>2
  <1> QED BY <1>3, <1>4

(* The fields of a good source.                                            *)
LEMMA GoodCounts ==
    ASSUME NEW srcs, NEW tick, GoodSources(srcs, tick), NEW k \in DOMAIN srcs
    PROVE  /\ srcs[k].generated \in Nat /\ srcs[k].dropped \in Nat /\ srcs[k].corrupted \in Nat
           /\ srcs[k].spikeNs \in Nat
  BY DEF GoodSources, GoodSource, IsSource, Counts

(* The settings change and the counters do not.                            *)
LEMMA SameGrown ==
    ASSUME NEW tick, GoodSources(sources, tick), GoodSources(sources', tick),
           SameSources(sources, sources')
    PROVE  /\ Grown /\ DOMAIN sources' = DOMAIN sources
           /\ \A k \in DOMAIN sources : SameCounts(sources[k], sources'[k])
  <1>1. DOMAIN sources = 1 .. Len(sources) /\ DOMAIN sources' = 1 .. Len(sources')
    BY ListIs DEF GoodSources
  <1>2. \A k \in DOMAIN sources : SameCounts(sources[k], sources'[k])
    BY <1>1 DEF SameSources
  <1>3. DOMAIN sources' = DOMAIN sources
    BY <1>1 DEF SameSources
  <1>4. \A k \in DOMAIN sources : sources[k].generated \in Nat
    BY GoodCounts
  <1>5. Grown
    BY <1>2, <1>3, <1>4 DEF Grown, SameCounts
  <1> QED BY <1>2, <1>3, <1>5

(* snapshot_nic_stats sets the three totals only.                          *)
LEMMA SnapshotIs ==
    ASSUME NEW st \in Stats, NEW srcs, NEW tick, GoodSources(srcs, tick)
    PROVE  /\ Snapshot(st, srcs) \in Stats
           /\ \A f \in {"ticks", "written", "consumed", "overflows", "clock"} :
                Snapshot(st, srcs)[f] = st[f]
           /\ Snapshot(st, srcs).generated = Total(srcs, "generated")
           /\ Snapshot(st, srcs).dropped = Total(srcs, "dropped")
  <1>1. PICK n \in Nat : DOMAIN srcs = 1 .. n
    BY ListIs DEF GoodSources
  <1>2. PICK g \in Nat, d \in Nat, c \in Nat :
           /\ g = Total(srcs, "generated") /\ d = Total(srcs, "dropped")
           /\ c = Total(srcs, "corrupted")
    <2>1. \A k \in 1 .. n : /\ srcs[k]["generated"] \in Nat /\ srcs[k]["dropped"] \in Nat
                            /\ srcs[k]["corrupted"] \in Nat
      BY <1>1, GoodCounts
    <2>2. Total(srcs, "generated") \in Nat
      BY <1>1, <2>1, TotalIs
    <2>3. Total(srcs, "dropped") \in Nat
      BY <1>1, <2>1, TotalIs
    <2>4. Total(srcs, "corrupted") \in Nat
      BY <1>1, <2>1, TotalIs
    <2> QED BY <2>2, <2>3, <2>4
  <1>3. Snapshot(st, srcs) = [st EXCEPT !.generated = g, !.dropped = d, !.corrupted = c]
    BY <1>2 DEF Snapshot
  <1> QED BY <1>2, <1>3 DEF Stats

(* The sources are shut down.                                              *)
LEMMA AllStopped ==
    ASSUME NEW srcs, NEW tick, GoodSources(srcs, tick),
           NEW new, new = [i \in DOMAIN srcs |-> Stopped(srcs[i])]
    PROVE  /\ GoodSources(new, tick) /\ Len(new) = Len(srcs) /\ DOMAIN new = DOMAIN srcs
           /\ \A k \in DOMAIN srcs : KeepsCounts(srcs[k], new[k]) /\ ~new[k].initialized
  <1>1. DOMAIN srcs = 1 .. Len(srcs) /\ Len(srcs) \in Nat
    BY ListIs DEF GoodSources
  <1>2. new = [i \in 1 .. Len(srcs) |-> new[i]] /\ DOMAIN new = DOMAIN srcs
    BY <1>1
  <1>3. IsList(new) /\ Len(new) = Len(srcs)
    BY <1>1, <1>2, ListOf
  <1>4. ASSUME NEW k \in DOMAIN srcs
        PROVE  GoodSource(new[k], tick) /\ KeepsCounts(srcs[k], new[k]) /\ ~new[k].initialized
    <2>1. GoodSource(srcs[k], tick) /\ new[k] = Stopped(srcs[k])
      BY DEF GoodSources
    <2> QED BY <2>1, StoppedGood
  <1>5. GoodSources(new, tick)
    BY <1>2, <1>3, <1>4 DEF GoodSources
  <1> QED BY <1>2, <1>3, <1>4, <1>5

(* The counters of the ring are the same.                                  *)
SameRing(st, new) ==
    new.written = st.written /\ new.consumed = st.consumed /\ new.overflows = st.overflows

(* finish.                                                                 *)
LEMMA FinishIs ==
    ASSUME NEW st \in Stats, NEW time \in Nat, NEW tick, GoodSources(sources, tick),
           Finish(st, sources, time)
    PROVE  /\ stats' \in Stats /\ SameRing(st, stats') /\ stats'.clock = time
           /\ stats'.ticks = st.ticks
           /\ stats'.generated = Total(sources, "generated")
           /\ stats'.dropped = Total(sources, "dropped")
           /\ GoodSources(sources', tick) /\ Len(sources') = Len(sources)
           /\ DOMAIN sources' = DOMAIN sources
           /\ \A k \in DOMAIN sources :
                KeepsCounts(sources[k], sources'[k]) /\ ~sources'[k].initialized
           /\ ~running' /\ running' \in BOOLEAN /\ Grown
  <1>1. PICK s : s = Snapshot(st, sources)
    OBVIOUS
  <1>2. /\ s \in Stats /\ SameRing(st, s) /\ s.ticks = st.ticks
        /\ s.generated = Total(sources, "generated") /\ s.dropped = Total(sources, "dropped")
    BY <1>1, SnapshotIs DEF SameRing
  <1>3. stats' = [s EXCEPT !.clock = time]
    BY <1>1 DEF Finish
  <1>4. /\ stats' \in Stats /\ SameRing(st, stats') /\ stats'.clock = time
        /\ stats'.ticks = st.ticks
        /\ stats'.generated = Total(sources, "generated")
        /\ stats'.dropped = Total(sources, "dropped")
    BY <1>2, <1>3 DEF Stats, SameRing
  <1>5. PICK new : new = sources'
    OBVIOUS
  <1>6. new = [i \in DOMAIN sources |-> Stopped(sources[i])]
    BY <1>5 DEF Finish
  <1>7. /\ GoodSources(new, tick) /\ Len(new) = Len(sources) /\ DOMAIN new = DOMAIN sources
        /\ \A k \in DOMAIN sources : KeepsCounts(sources[k], new[k]) /\ ~new[k].initialized
    BY <1>6, AllStopped
  <1>8. Grown
    <2>1. \A k \in DOMAIN sources : sources[k].generated \in Nat
      BY GoodCounts
    <2> QED BY <1>5, <1>7, <2>1 DEF Grown, KeepsCounts
  <1>9. ~running' /\ running' \in BOOLEAN
    BY DEF Finish
  <1> QED BY <1>4, <1>5, <1>7, <1>8, <1>9

(* begin: every source starts again.                                       *)
LEMMA BeginIs ==
    ASSUME GoodSources(sources, TickNs), GoodBudgets(budgets), IsPlan(plan), Begin
    PROVE  /\ GoodSources(sources', TickNs) /\ Len(sources') = Len(sources)
           /\ \A k \in DOMAIN sources' : NoCounts(sources'[k]) /\ sources'[k].initialized
           /\ GoodBudgets(budgets') /\ timelineIdx' \in Nat
  <1>1. PICK tick \in Nat : tick = TickNs
    BY DEF IsPlan, TickNs
  <1>2. PICK s : s = [i \in DOMAIN sources |-> Started(sources[i])]
    OBVIOUS
  <1>3. DOMAIN sources = 1 .. Len(sources) /\ Len(sources) \in Nat
    BY ListIs DEF GoodSources
  <1>4. s = [i \in 1 .. Len(sources) |-> s[i]] /\ DOMAIN s = 1 .. Len(sources)
    BY <1>2, <1>3
  <1>5. IsList(s) /\ Len(s) = Len(sources)
    BY <1>3, <1>4, ListOf
  <1>6. ASSUME NEW k \in DOMAIN s
        PROVE  GoodSource(s[k], tick) /\ NoCounts(s[k]) /\ s[k].initialized
    <2>1. GoodSource(sources[k], tick) /\ s[k] = Started(sources[k])
      BY <1>1, <1>2, <1>3, <1>4 DEF GoodSources
    <2> QED BY <2>1, StartedGood
  <1>7. GoodSources(s, tick)
    BY <1>5, <1>6 DEF GoodSources
  <1>8. ApplyTimeline(s, 0, 0)
    BY <1>2 DEF Begin
  <1>9. /\ GoodSources(sources', tick) /\ SameSources(s, sources')
        /\ GoodBudgets(budgets') /\ timelineIdx' \in Nat
    BY <1>7, <1>8, TimelineApplied
  <1>10. DOMAIN sources' = 1 .. Len(sources') /\ Len(sources') = Len(sources)
    BY <1>5, <1>9, ListIs DEF GoodSources, SameSources
  <1>11. ASSUME NEW k \in DOMAIN sources'
         PROVE  NoCounts(sources'[k]) /\ sources'[k].initialized
    <2>1. k \in DOMAIN s /\ SameCounts(s[k], sources'[k])
      BY <1>4, <1>5, <1>9, <1>10 DEF SameSources
    <2>2. NoCounts(s[k]) /\ s[k].initialized
      BY <1>6, <2>1
    <2>3. PICK x : x = sources'[k]
      OBVIOUS
    <2>4. NoCounts(x) /\ x.initialized
      BY <2>1, <2>2, <2>3 DEF SameCounts, NoCounts
    <2> QED BY <2>3, <2>4
  <1> QED BY <1>1, <1>9, <1>10, <1>11

(* What begin, called for or not, leaves.                                  *)
Begun ==
    /\ clock' \in Nat /\ timelineIdx' \in Nat /\ running' /\ running' \in BOOLEAN
    /\ stats' \in Stats /\ carried' \in Nat /\ runs' \in 0 .. MaxRuns
    /\ plan' = plan /\ ring' = ring /\ read' = read
    /\ GoodSources(sources', TickNs') /\ Len(sources') = Len(sources)
    /\ GoodBudgets(budgets') /\ Made \subseteq Made'
    /\ \A k \in DOMAIN sources' : sources'[k].initialized

(* The counters a run begins with have their types.                        *)
LEMMA NewStats == NoStats \in Stats
  BY DEF NoStats, Stats

(* begin, or no change when the run goes on.                               *)
LEMMA BeginKeeps ==
    ASSUME SimTyped, Loaded, BeginUnlessRunning
    PROVE  Begun
  <1>0. /\ SimNumbers /\ SimParts /\ SimLive /\ IsPlan(plan)
    BY DEF SimTyped, SimPlaces
  <1>1. CASE running /\ UNCHANGED <<world, sources, ringed, timelineIdx, running, stats, past>>
    <2>1. /\ clock' \in Nat /\ timelineIdx' \in Nat /\ running' /\ running' \in BOOLEAN
          /\ stats' \in Stats /\ carried' \in Nat /\ runs' \in 0 .. MaxRuns
      BY <1>0, <1>1 DEF SimNumbers, past, world
    <2>2. plan' = plan /\ ring' = ring /\ read' = read /\ sources' = sources /\ budgets' = budgets
          /\ runs' = runs
      BY <1>1 DEF world, ringed, past
    <2>3. TickNs' = TickNs
      BY <2>2 DEF TickNs
    <2>4. GoodSources(sources', TickNs') /\ GoodBudgets(budgets')
      BY <1>0, <2>2, <2>3 DEF SimParts
    <2>5. Made = Made'
      BY <2>2 DEF Made
    <2>6. \A k \in DOMAIN sources' : sources'[k].initialized
      BY <1>0, <1>1, <2>2 DEF SimLive
    <2> QED BY <2>1, <2>2, <2>4, <2>5, <2>6 DEF Begun
  <1>2. CASE ~running /\ runs < MaxRuns /\ Begin
    <2>1. runs \in Nat /\ MaxRuns \in Nat
      BY <1>0, SimAssumption DEF SimNumbers
    <2>2. /\ plan' = plan /\ ring' = ring /\ read' = read /\ runs' = runs + 1
          /\ stats' = NoStats /\ carried' = Len(ring) /\ running'
          /\ clock' = 0
      BY <1>2 DEF Begin, StartNs
    <2>3. TickNs' = TickNs
      BY <2>2 DEF TickNs
    <2>4. /\ GoodSources(sources', TickNs) /\ Len(sources') = Len(sources)
          /\ \A k \in DOMAIN sources' : NoCounts(sources'[k]) /\ sources'[k].initialized
          /\ GoodBudgets(budgets') /\ timelineIdx' \in Nat
      BY <1>0, <1>2, BeginIs DEF SimParts
    <2>5. Made \subseteq Made'
      BY <2>1, <2>2, MadeGrows
    <2>6. Len(ring) \in Nat
      BY <1>0 DEF SimParts
    <2>7. running' \in BOOLEAN
      BY <1>2 DEF Begin
    <2>8. runs' \in 0 .. MaxRuns
      BY <1>2, <2>1, <2>2
    <2> QED BY <2>2, <2>3, <2>4, <2>5, <2>6, <2>7, <2>8, NewStats DEF Begun
  <1> QED BY <1>1, <1>2 DEF BeginUnlessRunning

(* What every action that takes the sources as they are leaves alone.      *)
SourcesKept ==
    /\ GoodSources(sources', TickNs') /\ Len(sources') = Len(sources) /\ Made \subseteq Made'
    /\ \A k \in DOMAIN sources :
         /\ k \in DOMAIN sources' /\ sources'[k].generated = sources[k].generated
         /\ sources'[k].dropped = sources[k].dropped

(* step returns.                                                           *)
LEMMA ReturnsIs ==
    ASSUME SimTyped, plan' = plan, runs' = runs, NEW more \in BOOLEAN, NEW st \in Stats,
           NEW time \in Nat, StepReturns(more, st, time)
    PROVE  /\ SourcesKept /\ stats' \in Stats /\ SameRing(st, stats')
           /\ pc' \in {"step", "idle"} /\ (pc' = "step" => running')
           /\ running' \in BOOLEAN
           /\ running' => \A k \in DOMAIN sources' :
                            k \in DOMAIN sources /\ sources'[k].initialized = sources[k].initialized
           /\ \/ stats' = st
              \/ /\ stats'.generated = Total(sources, "generated")
                 /\ stats'.dropped = Total(sources, "dropped")
  <1>0. GoodSources(sources, TickNs) /\ runs \in Nat
    BY SimAssumption DEF SimTyped, SimParts, SimNumbers
  <1>1. TickNs' = TickNs
    BY DEF TickNs
  <1>2. CASE pc' = "idle" /\ Finish(st, sources, time)
    <2>1. /\ stats' \in Stats /\ SameRing(st, stats')
          /\ stats'.generated = Total(sources, "generated")
          /\ stats'.dropped = Total(sources, "dropped")
          /\ GoodSources(sources', TickNs) /\ Len(sources') = Len(sources)
          /\ DOMAIN sources' = DOMAIN sources
          /\ \A k \in DOMAIN sources : KeepsCounts(sources[k], sources'[k])
          /\ ~running' /\ running' \in BOOLEAN /\ Grown
      BY <1>0, <1>2, FinishIs
    <2>2. Made \subseteq Made'
      BY <1>0, <2>1, MadeGrows
    <2>3. SourcesKept
      BY <1>1, <2>1, <2>2 DEF SourcesKept, KeepsCounts
    <2> QED BY <1>2, <2>1, <2>3
  <1>3. CASE /\ pc' = IF caller = "run" /\ more /\ ~edu.paused THEN "step" ELSE "idle"
             /\ stats' = st /\ running' = more /\ UNCHANGED sources
    <2>1. Made = Made'
      BY <1>3 DEF Made
    <2>2. SourcesKept
      BY <1>0, <1>1, <1>3, <2>1 DEF SourcesKept
    <2>3. pc' \in {"step", "idle"} /\ (pc' = "step" => more)
      BY <1>3
    <2>4. SameRing(st, stats')
      BY <1>3 DEF SameRing
    <2> QED BY <1>3, <2>2, <2>3, <2>4
  <1> QED BY <1>2, <1>3 DEF StepReturns

(* One of the sources changes.                                             *)
Replaced(srcs, k, x) == [srcs EXCEPT ![k] = x]

(* One source is replaced by another.                                      *)
LEMMA OneChanged ==
    ASSUME NEW srcs, NEW tick, GoodSources(srcs, tick), NEW k \in DOMAIN srcs,
           NEW x, GoodSource(x, tick), NEW new, new = Replaced(srcs, k, x)
    PROVE  /\ GoodSources(new, tick) /\ Len(new) = Len(srcs) /\ DOMAIN new = DOMAIN srcs
           /\ new[k] = x /\ \A j \in DOMAIN srcs : j # k => new[j] = srcs[j]
  <1>1. DOMAIN srcs = 1 .. Len(srcs) /\ Len(srcs) \in Nat
    BY ListIs DEF GoodSources
  <1>2. /\ DOMAIN new = DOMAIN srcs /\ new[k] = x
        /\ \A j \in DOMAIN srcs : j # k => new[j] = srcs[j]
    BY DEF Replaced
  <1>3. new = [j \in 1 .. Len(srcs) |-> new[j]]
    BY <1>1 DEF Replaced
  <1>4. IsList(new) /\ Len(new) = Len(srcs)
    BY <1>1, <1>3, ListOf
  <1>5. GoodSources(new, tick)
    BY <1>2, <1>4 DEF GoodSources
  <1> QED BY <1>2, <1>4, <1>5

(* The source that is polled is one of the sources.                        *)
LEMMA PolledSource ==
    ASSUME SimTyped, current <= Len(sources)
    PROVE  /\ current \in DOMAIN sources /\ GoodSource(Source, TickNs)
           /\ GoodSources(sources, TickNs) /\ runs \in Nat
  <1>1. GoodSources(sources, TickNs) /\ runs \in Nat /\ current \in 1 .. Len(sources) + 1
    BY SimAssumption DEF SimTyped, SimParts, SimNumbers, SimPlaces
  <1>2. DOMAIN sources = 1 .. Len(sources) /\ Len(sources) \in Nat
    BY <1>1, ListIs DEF GoodSources
  <1>3. current \in DOMAIN sources
    BY <1>1, <1>2
  <1> QED BY <1>1, <1>3 DEF GoodSources, Source

(* The polled source changes, its counters do not.                         *)
LEMMA PollKeeps ==
    ASSUME SimTyped, current <= Len(sources), plan' = plan, runs' = runs,
           NEW x, GoodSource(x, TickNs), KeepsCounts(Source, x), x.initialized = Source.initialized,
           sources' = [sources EXCEPT ![current] = x]
    PROVE  SourcesKept /\ \A k \in DOMAIN sources' :
               k \in DOMAIN sources /\ sources'[k].initialized = sources[k].initialized
  <1>1. /\ current \in DOMAIN sources /\ GoodSource(Source, TickNs)
        /\ GoodSources(sources, TickNs) /\ runs \in Nat
    BY PolledSource
  <1>2. PICK new : new = sources'
    OBVIOUS
  <1>3. /\ GoodSources(new, TickNs) /\ Len(new) = Len(sources) /\ DOMAIN new = DOMAIN sources
        /\ new[current] = x /\ \A j \in DOMAIN sources : j # current => new[j] = sources[j]
    <2>1. PICK a, t, k : a = sources /\ t = TickNs /\ k = current
      OBVIOUS
    <2>2. /\ GoodSources(a, t) /\ k \in DOMAIN a /\ GoodSource(x, t)
          /\ new = Replaced(a, k, x)
      BY <1>1, <1>2, <2>1 DEF Replaced
    <2>3. /\ GoodSources(new, t) /\ Len(new) = Len(a) /\ DOMAIN new = DOMAIN a
          /\ new[k] = x /\ \A j \in DOMAIN a : j # k => new[j] = a[j]
      BY ONLY <2>2, OneChanged
    <2> QED BY <2>1, <2>3
  <1>4. TickNs' = TickNs
    BY DEF TickNs
  <1>5. \A k \in DOMAIN sources : /\ new[k].generated = sources[k].generated
                                  /\ new[k].dropped = sources[k].dropped
                                  /\ new[k].initialized = sources[k].initialized
    BY <1>3 DEF KeepsCounts, Source
  <1>6. Grown
    <2>1. \A k \in DOMAIN sources : sources[k].generated \in Nat
      BY <1>1, GoodCounts
    <2> QED BY <1>2, <1>3, <1>5, <2>1 DEF Grown
  <1>7. Made \subseteq Made'
    BY <1>1, <1>6, MadeGrows
  <1>8. SourcesKept
    BY <1>2, <1>3, <1>4, <1>5, <1>7 DEF SourcesKept
  <1> QED BY <1>2, <1>3, <1>5, <1>8

(* A source with the same counters keeps them.                             *)
LEMMA SameKeeps ==
    ASSUME NEW s, NEW t, SameCounts(s, t)
    PROVE  KeepsCounts(s, t) /\ t.initialized = s.initialized
  BY DEF SameCounts, KeepsCounts

(* The poll of a source returns, and keeps what was counted.               *)
LEMMA ReturnKeeps ==
    ASSUME SimTyped, current <= Len(sources), NEW s, GoodSource(s, TickNs),
           SameCounts(Source, s), PollReturns(s)
    PROVE  /\ spikeNs' \in Nat /\ SourcesKept /\ \A k \in DOMAIN sources' :
               k \in DOMAIN sources /\ sources'[k].initialized = sources[k].initialized
  <1>1. PICK x : x = SpikeTaken(s)
    OBVIOUS
  <1>2. /\ GoodSource(x, TickNs) /\ KeepsCounts(s, x) /\ x.initialized = s.initialized
        /\ s.spikeNs \in Nat
    BY <1>1, SpikeGood
  <1>3. KeepsCounts(Source, s) /\ s.initialized = Source.initialized
    BY SameKeeps
  <1>4. KeepsCounts(Source, x) /\ x.initialized = Source.initialized
    BY <1>2, <1>3 DEF KeepsCounts
  <1>5. sources' = [sources EXCEPT ![current] = x] /\ plan' = plan /\ runs' = runs
    BY <1>1 DEF PollReturns, SpikeTaken, world, past
  <1>6. spikeNs' = spikeNs + s.spikeNs /\ spikeNs \in Nat
    BY DEF PollReturns, SimTyped, SimNumbers
  <1>7. SourcesKept /\ \A k \in DOMAIN sources' :
               k \in DOMAIN sources /\ sources'[k].initialized = sources[k].initialized
    BY <1>2, <1>4, <1>5, PollKeeps
  <1> QED BY <1>2, <1>6, <1>7

(* The packet that is made next, and whether it is dropped.                *)
NewFrame(p) == p \in Frames /\ p.source = current /\ p.run = runs /\ p.seq = Source.generated + 1

OneMade(d, p) ==
    /\ d \in {0, 1} /\ NewFrame(p)
    /\ GoodSources(sources', TickNs) /\ Len(sources') = Len(sources)
    /\ DOMAIN sources' = DOMAIN sources
    /\ sources'[current].generated = Source.generated + 1
    /\ sources'[current].dropped = Source.dropped + d
    /\ \A k \in DOMAIN sources : /\ k # current => sources'[k] = sources[k]
                                 /\ sources'[k].initialized = sources[k].initialized
    /\ d = 1 => batch' = batch
    /\ d = 0 => batch' = Append(batch, p)

(* A packet is made or taken.                                              *)
LEMMA PacketIs ==
    ASSUME SimTyped, current <= Len(sources), IsPlan(plan),
           NEW s, GoodSource(s, TickNs), SameCounts(Source, s),
           NEW size \in Nat, Packet(s, size)
    PROVE  \E d, p : OneMade(d, p)
  <1>1. /\ current \in DOMAIN sources /\ GoodSource(Source, TickNs)
        /\ GoodSources(sources, TickNs) /\ runs \in Nat
    BY PolledSource
  <1>2. PICK fate : LET counted == Counted(s, fate)
                        packet == [source |-> current, run |-> runs, seq |-> counted.generated,
                                   size |-> Lesser(size, FrameSize), whole |-> size <= FrameSize]
                    IN  /\ sources' = [sources EXCEPT ![current] = counted]
                        /\ batch' = IF "drop" \in fate THEN batch ELSE Append(batch, packet)
    BY DEF Packet
  <1>3. PICK c, p : /\ c = Counted(s, fate)
                    /\ p = [source |-> current, run |-> runs, seq |-> c.generated,
                            size |-> Lesser(size, FrameSize), whole |-> size <= FrameSize]
    OBVIOUS
  <1>4. PICK d : d = IF "drop" \in fate THEN 1 ELSE 0
    OBVIOUS
  <1>5. /\ GoodSource(c, TickNs) /\ c.initialized = s.initialized
        /\ c.generated = s.generated + 1 /\ c.dropped = s.dropped + d
    BY <1>3, <1>4, CountedGood
  <1>6. /\ c.initialized = Source.initialized
        /\ c.generated = Source.generated + 1 /\ c.dropped = Source.dropped + d
    BY <1>5 DEF SameCounts
  <1>7. sources' = [sources EXCEPT ![current] = c]
        /\ batch' = IF "drop" \in fate THEN batch ELSE Append(batch, p)
    BY <1>2, <1>3
  <1>8. PICK new : new = sources'
    OBVIOUS
  <1>9. /\ GoodSources(new, TickNs) /\ Len(new) = Len(sources) /\ DOMAIN new = DOMAIN sources
        /\ new[current] = c /\ \A j \in DOMAIN sources : j # current => new[j] = sources[j]
    <2>1. PICK a, t, k : a = sources /\ t = TickNs /\ k = current
      OBVIOUS
    <2>2. /\ GoodSources(a, t) /\ k \in DOMAIN a /\ GoodSource(c, t)
          /\ new = Replaced(a, k, c)
      BY <1>1, <1>5, <1>7, <1>8, <2>1 DEF Replaced
    <2>3. /\ GoodSources(new, t) /\ Len(new) = Len(a) /\ DOMAIN new = DOMAIN a
          /\ new[k] = c /\ \A j \in DOMAIN a : j # k => new[j] = a[j]
      BY ONLY <2>2, OneChanged
    <2> QED BY <2>1, <2>3
  <1>10. p \in Frames /\ p.source = current /\ p.run = runs /\ p.seq = Source.generated + 1
    <2>1. FrameSize \in Nat
      BY DEF IsPlan, FrameSize
    <2>2. Lesser(size, FrameSize) \in Nat
      BY <2>1, LesserIs
    <2>3. current \in Nat /\ c.generated \in Nat
      BY <1>5 DEF SimTyped, SimPlaces, GoodSource, IsSource, Counts
    <2>4. (size <= FrameSize) \in BOOLEAN
      BY <2>1
    <2>5. p \in Frames
      BY <1>1, <1>3, <2>2, <2>3, <2>4 DEF Frames
    <2> QED BY <1>3, <1>6, <2>5
  <1>11. \A k \in DOMAIN sources : new[k].initialized = sources[k].initialized
    BY <1>6, <1>9 DEF Source
  <1>12. OneMade(d, p)
    BY <1>4, <1>6, <1>7, <1>8, <1>9, <1>10, <1>11 DEF OneMade, NewFrame
  <1> QED BY <1>12

-----------------------------------------------------------------------------
(* Every step keeps the types                                              *)

(* A scheduler that is built from a plan.                                  *)
LEMMA BuildGood ==
    ASSUME NEW p, IsPlan(p), Build(p)
    PROVE  /\ GoodSources(sources', p.tickNs) /\ GoodBudgets(budgets')
           /\ Len(sources') = Len(p.sources)
           /\ \A k \in DOMAIN sources' : NoCounts(sources'[k]) /\ ~sources'[k].initialized
  <1>1. /\ p.tickNs \in Nat /\ IsList(p.sources) /\ IsList(p.consumers)
        /\ \A k \in DOMAIN p.sources : IsNewSource(p.sources[k])
        /\ \A c \in DOMAIN p.consumers : p.consumers[c].max \in Nat \ {0}
    BY DEF IsPlan
  <1>2. sources' = p.sources
    BY DEF Build
  <1>3. GoodSources(p.sources, p.tickNs)
    BY <1>1, NewSourceGood DEF GoodSources
  <1>4. \A k \in DOMAIN p.sources : NoCounts(p.sources[k]) /\ ~p.sources[k].initialized
    BY <1>1, NewSourceTypes
  <1>5. DOMAIN p.consumers = 1 .. Len(p.consumers) /\ Len(p.consumers) \in Nat
    BY <1>1, ListIs
  <1>6. PICK b : b = [i \in DOMAIN p.consumers |-> p.consumers[i].max]
    OBVIOUS
  <1>7. b = [i \in 1 .. Len(p.consumers) |-> b[i]] /\ DOMAIN b = DOMAIN p.consumers
    BY <1>5, <1>6
  <1>8. IsList(b)
    BY <1>5, <1>7, ListOf
  <1>9. GoodBudgets(b)
    BY <1>1, <1>6, <1>7, <1>8 DEF GoodBudgets
  <1>10. budgets' = b
    BY <1>6 DEF Build
  <1> QED BY <1>2, <1>3, <1>4, <1>9, <1>10

(* The empty sequence is a list.                                           *)
LEMMA EmptyList == IsList(<<>>) /\ DOMAIN <<>> = {}
  <1>1. <<>> \in Seq({}) /\ Len(<<>>) = 0 /\ DOMAIN <<>> = {}
    OBVIOUS
  <1>2. PICK f : f = [i \in 1 .. 0 |-> <<>>[i]]
    OBVIOUS
  <1>3. f \in Seq({}) /\ Len(f) = 0
    BY <1>2
  <1>4. f = <<>>
    BY <1>3, EmptySeq
  <1> QED BY <1>1, <1>2, <1>4 DEF IsList

(* The types hold initially.                                               *)
LEMMA TypedInit ==
    ASSUME Init
    PROVE  SimTyped
  <1>1. SimNumbers
    <2>1. stats \in Stats /\ running \in BOOLEAN
      BY NewStats DEF Init
    <2>2. 0 \in 0 .. MaxRuns
      BY SimAssumption
    <2>3. /\ clock = 0 /\ now = 0 /\ timelineIdx = 0 /\ left = 0 /\ spikeNs = 0
          /\ carried = 0 /\ runs = 0 /\ pc = "load" /\ caller = "none"
      BY DEF Init
    <2> QED BY <2>1, <2>2, <2>3 DEF SimNumbers
  <1>2. SimParts
    <2>1. sources = <<>> /\ budgets = <<>>
      BY DEF Init
    <2>2. IsList(sources) /\ IsList(budgets) /\ DOMAIN sources = {} /\ DOMAIN budgets = {}
      BY <2>1, EmptyList
    <2>3. ring \in Seq(Made) /\ read \in Seq(Made) /\ batch \in Seq(Made)
      BY DEF Init
    <2> QED BY <2>2, <2>3 DEF SimParts, GoodSources, GoodBudgets
  <1>3. SimPlaces
    BY DEF Init, SimPlaces, Loaded, Ticking
  <1>4. SimLive
    BY DEF Init, SimLive, Ticking
  <1> QED BY <1>1, <1>2, <1>3, <1>4 DEF SimTyped

(* A command is compiled to a plan of the right type.                      *)
LEMMA TypedLoad ==
    ASSUME SimTyped, Load, command \in DOMAIN Commands
    PROVE  SimTyped'
  <1>0. /\ SimNumbers /\ SimParts /\ SimPlaces /\ SimLive
        /\ pc = "load" /\ runs = 0 /\ ring = <<>> /\ read = <<>> /\ ~running /\ batch = <<>>
        /\ current = 1
    BY DEF SimTyped, SimPlaces, Load, Loaded, Ticking
  <1>1. /\ clock' = clock /\ ring' = ring /\ timelineIdx' = timelineIdx /\ running' = running
        /\ stats' = stats /\ caller' = caller /\ now' = now /\ current' = current
        /\ left' = left /\ batch' = batch /\ spikeNs' = spikeNs /\ runs' = runs
        /\ read' = read /\ carried' = carried /\ pc' \in {"rejected", "idle"}
    BY DEF Load, polled, past
  <1>2. SimNumbers'
    BY <1>0, <1>1 DEF SimNumbers
  <1>3. ring' \in Seq(Made') /\ read' \in Seq(Made') /\ batch' \in Seq(Made')
    BY <1>0, <1>1
  <1>4. SimLive'
    BY <1>0, <1>1 DEF SimLive, Ticking
  <1>5. CASE pc' = "rejected" /\ UNCHANGED <<plan, sources, budgets, edu>>
    <2>1. SimParts'
      BY <1>0, <1>3, <1>5 DEF SimParts, TickNs
    <2>2. SimPlaces'
      BY <1>0, <1>1, <1>5 DEF SimPlaces, Loaded, Ticking
    <2> QED BY <1>2, <1>4, <2>1, <2>2 DEF SimTyped
  <1>6. ASSUME NEW p \in CompileCommand(Commands[command]),
               pc' = "idle", plan' = p, Build(p)
        PROVE  SimTyped'
    <2>1. IsPlan(p)
      BY <1>6, PlansAssumption
    <2>2. GoodSources(sources', p.tickNs) /\ GoodBudgets(budgets')
      BY <1>6, <2>1, BuildGood
    <2>3. SimParts'
      BY <1>3, <1>6, <2>2 DEF SimParts, TickNs
    <2>4. Len(sources') \in Nat
      BY <2>2 DEF GoodSources, IsList
    <2>5. p.slots \in Nat /\ p.batchSize \in Nat
      BY <2>1 DEF IsPlan
    <2>6. SimPlaces'
      BY <1>0, <1>1, <1>6, <2>1, <2>4, <2>5
         DEF SimPlaces, Loaded, Ticking, RingCapacity, BatchSize
    <2> QED BY <1>2, <1>4, <2>3, <2>6 DEF SimTyped
  <1> QED BY <1>5, <1>6 DEF Load

(* Packets that were made stay known when the sources change.              *)
LEMMA PartsKept ==
    ASSUME SimParts, Made \subseteq Made', GoodSources(sources', TickNs'), GoodBudgets(budgets'),
           ring' = ring, read' = read, batch' = batch \/ batch' = <<>>
    PROVE  SimParts'
  <1>1. ring \in Seq(Made) /\ read \in Seq(Made) /\ batch \in Seq(Made)
    BY DEF SimParts
  <1>2. ring \in Seq(Made')
    BY <1>1, SeqWider
  <1>3. read \in Seq(Made')
    BY <1>1, SeqWider
  <1>4. batch' \in Seq(Made')
    <2>1. batch \in Seq(Made')
      BY <1>1, SeqWider
    <2>2. <<>> \in Seq(Made')
      OBVIOUS
    <2> QED BY <2>1, <2>2
  <1> QED BY <1>2, <1>3, <1>4 DEF SimParts

(* run and step, up to the call of step: nothing but begin happens.        *)
LEMMA TypedBegun ==
    ASSUME SimTyped, pc = "idle", Begun, now' = now, UNCHANGED polled,
           pc' \in {"idle", "step"}, caller' \in {"none", "run", "step"}
    PROVE  SimTyped'
  <1>0. SimNumbers /\ SimParts /\ SimPlaces /\ batch = <<>> /\ current = 1 /\ IsPlan(plan)
        /\ Len(ring) <= RingCapacity
    BY DEF SimTyped, SimPlaces, Loaded, Ticking
  <1>1. /\ current' = current /\ left' = left /\ batch' = batch /\ spikeNs' = spikeNs
        /\ plan' = plan /\ ring' = ring /\ read' = read
    BY DEF polled, Begun
  <1>2. SimNumbers'
    BY <1>0, <1>1 DEF SimNumbers, Begun
  <1>3. SimParts'
    BY <1>0, <1>1, PartsKept DEF Begun
  <1>4. SimPlaces'
    <2>1. Len(sources') \in Nat
      BY <1>3 DEF SimParts, GoodSources, IsList
    <2>2. IsPlan(plan') /\ Len(ring') <= RingCapacity' /\ Len(batch') <= BatchSize'
      BY <1>0, <1>1 DEF RingCapacity, BatchSize, IsPlan
    <2> QED BY <1>0, <1>1, <2>1, <2>2 DEF SimPlaces, Loaded, Ticking
  <1>5. SimLive'
    BY DEF SimLive, Ticking, Begun
  <1> QED BY <1>2, <1>3, <1>4, <1>5 DEF SimTyped

(* run and step keep the types.                                            *)
LEMMA TypedCall ==
    ASSUME SimTyped, RunCall \/ StepCall
    PROVE  SimTyped'
  <1>1. /\ pc = "idle" /\ BeginUnlessRunning /\ now' = now /\ UNCHANGED polled
        /\ pc' \in {"idle", "step"} /\ caller' \in {"none", "run", "step"}
    BY DEF RunCall, StepCall
  <1>2. Loaded
    BY <1>1 DEF Loaded
  <1> QED BY <1>1, <1>2, BeginKeeps, TypedBegun

(* Nothing but the controls or the clock changes.                          *)
LEMMA TypedQuiet ==
    ASSUME SimTyped, clock' \in Nat,
           UNCHANGED <<command, plan, sources, ringed, timelineIdx, running, stats, call,
                       polled, past>>
    PROVE  SimTyped'
  <1>0. SimNumbers /\ SimParts /\ SimPlaces /\ SimLive
    BY DEF SimTyped
  <1>1. /\ plan' = plan /\ sources' = sources /\ ring' = ring /\ budgets' = budgets
        /\ timelineIdx' = timelineIdx /\ running' = running /\ stats' = stats
        /\ pc' = pc /\ caller' = caller /\ now' = now /\ current' = current /\ left' = left
        /\ batch' = batch /\ spikeNs' = spikeNs /\ runs' = runs /\ read' = read
        /\ carried' = carried
    BY DEF ringed, call, polled, past
  <1>2. SimNumbers'
    BY <1>0, <1>1 DEF SimNumbers
  <1>3. SimParts'
    BY <1>0, <1>1 DEF SimParts, Made, TickNs
  <1>4. SimPlaces'
    BY <1>0, <1>1 DEF SimPlaces, Loaded, Ticking, RingCapacity, BatchSize
  <1>5. SimLive'
    BY <1>0, <1>1 DEF SimLive, Ticking
  <1> QED BY <1>2, <1>3, <1>4, <1>5 DEF SimTyped

(* finish keeps the types.                                                 *)
LEMMA TypedFinish ==
    ASSUME SimTyped, pc = "idle", Finish(stats, sources, clock),
           UNCHANGED <<world, ringed, timelineIdx, call, polled, past>>
    PROVE  SimTyped'
  <1>0. SimNumbers /\ SimParts /\ SimPlaces /\ SimLive
    BY DEF SimTyped
  <1>1. /\ clock' = clock /\ plan' = plan /\ ring' = ring /\ budgets' = budgets
        /\ timelineIdx' = timelineIdx
        /\ pc' = pc /\ caller' = caller /\ now' = now /\ current' = current /\ left' = left
        /\ batch' = batch /\ spikeNs' = spikeNs /\ runs' = runs /\ read' = read
        /\ carried' = carried
    BY DEF world, ringed, call, polled, past
  <1>2. TickNs' = TickNs /\ runs \in Nat /\ clock \in Nat /\ stats \in Stats
    BY <1>0, <1>1, SimAssumption DEF SimNumbers, TickNs
  <1>3. /\ stats' \in Stats /\ GoodSources(sources', TickNs) /\ Len(sources') = Len(sources)
        /\ ~running' /\ running' \in BOOLEAN /\ Grown
    BY <1>0, <1>2, FinishIs DEF SimParts
  <1>4. Made \subseteq Made'
    BY <1>1, <1>2, <1>3, MadeGrows
  <1>5. SimNumbers'
    BY <1>0, <1>1, <1>3 DEF SimNumbers
  <1>6. SimParts'
    <2>1. GoodBudgets(budgets')
      BY <1>0, <1>1 DEF SimParts
    <2> QED BY <1>0, <1>1, <1>2, <1>3, <1>4, <2>1, PartsKept
  <1>7. SimPlaces'
    BY <1>0, <1>1, <1>3 DEF SimPlaces, Loaded, Ticking, RingCapacity, BatchSize
  <1>8. SimLive'
    BY <1>1, <1>3 DEF SimLive, Ticking
  <1> QED BY <1>5, <1>6, <1>7, <1>8 DEF SimTyped

(* The scenario is over before the tick.                                   *)
LEMMA TypedOver ==
    ASSUME SimTyped, StepOver
    PROVE  SimTyped'
  <1>0. SimNumbers /\ SimParts /\ SimPlaces /\ SimLive /\ pc = "step"
    BY DEF SimTyped, StepOver
  <1>1. /\ clock' = clock /\ plan' = plan /\ ring' = ring /\ budgets' = budgets
        /\ timelineIdx' = timelineIdx
        /\ caller' = caller /\ now' = now /\ current' = current /\ left' = left
        /\ batch' = batch /\ spikeNs' = spikeNs /\ runs' = runs /\ read' = read
        /\ carried' = carried
    BY DEF StepOver, world, ringed, polled, past
  <1>2. stats \in Stats /\ clock \in Nat /\ StepReturns(FALSE, stats, clock)
    BY <1>0 DEF SimNumbers, StepOver
  <1>3. /\ SourcesKept /\ stats' \in Stats
        /\ pc' \in {"step", "idle"} /\ (pc' = "step" => running')
        /\ running' \in BOOLEAN
        /\ running' => \A k \in DOMAIN sources' :
                         k \in DOMAIN sources /\ sources'[k].initialized = sources[k].initialized
    BY <1>1, <1>2, ReturnsIs
  <1>4. SimNumbers'
    BY <1>0, <1>1, <1>3 DEF SimNumbers
  <1>5. SimParts'
    <2>1. GoodBudgets(budgets')
      BY <1>0, <1>1 DEF SimParts
    <2> QED BY <1>0, <1>1, <1>3, <2>1, PartsKept DEF SourcesKept
  <1>6. SimPlaces'
    BY <1>0, <1>1, <1>3 DEF SimPlaces, Loaded, Ticking, RingCapacity, BatchSize, SourcesKept
  <1>7. SimLive'
    BY <1>0, <1>3 DEF SimLive, Ticking
  <1> QED BY <1>4, <1>5, <1>6, <1>7 DEF SimTyped

(* apply_timeline, before a tick or at a breakpoint.                       *)
LEMMA TypedTimeline ==
    ASSUME SimTyped, StepBreaks \/ StepBegin
    PROVE  SimTyped' /\ SourcesKept
  <1>0. SimNumbers /\ SimParts /\ SimPlaces /\ SimLive /\ pc = "step" /\ IsPlan(plan)
    BY DEF SimTyped, StepBreaks, StepBegin, SimPlaces, Loaded
  <1>1. /\ clock' = clock /\ plan' = plan /\ ring' = ring /\ running' = running
        /\ stats' = stats /\ pc' \in {"idle", "begun"}
        /\ caller' = caller /\ now' = now /\ current' = current /\ left' = left
        /\ batch' = batch /\ spikeNs' = spikeNs /\ runs' = runs /\ read' = read
        /\ carried' = carried
    BY DEF StepBreaks, StepBegin, world, polled, past
  <1>2. PICK tick \in Nat : tick = TickNs /\ tick = TickNs'
    BY <1>0, <1>1 DEF IsPlan, TickNs
  <1>3. ApplyTimeline(sources, timelineIdx, clock) /\ timelineIdx \in Nat
    BY <1>0 DEF StepBreaks, StepBegin, SimNumbers
  <1>4. GoodSources(sources, tick) /\ GoodBudgets(budgets)
    BY <1>0, <1>2 DEF SimParts
  <1>5. /\ GoodSources(sources', tick) /\ SameSources(sources, sources')
        /\ GoodBudgets(budgets') /\ timelineIdx' \in Nat
    BY <1>0, <1>3, <1>4, TimelineApplied
  <1>6. /\ Grown /\ DOMAIN sources' = DOMAIN sources
        /\ \A k \in DOMAIN sources : SameCounts(sources[k], sources'[k])
    BY <1>4, <1>5, SameGrown
  <1>7. Made \subseteq Made'
    <2>1. runs \in Nat
      BY <1>0, SimAssumption DEF SimNumbers
    <2> QED BY <1>1, <1>6, <2>1, MadeGrows
  <1>8. Len(sources') = Len(sources)
    BY <1>5 DEF SameSources
  <1>9. SimNumbers'
    BY <1>0, <1>1, <1>5 DEF SimNumbers
  <1>10. SimParts'
    BY <1>0, <1>1, <1>2, <1>5, <1>7, PartsKept
  <1>11. SimPlaces'
    BY <1>0, <1>1, <1>8 DEF SimPlaces, Loaded, Ticking, RingCapacity, BatchSize
  <1>12. SimLive'
    BY <1>0, <1>1, <1>6 DEF SimLive, Ticking, SameCounts
  <1>13. SourcesKept
    BY <1>2, <1>5, <1>6, <1>7, <1>8 DEF SourcesKept, SameCounts
  <1> QED BY <1>9, <1>10, <1>11, <1>12, <1>13 DEF SimTyped

(* The second reading of the clock keeps the types.                        *)
LEMMA TypedPolls ==
    ASSUME SimTyped, StepPolls
    PROVE  SimTyped'
  <1>0. SimNumbers /\ SimParts /\ SimPlaces /\ SimLive /\ pc = "begun"
    BY DEF SimTyped, StepPolls
  <1>1. /\ clock' = clock /\ plan' = plan /\ sources' = sources /\ ring' = ring
        /\ budgets' = budgets /\ timelineIdx' = timelineIdx /\ running' = running
        /\ stats' = stats /\ pc' = "poll" /\ caller' = caller /\ now' = clock
        /\ batch' = <<>> /\ spikeNs' = 0 /\ current' = 1 /\ left' = 0
        /\ runs' = runs /\ read' = read /\ carried' = carried
    BY DEF StepPolls, world, ringed, past
  <1>2. SimNumbers'
    BY <1>0, <1>1 DEF SimNumbers
  <1>3. SimParts'
    BY <1>0, <1>1 DEF SimParts, Made, TickNs
  <1>4. SimPlaces'
    <2>1. Len(sources) \in Nat
      BY <1>0 DEF SimParts, GoodSources, IsList
    <2>2. IsPlan(plan) /\ Len(ring) <= RingCapacity
      BY <1>0 DEF SimPlaces, Loaded
    <2>3. BatchSize \in Nat
      BY <2>2 DEF IsPlan, BatchSize
    <2> QED BY <1>1, <2>1, <2>2, <2>3 DEF SimPlaces, Loaded, Ticking, RingCapacity, BatchSize
  <1>5. SimLive'
    BY <1>0, <1>1 DEF SimLive, Ticking
  <1> QED BY <1>2, <1>3, <1>4, <1>5 DEF SimTyped

(* A poll begins.                                                          *)
LEMMA TypedPollBegins ==
    ASSUME SimTyped, PollBegins
    PROVE  SimTyped' /\ SourcesKept
  <1>0. SimNumbers /\ SimParts /\ SimPlaces /\ SimLive /\ pc = "poll" /\ current <= Len(sources)
        /\ IsPlan(plan)
    BY DEF SimTyped, PollBegins, SimPlaces, Loaded
  <1>1. /\ clock' = clock /\ plan' = plan /\ ring' = ring
        /\ budgets' = budgets /\ timelineIdx' = timelineIdx /\ running' = running
        /\ stats' = stats /\ pc' = "packets" /\ caller' = caller /\ now' = now
        /\ batch' = <<>> /\ spikeNs' = spikeNs /\ current' = current
        /\ runs' = runs /\ read' = read /\ carried' = carried
    BY DEF PollBegins, world, ringed, past
  <1>2. /\ current \in DOMAIN sources /\ GoodSource(Source, TickNs)
        /\ GoodSources(sources, TickNs) /\ runs \in Nat
    BY <1>0, PolledSource
  <1>3. left' \in Nat /\ SourcesKept /\ \A k \in DOMAIN sources' :
           k \in DOMAIN sources /\ sources'[k].initialized = sources[k].initialized
    <2>1. CASE Source.kind = "nic"
      <3>1. PICK p \in Paced(Source, TickNs) :
               left' = p.count /\ sources' = [sources EXCEPT ![current] = p.source]
        BY <2>1 DEF PollBegins
      <3>2. TickNs \in Nat
        BY <1>0 DEF IsPlan, TickNs
      <3>3. p.count \in Nat /\ GoodSource(p.source, TickNs) /\ SameCounts(Source, p.source)
        BY <1>2, <2>1, <3>2, PacedSource
      <3>4. PICK x : x = p.source
        OBVIOUS
      <3>5. KeepsCounts(Source, x) /\ x.initialized = Source.initialized
        BY <3>3, <3>4, SameKeeps
      <3> QED BY <1>0, <1>1, <3>1, <3>3, <3>4, <3>5, PollKeeps
    <2>2. CASE Source.kind # "nic"
      <3>1. left' = left /\ sources' = sources
        BY <2>2 DEF PollBegins
      <3>2. Made' = Made /\ TickNs' = TickNs
        BY <1>1, <3>1 DEF Made, TickNs
      <3>3. SourcesKept
        BY <1>2, <3>1, <3>2 DEF SourcesKept
      <3>4. left \in Nat
        BY <1>0 DEF SimNumbers
      <3> QED BY <3>1, <3>3, <3>4
    <2> QED BY <2>1, <2>2
  <1>4. SimNumbers'
    BY <1>0, <1>1, <1>3 DEF SimNumbers
  <1>5. SimParts'
    <2>1. GoodBudgets(budgets')
      BY <1>0, <1>1 DEF SimParts
    <2> QED BY <1>0, <1>1, <1>3, <2>1, PartsKept DEF SourcesKept
  <1>6. SimPlaces'
    <2>1. BatchSize \in Nat
      BY <1>0 DEF IsPlan, BatchSize
    <2> QED BY <1>0, <1>1, <1>3, <2>1
            DEF SimPlaces, Loaded, Ticking, RingCapacity, BatchSize, SourcesKept
  <1>7. SimLive'
    BY <1>0, <1>1, <1>3 DEF SimLive, Ticking
  <1> QED BY <1>3, <1>4, <1>5, <1>6, <1>7 DEF SimTyped

(* What a packet changes.                                                  *)
LEMMA PacketMade ==
    ASSUME SimTyped, NicPacket \/ PcapPacket
    PROVE  /\ pc = "packets" /\ current <= Len(sources) /\ IsPlan(plan)
           /\ Len(batch) < BatchSize /\ left' \in Nat
           /\ \E d, p : OneMade(d, p)
           /\ UNCHANGED <<world, ringed, edu, timelineIdx, running, stats, call, current,
                          spikeNs, past>>
  <1>0. /\ SimNumbers /\ pc = "packets" /\ current <= Len(sources) /\ IsPlan(plan)
        /\ Len(batch) < BatchSize
    BY DEF SimTyped, NicPacket, PcapPacket, Polling, SimPlaces, Loaded
  <1>1. /\ current \in DOMAIN sources /\ GoodSource(Source, TickNs)
        /\ GoodSources(sources, TickNs) /\ runs \in Nat
    BY <1>0, PolledSource
  <1>2. CASE NicPacket
    <2>1. PICK n \in PayloadLengths(Source.traffic) : Packet(Source, Defaults.header + n)
      BY <1>2 DEF NicPacket
    <2>2. n \in Nat
      <3>1. Source.kind = "nic"
        BY <1>2 DEF NicPacket, Polling
      <3>2. Source.traffic.payloadSize \in Nat
        BY <1>1, <3>1 DEF GoodSource, IsSource, IsNic, IsTraffic
      <3> QED BY <2>1, <3>2 DEF PayloadLengths
    <2>3. PICK size \in Nat : size = Defaults.header + n
      <3>1. Defaults.header \in Nat
        BY SimAssumption
      <3>2. Defaults.header + n \in Nat
        BY <2>2, <3>1
      <3> QED BY <3>2
    <2>4. SameCounts(Source, Source)
      BY DEF SameCounts
    <2>5. \E d, p : OneMade(d, p)
      BY <1>0, <1>1, <2>1, <2>3, <2>4, PacketIs
    <2>6. left' \in Nat
      BY <1>0, <1>2 DEF NicPacket, SimNumbers
    <2> QED BY <1>0, <1>2, <2>5, <2>6 DEF NicPacket
  <1>3. CASE PcapPacket
    <2>1. PcapReady(Source, now) /\ Packet(PcapTaken(Source, now), PcapSize(Source))
          /\ Source.kind = "pcap"
      BY <1>3 DEF PcapPacket, Polling
    <2>2. PcapSize(Source) \in Nat
      BY <1>1, <2>1, SizeOfPacket
    <2>3. PICK s, size : s = PcapTaken(Source, now) /\ size = PcapSize(Source)
      OBVIOUS
    <2>4. GoodSource(s, TickNs) /\ SameCounts(Source, s)
      BY <1>1, <2>1, <2>3, AskedGood
    <2>5. \E d, p : OneMade(d, p)
      BY <1>0, <2>1, <2>2, <2>3, <2>4, PacketIs
    <2>6. left' \in Nat
      BY <1>0, <1>3 DEF PcapPacket, SimNumbers
    <2> QED BY <1>0, <1>3, <2>5, <2>6 DEF PcapPacket
  <1> QED BY <1>2, <1>3

(* A source that has made a packet more has made all the others, too.      *)
LEMMA MadeByOne ==
    ASSUME SimTyped, current <= Len(sources), runs' = runs, NEW d, NEW p, OneMade(d, p)
    PROVE  Made \subseteq Made' /\ p \in Made'
  <1>1. /\ current \in DOMAIN sources /\ GoodSources(sources, TickNs) /\ runs \in Nat
    BY PolledSource
  <1>2. Source.generated \in Nat /\ \A k \in DOMAIN sources : sources[k].generated \in Nat
    BY <1>1, GoodCounts DEF Source
  <1>3. Grown
    BY <1>1, <1>2 DEF Grown, OneMade, Source
  <1>4. Made \subseteq Made'
    BY <1>1, <1>3, MadeGrows
  <1>5. /\ p \in Frames /\ p.source = current /\ p.run = runs /\ p.seq = Source.generated + 1
        /\ current \in DOMAIN sources' /\ sources'[current].generated = Source.generated + 1
    BY <1>1 DEF OneMade, NewFrame
  <1>6. p \in Made'
    BY <1>1, <1>2, <1>5 DEF Made
  <1> QED BY <1>4, <1>6

(* A packet is made, or dropped, with the next number of its source.       *)
LEMMA TypedPacket ==
    ASSUME SimTyped, NicPacket \/ PcapPacket
    PROVE  SimTyped'
  <1>0. SimNumbers /\ SimParts /\ SimPlaces /\ SimLive
    BY DEF SimTyped
  <1>1. /\ pc = "packets" /\ current <= Len(sources) /\ IsPlan(plan)
        /\ Len(batch) < BatchSize /\ left' \in Nat
        /\ UNCHANGED <<world, ringed, edu, timelineIdx, running, stats, call, current,
                       spikeNs, past>>
    BY PacketMade
  <1>2. PICK d, p : OneMade(d, p)
    BY PacketMade
  <1>3. /\ clock' = clock /\ plan' = plan /\ ring' = ring /\ budgets' = budgets
        /\ timelineIdx' = timelineIdx /\ running' = running
        /\ stats' = stats /\ pc' = pc /\ caller' = caller /\ now' = now
        /\ spikeNs' = spikeNs /\ current' = current
        /\ runs' = runs /\ read' = read /\ carried' = carried
    BY <1>1 DEF world, ringed, call, past
  <1>4. Made \subseteq Made' /\ p \in Made'
    BY <1>1, <1>2, <1>3, MadeByOne
  <1>5. batch' = batch \/ batch' = Append(batch, p)
    BY <1>2 DEF OneMade
  <1>6. ring \in Seq(Made') /\ read \in Seq(Made') /\ batch \in Seq(Made')
    BY <1>0, <1>4, SeqWider DEF SimParts
  <1>7. batch' \in Seq(Made') /\ Len(batch') <= Len(batch) + 1 /\ Len(batch') \in Nat
    <2>1. PICK M : M = Made'
      OBVIOUS
    <2>2. batch \in Seq(M) /\ p \in M
      BY <1>4, <1>6, <2>1
    <2> QED BY <1>5, <2>1, <2>2
  <1>8. GoodSources(sources', TickNs') /\ Len(sources') = Len(sources)
        /\ DOMAIN sources' = DOMAIN sources
        /\ \A k \in DOMAIN sources : sources'[k].initialized = sources[k].initialized
    BY <1>2, <1>3 DEF OneMade, TickNs
  <1>9. SimNumbers'
    BY <1>0, <1>1, <1>3 DEF SimNumbers
  <1>10. SimParts'
    BY <1>0, <1>3, <1>6, <1>7, <1>8 DEF SimParts
  <1>11. SimPlaces'
    <2>1. BatchSize \in Nat /\ BatchSize' = BatchSize /\ Len(batch) \in Nat
      BY <1>0, <1>1, <1>3 DEF IsPlan, BatchSize, SimParts
    <2>2. Len(batch') <= BatchSize'
      BY <1>1, <1>7, <2>1
    <2> QED BY <1>0, <1>1, <1>3, <1>8, <2>2
            DEF SimPlaces, Loaded, Ticking, RingCapacity
  <1>12. SimLive'
    BY <1>0, <1>3, <1>8 DEF SimLive, Ticking
  <1> QED BY <1>9, <1>10, <1>11, <1>12 DEF SimTyped

(* A poll returns.                                                         *)
LEMMA PollReturned ==
    ASSUME SimTyped, NicDone \/ PcapFull \/ PcapWaits
    PROVE  /\ pc = "packets" /\ current <= Len(sources)
           /\ spikeNs' \in Nat /\ SourcesKept /\ \A k \in DOMAIN sources' :
                k \in DOMAIN sources /\ sources'[k].initialized = sources[k].initialized
           /\ \E s : PollReturns(s)
  <1>0. pc = "packets" /\ current <= Len(sources)
    BY DEF SimTyped, NicDone, PcapFull, PcapWaits, Polling, SimPlaces
  <1>1. GoodSource(Source, TickNs)
    BY <1>0, PolledSource
  <1>2. PICK s : GoodSource(s, TickNs) /\ SameCounts(Source, s) /\ PollReturns(s)
    <2>1. CASE PollReturns(Source)
      <3>1. SameCounts(Source, Source)
        BY DEF SameCounts
      <3> QED BY <1>1, <2>1, <3>1
    <2>2. CASE PcapWaits
      <3>1. Source.kind = "pcap" /\ PollReturns(PcapAsked(Source, now))
        BY <2>2 DEF PcapWaits, Polling
      <3> QED BY <1>1, <3>1, AskedGood
    <2> QED BY <2>1, <2>2 DEF NicDone, PcapFull
  <1> QED BY <1>0, <1>2, ReturnKeeps

(* A poll that returns keeps the types.                                    *)
LEMMA TypedReturn ==
    ASSUME SimTyped, NicDone \/ PcapFull \/ PcapWaits
    PROVE  SimTyped'
  <1>0. SimNumbers /\ SimParts /\ SimPlaces /\ SimLive
    BY DEF SimTyped
  <1>1. /\ pc = "packets" /\ current <= Len(sources)
        /\ spikeNs' \in Nat /\ SourcesKept /\ \A k \in DOMAIN sources' :
             k \in DOMAIN sources /\ sources'[k].initialized = sources[k].initialized
    BY PollReturned
  <1>2. PICK s : PollReturns(s)
    BY PollReturned
  <1>3. /\ clock' = clock /\ plan' = plan /\ ring' = ring /\ budgets' = budgets
        /\ timelineIdx' = timelineIdx /\ running' = running
        /\ stats' = stats /\ pc' = "poll" /\ caller' = caller /\ now' = now
        /\ left' = left /\ current' = current + 1 /\ batch' = batch
        /\ runs' = runs /\ read' = read /\ carried' = carried
    BY <1>2 DEF PollReturns, world, ringed, past
  <1>4. SimNumbers'
    BY <1>0, <1>1, <1>3 DEF SimNumbers
  <1>5. SimParts'
    <2>1. GoodBudgets(budgets')
      BY <1>0, <1>3 DEF SimParts
    <2> QED BY <1>0, <1>1, <1>3, <2>1, PartsKept DEF SourcesKept
  <1>6. SimPlaces'
    <2>1. Len(sources') = Len(sources) /\ Len(sources) \in Nat /\ current \in Nat \ {0}
      BY <1>0, <1>1 DEF SourcesKept, SimPlaces, SimParts, GoodSources, IsList
    <2>2. current' \in 1 .. Len(sources') + 1 /\ current' # 1
      BY <1>1, <1>3, <2>1
    <2> QED BY <1>0, <1>1, <1>3, <2>2 DEF SimPlaces, Loaded, Ticking, RingCapacity, BatchSize
  <1>7. SimLive'
    BY <1>0, <1>1, <1>3 DEF SimLive, Ticking
  <1> QED BY <1>4, <1>5, <1>6, <1>7 DEF SimTyped

(* The counters after a push, a drain and a tick.                          *)
WithPushed(s, w, o) == [s EXCEPT !.written = @ + w, !.overflows = @ + o]

(* The counters after a batch.                                             *)
LEMMA StatsPushed ==
    ASSUME NEW s \in Stats, NEW w \in Nat, NEW o \in Nat, NEW t, t = WithPushed(s, w, o)
    PROVE  /\ t \in Stats /\ t.written = s.written + w /\ t.overflows = s.overflows + o
           /\ t.consumed = s.consumed /\ t.generated = s.generated /\ t.dropped = s.dropped
  <1>1. PICK a, b : a = s.written + w /\ b = s.overflows + o
    OBVIOUS
  <1>2. a \in Nat /\ b \in Nat
    BY <1>1 DEF Stats
  <1>3. t = [s EXCEPT !.written = a, !.overflows = b]
    BY <1>1 DEF WithPushed
  <1>4. /\ t \in Stats /\ t.written = a /\ t.overflows = b
        /\ t.consumed = s.consumed /\ t.generated = s.generated /\ t.dropped = s.dropped
    BY ONLY s \in Stats, <1>2, <1>3 DEF Stats
  <1> QED BY <1>1, <1>4

(* The counters after the consumers.                                       *)
LEMMA StatsDrained ==
    ASSUME NEW s \in Stats, NEW n \in Nat, NEW t, t = [s EXCEPT !.consumed = @ + n]
    PROVE  /\ t \in Stats /\ t.consumed = s.consumed + n
           /\ t.written = s.written /\ t.overflows = s.overflows
           /\ t.generated = s.generated /\ t.dropped = s.dropped
  <1>1. PICK a : a = s.consumed + n
    OBVIOUS
  <1>2. a \in Nat
    BY <1>1 DEF Stats
  <1>3. t = [s EXCEPT !.consumed = a]
    BY <1>1
  <1>4. /\ t \in Stats /\ t.consumed = a /\ t.written = s.written /\ t.overflows = s.overflows
        /\ t.generated = s.generated /\ t.dropped = s.dropped
    BY ONLY s \in Stats, <1>2, <1>3 DEF Stats
  <1> QED BY <1>1, <1>4

(* The counters after a tick.                                              *)
LEMMA StatsTicked ==
    ASSUME NEW s \in Stats, NEW time \in Nat,
           NEW t, t = [s EXCEPT !.ticks = @ + 1, !.clock = time]
    PROVE  /\ t \in Stats /\ SameRing(s, t)
           /\ t.generated = s.generated /\ t.dropped = s.dropped
  <1>1. PICK a : a = s.ticks + 1
    OBVIOUS
  <1>2. a \in Nat
    BY <1>1 DEF Stats
  <1>3. t = [s EXCEPT !.ticks = a, !.clock = time]
    BY <1>1
  <1> QED BY ONLY s \in Stats, time \in Nat, <1>2, <1>3 DEF Stats, SameRing

(* The batch is pushed.                                                    *)
LEMMA Pushes ==
    ASSUME SimTyped, PushRing
    PROVE  /\ pc = "poll" /\ IsPlan(plan) /\ ring' \in Seq(Made) /\ Len(ring') <= RingCapacity
           /\ Len(ring') \in Len(ring) .. Len(ring) + Len(batch)
           /\ stats' \in Stats /\ stats'.written = stats.written + (Len(ring') - Len(ring))
           /\ stats'.overflows = stats.overflows + (Len(batch) - (Len(ring') - Len(ring)))
           /\ stats'.consumed = stats.consumed /\ stats'.generated = stats.generated
           /\ stats'.dropped = stats.dropped
  <1>0. /\ pc = "poll" /\ IsPlan(plan) /\ Len(ring) <= RingCapacity
        /\ ring \in Seq(Made) /\ batch \in Seq(Made) /\ stats \in Stats
    BY DEF SimTyped, PushRing, SimPlaces, SimParts, SimNumbers, Loaded
  <1>1. RingCapacity \in Nat
    BY <1>0 DEF IsPlan, RingCapacity
  <1>2. ring' = FoldLeft(TryPush, ring, batch)
    BY DEF PushRing
  <1>3. PICK r : r = FoldLeft(TryPush, ring, batch)
    OBVIOUS
  <1>4. Filled(r, ring, Len(batch), Made)
    BY <1>0, <1>1, <1>3, PushFills
  <1>5. /\ r \in Seq(Made) /\ Len(r) \in Len(ring) .. Len(ring) + Len(batch)
        /\ Len(r) <= RingCapacity
    BY <1>0, <1>4 DEF Filled
  <1>6. PICK w, o : w = Len(r) - Len(ring) /\ o = Len(batch) - w
    OBVIOUS
  <1>9. w \in Nat /\ o \in Nat
    <2>1. Len(ring) \in Nat /\ Len(batch) \in Nat
      BY <1>0
    <2> QED BY <1>5, <1>6, <2>1
  <1>7. stats' = [stats EXCEPT !.written = @ + w, !.overflows = @ + o]
    BY <1>3, <1>6 DEF PushRing
  <1>8. /\ stats' \in Stats /\ stats'.written = stats.written + w
        /\ stats'.overflows = stats.overflows + o
        /\ stats'.consumed = stats.consumed /\ stats'.generated = stats.generated
        /\ stats'.dropped = stats.dropped
    <2>1. PICK s, t : s = stats /\ t = stats'
      OBVIOUS
    <2>2. s \in Stats /\ t = WithPushed(s, w, o)
      BY <1>0, <1>7, <2>1 DEF WithPushed
    <2>3. /\ t \in Stats /\ t.written = s.written + w /\ t.overflows = s.overflows + o
          /\ t.consumed = s.consumed /\ t.generated = s.generated /\ t.dropped = s.dropped
      BY ONLY <1>9, <2>2, StatsPushed
    <2> QED BY <2>1, <2>3
  <1> QED BY <1>0, <1>2, <1>3, <1>5, <1>6, <1>8

(* Pushing the batch keeps the types.                                      *)
LEMMA TypedPush ==
    ASSUME SimTyped, PushRing
    PROVE  SimTyped'
  <1>0. SimNumbers /\ SimParts /\ SimPlaces /\ SimLive
    BY DEF SimTyped
  <1>1. /\ clock' = clock /\ plan' = plan /\ sources' = sources
        /\ budgets' = budgets /\ timelineIdx' = timelineIdx /\ running' = running
        /\ pc' = "drain" /\ caller' = caller /\ now' = now
        /\ left' = left /\ current' = current /\ batch' = batch /\ spikeNs' = spikeNs
        /\ runs' = runs /\ read' = read /\ carried' = carried
    BY DEF PushRing, world, polled, past
  <1>2. /\ pc = "poll" /\ ring' \in Seq(Made) /\ Len(ring') <= RingCapacity /\ stats' \in Stats
    BY Pushes
  <1>3. Made' = Made /\ TickNs' = TickNs
    BY <1>1 DEF Made, TickNs
  <1>4. SimNumbers'
    BY <1>0, <1>1, <1>2 DEF SimNumbers
  <1>5. SimParts'
    BY <1>0, <1>1, <1>2, <1>3 DEF SimParts
  <1>6. SimPlaces'
    BY <1>0, <1>1, <1>2 DEF SimPlaces, Loaded, Ticking, RingCapacity, BatchSize
  <1>7. SimLive'
    BY <1>0, <1>1, <1>2 DEF SimLive, Ticking
  <1> QED BY <1>4, <1>5, <1>6, <1>7 DEF SimTyped

(* The consumers read the first packets of the ring.                       *)
TakenOut(got) ==
    /\ got \in Seq(Made)
    /\ ring' \in Seq(Made) /\ ring = got \o ring' /\ read' = read \o got
    /\ stats' \in Stats /\ stats'.consumed = stats.consumed + Len(got)
    /\ stats'.written = stats.written /\ stats'.overflows = stats.overflows
    /\ stats'.generated = stats.generated /\ stats'.dropped = stats.dropped

(* What the consumers take is cut off the front of the ring.               *)
LEMMA Drains ==
    ASSUME SimTyped, DrainConsumers
    PROVE  \E got : TakenOut(got)
  <1>0. GoodBudgets(budgets) /\ ring \in Seq(Made) /\ stats \in Stats
    BY DEF SimTyped, SimParts, SimNumbers
  <1>1. PICK after : after = FoldLeft(Drained, [rest |-> ring, got |-> <<>>], budgets)
    OBVIOUS
  <1>2. Split(after, ring, Made)
    BY <1>0, <1>1, DrainSplits
  <1>3. PICK got : got = after.got
    OBVIOUS
  <1>4. /\ ring' = after.rest /\ read' = read \o got
        /\ stats' = [stats EXCEPT !.consumed = @ + Len(got)]
    BY <1>1, <1>3 DEF DrainConsumers
  <1>5. got \in Seq(Made) /\ ring' \in Seq(Made) /\ ring = got \o ring'
    BY <1>2, <1>3, <1>4 DEF Split
  <1>6. /\ stats' \in Stats /\ stats'.consumed = stats.consumed + Len(got)
        /\ stats'.written = stats.written /\ stats'.overflows = stats.overflows
        /\ stats'.generated = stats.generated /\ stats'.dropped = stats.dropped
    <2>1. Len(got) \in Nat
      BY <1>5
    <2> QED BY <1>0, <1>4, <2>1, StatsDrained
  <1>7. TakenOut(got)
    BY <1>4, <1>5, <1>6 DEF TakenOut
  <1> QED BY <1>7

(* Draining the ring keeps the types.                                      *)
LEMMA TypedDrain ==
    ASSUME SimTyped, DrainConsumers
    PROVE  SimTyped'
  <1>0. SimNumbers /\ SimParts /\ SimPlaces /\ SimLive /\ pc = "drain"
    BY DEF SimTyped, DrainConsumers
  <1>1. /\ clock' = clock /\ plan' = plan /\ sources' = sources
        /\ budgets' = budgets /\ timelineIdx' = timelineIdx /\ running' = running
        /\ pc' = "end" /\ caller' = caller /\ now' = now
        /\ left' = left /\ current' = current /\ batch' = batch /\ spikeNs' = spikeNs
        /\ runs' = runs /\ carried' = carried
    BY DEF DrainConsumers, world, polled
  <1>9. PICK got : TakenOut(got)
    BY Drains
  <1>2. /\ got \in Seq(Made) /\ ring' \in Seq(Made) /\ ring = got \o ring'
        /\ read' = read \o got /\ stats' \in Stats
    BY <1>9 DEF TakenOut
  <1>3. Made' = Made /\ TickNs' = TickNs
    BY <1>1 DEF Made, TickNs
  <1>4. SimNumbers'
    BY <1>0, <1>1, <1>2 DEF SimNumbers
  <1>5. read' \in Seq(Made) /\ Len(ring) = Len(got) + Len(ring')
    BY <1>0, <1>2, ConcatProperties DEF SimParts
  <1>6. SimParts'
    BY <1>0, <1>1, <1>2, <1>3, <1>5 DEF SimParts
  <1>7. SimPlaces'
    <2>1. /\ Len(ring) <= RingCapacity /\ Len(got) \in Nat /\ Len(ring') \in Nat
          /\ IsPlan(plan)
      BY <1>0, <1>2 DEF SimPlaces, Loaded
    <2>2. RingCapacity \in Nat
      BY <2>1 DEF IsPlan, RingCapacity
    <2>3. Len(ring') <= RingCapacity
      BY <1>5, <2>1, <2>2
    <2> QED BY <1>0, <1>1, <2>3 DEF SimPlaces, Loaded, Ticking, RingCapacity, BatchSize
  <1>8. SimLive'
    BY <1>0, <1>1 DEF SimLive, Ticking
  <1> QED BY <1>4, <1>6, <1>7, <1>8 DEF SimTyped

(* The end of a tick.                                                      *)
LEMMA Ends ==
    ASSUME SimTyped, StepEnd
    PROVE  /\ SourcesKept /\ stats' \in Stats /\ SameRing(stats, stats') /\ clock' \in Nat
           /\ pc' \in {"step", "idle"} /\ (pc' = "step" => running') /\ running' \in BOOLEAN
           /\ running' => \A k \in DOMAIN sources' :
                            k \in DOMAIN sources /\ sources'[k].initialized = sources[k].initialized
           /\ stats'.generated = Total(sources, "generated")
           /\ stats'.dropped = Total(sources, "dropped")
  <1>0. /\ SimNumbers /\ IsPlan(plan) /\ GoodSources(sources, TickNs) /\ plan' = plan /\ runs' = runs
    BY DEF SimTyped, SimPlaces, SimParts, Loaded, StepEnd, past
  <1>1. PICK next : next = IF mode = "Virtual" THEN clock + AdvanceNs ELSE clock
    OBVIOUS
  <1>2. next \in Nat
    <2>1. clock \in Nat /\ spikeNs \in Nat
      BY <1>0 DEF SimNumbers
    <2>2. plan.tickNs \in Nat
      BY <1>0 DEF IsPlan
    <2> QED BY <1>1, <2>1, <2>2 DEF AdvanceNs, TickNs
  <1>3. PICK snap : snap = Snapshot(stats, sources)
    OBVIOUS
  <1>4. /\ snap \in Stats /\ SameRing(stats, snap)
        /\ snap.generated = Total(sources, "generated") /\ snap.dropped = Total(sources, "dropped")
    BY <1>0, <1>3, SnapshotIs DEF SimNumbers, SameRing
  <1>5. PICK st : st = [snap EXCEPT !.ticks = @ + 1, !.clock = next]
    OBVIOUS
  <1>12. /\ st \in Stats /\ SameRing(snap, st)
         /\ st.generated = snap.generated /\ st.dropped = snap.dropped
    BY <1>2, <1>4, <1>5, StatsTicked
  <1>6. /\ st \in Stats /\ SameRing(stats, st)
        /\ st.generated = Total(sources, "generated") /\ st.dropped = Total(sources, "dropped")
    BY <1>4, <1>12 DEF SameRing
  <1>7. clock' = next /\ StepReturns(next < DurationNs, st, next)
    BY <1>1, <1>3, <1>5 DEF StepEnd
  <1>8. PICK more : more = (next < DurationNs)
    OBVIOUS
  <1>13. more \in BOOLEAN
    BY <1>8
  <1>9. /\ SourcesKept /\ stats' \in Stats /\ SameRing(st, stats')
        /\ pc' \in {"step", "idle"} /\ (pc' = "step" => running')
        /\ running' \in BOOLEAN
        /\ running' => \A k \in DOMAIN sources' :
                         k \in DOMAIN sources /\ sources'[k].initialized = sources[k].initialized
        /\ \/ stats' = st
           \/ /\ stats'.generated = Total(sources, "generated")
              /\ stats'.dropped = Total(sources, "dropped")
    <2>1. StepReturns(more, st, next)
      BY <1>7, <1>8
    <2> QED BY <1>0, <1>2, <1>6, <1>13, <2>1, ReturnsIs
  <1>10. SameRing(stats, stats')
    BY <1>6, <1>9 DEF SameRing
  <1>11. stats'.generated = Total(sources, "generated") /\ stats'.dropped = Total(sources, "dropped")
    BY <1>6, <1>9
  <1> QED BY <1>2, <1>7, <1>9, <1>10, <1>11

(* The end of a tick keeps the types.                                      *)
LEMMA TypedEnd ==
    ASSUME SimTyped, StepEnd
    PROVE  SimTyped'
  <1>0. SimNumbers /\ SimParts /\ SimPlaces /\ SimLive /\ pc = "end"
    BY DEF SimTyped, StepEnd
  <1>1. /\ plan' = plan /\ ring' = ring /\ budgets' = budgets /\ timelineIdx' = timelineIdx
        /\ caller' = caller /\ runs' = runs /\ read' = read /\ carried' = carried
        /\ now' = 0 /\ batch' = <<>> /\ spikeNs' = 0 /\ current' = 1 /\ left' = 0
    BY DEF StepEnd, NoLocals, ringed, past
  <1>2. /\ SourcesKept /\ stats' \in Stats /\ clock' \in Nat
        /\ pc' \in {"step", "idle"} /\ (pc' = "step" => running') /\ running' \in BOOLEAN
        /\ running' => \A k \in DOMAIN sources' :
                         k \in DOMAIN sources /\ sources'[k].initialized = sources[k].initialized
    BY Ends
  <1>3. SimNumbers'
    BY <1>0, <1>1, <1>2 DEF SimNumbers
  <1>4. SimParts'
    <2>1. GoodBudgets(budgets')
      BY <1>0, <1>1 DEF SimParts
    <2> QED BY <1>0, <1>1, <1>2, <2>1, PartsKept DEF SourcesKept
  <1>5. SimPlaces'
    <2>1. /\ Len(sources') \in Nat /\ IsPlan(plan) /\ Len(ring) <= RingCapacity
      BY <1>0, <1>4 DEF SimParts, GoodSources, IsList, SimPlaces, Loaded
    <2>2. BatchSize \in Nat
      BY <2>1 DEF IsPlan, BatchSize
    <2> QED BY <1>1, <1>2, <2>1, <2>2 DEF SimPlaces, Loaded, Ticking, RingCapacity, BatchSize
  <1>6. SimLive'
    BY <1>0, <1>2 DEF SimLive, Ticking
  <1> QED BY <1>3, <1>4, <1>5, <1>6 DEF SimTyped

-----------------------------------------------------------------------------
(* SimInv                                                                  *)

(* Every step keeps the types.                                             *)
LEMMA TypedNext ==
    ASSUME SimTyped, command \in DOMAIN Commands, [Next]_vars
    PROVE  SimTyped' /\ command' = command
  <1>1. command' = command
    BY DEF Next, StepContinues, vars, world, Load, RunCall, StepCall, BeginUnlessRunning, Begin,
           SetEdu, FinishRun, StepOver, StepBreaks, StepBegin, StepPolls, PollBegins, NicPacket,
           PcapPacket, NicDone, PcapFull, PcapWaits, PollReturns, PushRing, DrainConsumers,
           StepEnd, RealTimePasses
  <1>2. ASSUME UNCHANGED vars PROVE SimTyped'
    <2>1. UNCHANGED <<command, plan, sources, ringed, timelineIdx, running, stats, call,
                      polled, past>> /\ clock' = clock
      BY <1>2 DEF vars, world
    <2>2. clock' \in Nat
      BY <2>1 DEF SimTyped, SimNumbers
    <2> QED BY <2>1, <2>2, TypedQuiet
  <1>3. ASSUME SetEdu PROVE SimTyped'
    <2>1. UNCHANGED <<command, plan, sources, ringed, timelineIdx, running, stats, call,
                      polled, past>> /\ clock' = clock
      BY <1>3 DEF SetEdu, world
    <2>2. clock' \in Nat
      BY <2>1 DEF SimTyped, SimNumbers
    <2> QED BY <2>1, <2>2, TypedQuiet
  <1>4. ASSUME RealTimePasses PROVE SimTyped'
    <2>1. UNCHANGED <<command, plan, sources, ringed, timelineIdx, running, stats, call,
                      polled, past>> /\ clock' = clock + 1
      BY <1>4 DEF RealTimePasses
    <2>2. clock' \in Nat
      BY <2>1 DEF SimTyped, SimNumbers
    <2> QED BY <2>1, <2>2, TypedQuiet
  <1>5. ASSUME FinishRun PROVE SimTyped'
    <2>1. /\ pc = "idle" /\ Finish(stats, sources, clock)
          /\ UNCHANGED <<world, ringed, timelineIdx, call, polled, past>>
      BY <1>5 DEF FinishRun
    <2> QED BY <2>1, TypedFinish
  <1>6. ASSUME StepContinues PROVE SimTyped'
    <2>1. ASSUME StepOver \/ StepBreaks \/ StepBegin \/ StepPolls PROVE SimTyped'
      BY <2>1, TypedOver, TypedTimeline, TypedPolls
    <2>2. ASSUME PollBegins \/ NicPacket \/ PcapPacket PROVE SimTyped'
      BY <2>2, TypedPollBegins, TypedPacket
    <2>3. ASSUME NicDone \/ PcapFull \/ PcapWaits PROVE SimTyped'
      BY <2>3, TypedReturn
    <2>4. ASSUME PushRing \/ DrainConsumers \/ StepEnd PROVE SimTyped'
      BY <2>4, TypedPush, TypedDrain, TypedEnd
    <2> QED BY <1>6, <2>1, <2>2, <2>3, <2>4 DEF StepContinues
  <1>7. ASSUME Load PROVE SimTyped'
    BY <1>7, TypedLoad
  <1>8. ASSUME RunCall \/ StepCall PROVE SimTyped'
    BY <1>8, TypedCall
  <1> QED BY <1>1, <1>2, <1>3, <1>4, <1>5, <1>6, <1>7, <1>8 DEF Next

(* What the ring and the batch hold is within the limits of the plan.      *)
LEMMA TypedIsTypeOK ==
    ASSUME SimTyped
    PROVE  TypeOK
  <1>1. SimNumbers /\ SimParts /\ SimPlaces
    BY DEF SimTyped
  <1>2. /\ clock \in Nat /\ now \in Nat /\ timelineIdx \in Nat /\ running \in BOOLEAN
        /\ caller \in {"none", "run", "step"} /\ left \in Nat /\ runs \in 0 .. MaxRuns
        /\ pc \in {"load", "rejected", "idle", "step", "begun", "poll", "packets", "drain", "end"}
    BY <1>1 DEF SimNumbers
  <1>3. ring # <<>> => Len(ring) <= RingCapacity
    BY <1>1 DEF SimPlaces
  <1>4. batch # <<>> => Len(batch) <= BatchSize
    BY <1>1 DEF SimPlaces, Loaded, Ticking
  <1>5. \A i \in DOMAIN budgets : budgets[i] >= 1
    BY <1>1 DEF SimParts, GoodBudgets
  <1>6. DOMAIN stats = DOMAIN NoStats /\ \A f \in DOMAIN stats : stats[f] \in Nat
    BY <1>1 DEF SimNumbers, Stats, NoStats
  <1>7. current \in 1 .. Len(sources) + 1
    BY <1>1 DEF SimPlaces
  <1> QED BY <1>2, <1>3, <1>4, <1>5, <1>6, <1>7 DEF TypeOK

(* The balance of the ring is a matter of its length and three numbers.    *)
LEMMA BalanceKept ==
    ASSUME RingBalances, ring' = ring, carried' = carried, SameRing(stats, stats')
    PROVE  RingBalances'
  BY DEF RingBalances, SameRing

(* Every step keeps the balance of the ring.                               *)
LEMMA BalanceNext ==
    ASSUME SimTyped, RingBalances, [Next]_vars
    PROVE  RingBalances'
  <1>0. /\ stats \in Stats /\ ring \in Seq(Made) /\ clock \in Nat
        /\ GoodSources(sources, TickNs)
    BY DEF SimTyped, SimNumbers, SimParts
  <1>1. ASSUME UNCHANGED <<ring, carried, stats>> PROVE RingBalances'
    BY <1>1 DEF RingBalances
  <1>2. ASSUME SetEdu \/ Load \/ RealTimePasses \/ UNCHANGED vars PROVE RingBalances'
    <2>1. UNCHANGED <<ring, carried, stats>>
      BY <1>2 DEF SetEdu, Load, RealTimePasses, vars, ringed, past
    <2> QED BY <1>1, <2>1
  <1>3. ASSUME StepBreaks \/ StepBegin \/ StepPolls \/ PollBegins \/ NicPacket \/ PcapPacket
        PROVE  RingBalances'
    <2>1. UNCHANGED <<ring, carried, stats>>
      BY <1>3 DEF StepBreaks, StepBegin, StepPolls, PollBegins, NicPacket, PcapPacket,
                  ringed, past
    <2> QED BY <1>1, <2>1
  <1>4. ASSUME NicDone \/ PcapFull \/ PcapWaits PROVE RingBalances'
    <2>1. UNCHANGED <<ring, carried, stats>>
      BY <1>4 DEF NicDone, PcapFull, PcapWaits, PollReturns, ringed, past
    <2> QED BY <1>1, <2>1
  <1>5. ASSUME FinishRun PROVE RingBalances'
    <2>1. Finish(stats, sources, clock) /\ ring' = ring /\ carried' = carried
      BY <1>5 DEF FinishRun, ringed, past
    <2>2. SameRing(stats, stats')
      BY <1>0, <2>1, FinishIs
    <2> QED BY <2>1, <2>2, BalanceKept
  <1>6. ASSUME StepOver PROVE RingBalances'
    <2>1. /\ StepReturns(FALSE, stats, clock) /\ ring' = ring /\ carried' = carried
          /\ plan' = plan /\ runs' = runs
      BY <1>6 DEF StepOver, world, ringed, past
    <2>2. SameRing(stats, stats')
      BY <1>0, <2>1, ReturnsIs
    <2> QED BY <2>1, <2>2, BalanceKept
  <1>7. ASSUME StepEnd PROVE RingBalances'
    <2>1. ring' = ring /\ carried' = carried
      BY <1>7 DEF StepEnd, ringed, past
    <2>2. SameRing(stats, stats')
      BY <1>7, Ends
    <2> QED BY <2>1, <2>2, BalanceKept
  <1>8. ASSUME PushRing PROVE RingBalances'
    <2>1. carried' = carried
      BY <1>8 DEF PushRing, past
    <2>2. /\ stats'.written = stats.written + (Len(ring') - Len(ring))
          /\ stats'.consumed = stats.consumed /\ Len(ring') \in Nat
      BY <1>0, <1>8, Pushes
    <2>3. stats.written \in Nat /\ stats.consumed \in Nat /\ Len(ring) \in Nat /\ carried \in Nat
      BY <1>0 DEF Stats, SimTyped, SimNumbers
    <2> QED BY <2>1, <2>2, <2>3 DEF RingBalances
  <1>9. ASSUME DrainConsumers PROVE RingBalances'
    <2>1. carried' = carried
      BY <1>9 DEF DrainConsumers
    <2>2. PICK got : TakenOut(got)
      BY <1>9, Drains
    <2>3. /\ got \in Seq(Made) /\ ring' \in Seq(Made) /\ ring = got \o ring'
          /\ stats'.consumed = stats.consumed + Len(got) /\ stats'.written = stats.written
      BY <2>2 DEF TakenOut
    <2>4. /\ Len(ring) = Len(got) + Len(ring') /\ Len(got) \in Nat /\ Len(ring') \in Nat
      BY <2>3, ConcatProperties
    <2>5. stats.written \in Nat /\ stats.consumed \in Nat /\ carried \in Nat
      BY <1>0 DEF Stats, SimTyped, SimNumbers
    <2> QED BY <2>1, <2>3, <2>4, <2>5 DEF RingBalances
  <1>10. ASSUME RunCall \/ StepCall PROVE RingBalances'
    <2>1. BeginUnlessRunning
      BY <1>10 DEF RunCall, StepCall
    <2>2. CASE running /\ UNCHANGED <<world, sources, ringed, timelineIdx, running, stats, past>>
      BY <1>1, <2>2 DEF ringed, past
    <2>3. CASE ~running /\ runs < MaxRuns /\ Begin
      <3>1. stats' = NoStats /\ ring' = ring /\ carried' = Len(ring)
        BY <2>3 DEF Begin
      <3>2. Len(ring) \in Nat
        BY <1>0
      <3> QED BY <3>1, <3>2 DEF RingBalances, NoStats
    <2> QED BY <2>1, <2>2, <2>3 DEF BeginUnlessRunning
  <1> QED BY <1>2, <1>3, <1>4, <1>5, <1>6, <1>7, <1>8, <1>9, <1>10 DEF Next, StepContinues

(* Ring, batch, budgets and counters of the scheduler have their types and *)
(* keep to the capacities of the plan, and what is in the ring and what    *)
(* was read is what was written in this run or left by an earlier one.     *)
THEOREM SimInvHolds == Spec => []SimInv
  <1>1. Init => SimTyped /\ command \in DOMAIN Commands /\ RingBalances
    <2>1. Init => SimTyped
      BY TypedInit
    <2>2. Init => RingBalances
      BY DEF Init, RingBalances, NoStats
    <2> QED BY <2>1, <2>2 DEF Init
  <1>2. /\ SimTyped /\ command \in DOMAIN Commands /\ RingBalances /\ [Next]_vars
        => (SimTyped /\ command \in DOMAIN Commands /\ RingBalances)'
    <2> SUFFICES ASSUME SimTyped, command \in DOMAIN Commands, RingBalances, [Next]_vars
                 PROVE  SimTyped' /\ command' \in DOMAIN Commands /\ RingBalances'
      OBVIOUS
    <2>1. SimTyped' /\ command' = command
      BY TypedNext
    <2>2. RingBalances'
      BY BalanceNext
    <2> QED BY <2>1, <2>2
  <1>3. SimTyped /\ RingBalances => SimInv
    BY TypedIsTypeOK DEF SimInv
  <1> QED BY <1>1, <1>2, <1>3, PTL DEF Spec

-----------------------------------------------------------------------------
(* RatesExact                                                              *)

(* A quotient whose remainder is in range is the quotient.                 *)
LEMMA DivUnique ==
    ASSUME NEW n \in Nat, NEW m \in Nat \ {0}, NEW q \in Nat, NEW r \in Nat,
           n = q * m + r, r < m
    PROVE  n \div m = q
  <1>1. PICK k \in Nat, t \in 0 .. m - 1 : n = m * k + t /\ k = n \div m
    BY DivMod
  <1>2. k * m + t = q * m + r
    <2>1. m * k = k * m
      OBVIOUS
    <2> QED BY <1>1, <2>1
  <1>3. ASSUME NEW a \in Nat, NEW b \in Nat, a < b PROVE a * m + m <= b * m
    <2>1. (a + 1) * m <= b * m
      BY <1>3, TimesMonotone
    <2>2. (a + 1) * m = a * m + m
      OBVIOUS
    <2> QED BY <2>1, <2>2
  <1>4. k * m \in Nat /\ q * m \in Nat
    OBVIOUS
  <1>5. ~(k < q)
    <2>1. SUFFICES ASSUME k < q PROVE FALSE
      OBVIOUS
    <2>2. k * m + m <= q * m
      BY <1>3, <2>1
    <2> HIDE <1>3
    <2> QED BY <1>2, <1>4, <2>2
  <1>6. ~(q < k)
    <2>1. SUFFICES ASSUME q < k PROVE FALSE
      OBVIOUS
    <2>2. q * m + m <= k * m
      BY <1>3, <2>1
    <2> HIDE <1>3
    <2> QED BY <1>2, <1>4, <2>2
  <1> QED BY <1>1, <1>5, <1>6

(* There are no sources before there is a plan, and nothing is counted.    *)
Unloaded == ~Loaded => sources = <<>> /\ stats = NoStats

(* Before a command is compiled there are no sources.                      *)
LEMMA UnloadedNext ==
    ASSUME SimTyped, Unloaded, [Next]_vars
    PROVE  Unloaded'
  <1>1. ASSUME pc' = pc, sources' = sources, stats' = stats PROVE Unloaded'
    BY <1>1 DEF Unloaded, Loaded
  <1>2. CASE UNCHANGED vars
    BY <1>1, <1>2 DEF vars, call
  <1>3. CASE Load
    BY <1>3 DEF Load, Unloaded, Loaded
  <1>4. CASE SetEdu \/ RealTimePasses
    BY <1>1, <1>4 DEF SetEdu, RealTimePasses, call
  <1>5. CASE RunCall \/ StepCall
    BY <1>5 DEF RunCall, StepCall, Unloaded, Loaded
  <1>6. CASE FinishRun
    BY <1>6 DEF FinishRun, call, Unloaded, Loaded
  <1>7. CASE StepContinues
    <2>1. Loaded'
      BY <1>7 DEF StepContinues, StepOver, StepReturns, StepBreaks, StepBegin, StepPolls,
                  PollBegins, NicPacket, PcapPacket, Polling, call, NicDone, PcapFull, PcapWaits,
                  PollReturns, PushRing, DrainConsumers, StepEnd, Loaded
    <2> QED BY <2>1 DEF Unloaded
  <1> QED BY <1>2, <1>3, <1>4, <1>5, <1>6, <1>7 DEF Next

(* A source that is rated has sent what its rate asks for.                 *)
LEMMA RatedIsExact ==
    ASSUME NEW s, NEW tick \in Nat, GoodSource(s, tick), s.kind = "nic",
           s.traffic.pattern = "FixedRate", s.traffic.pps > 0,
           NEW ns, ns = NsPerSecond \div s.traffic.pps, ns > 0,
           tick \div ns < s.traffic.batchSize
    PROVE  s.paced = (s.polls * tick) \div ns
  <1>1. IsNic(s) /\ RateKept(s, tick)
    BY DEF GoodSource, IsSource, Rated
  <1>2. s.traffic.pps \in Nat \ {0}
    BY <1>1 DEF IsNic, IsTraffic
  <1>3. ns \in Nat \ {0}
    BY ONLY <1>2, ns = NsPerSecond \div s.traffic.pps, ns > 0, SecondAssumption, DivMod
  <1>4. s.polls \in Nat /\ s.paced \in Nat /\ s.pacer.carry \in Nat
    BY <1>1 DEF IsNic, IsPacer
  <1>5. s.polls * tick = s.paced * ns + s.pacer.carry /\ s.pacer.carry < ns
    BY <1>1 DEF RateKept
  <1>6. s.polls * tick \in Nat
    BY ONLY <1>4, tick \in Nat
  <1> QED BY ONLY <1>3, <1>4, <1>5, <1>6, DivUnique

(* What SimTyped says of the pacers is that the rates are exact.           *)
LEMMA TypedIsExact ==
    ASSUME SimTyped, Unloaded
    PROVE  RatesExact
  <1>1. CASE ~Loaded
    BY <1>1 DEF Unloaded, RatesExact
  <1>2. CASE Loaded
    <2>1. TickNs \in Nat /\ GoodSources(sources, TickNs)
      BY <1>2 DEF SimTyped, SimParts, SimPlaces, IsPlan, TickNs
    <2>2. SUFFICES ASSUME NEW k \in DOMAIN sources, sources[k].kind = "nic"
                   PROVE
            /\ sources[k].traffic.pattern = "FixedRate" /\ sources[k].traffic.pps > 0 =>
                 LET nsPerPacket == NsPerSecond \div sources[k].traffic.pps
                 IN  nsPerPacket > 0 /\ TickNs \div nsPerPacket < sources[k].traffic.batchSize =>
                       sources[k].paced = (sources[k].polls * TickNs) \div nsPerPacket
            /\ sources[k].traffic.pattern = "Burst" /\ sources[k].traffic.burstSize > 0 =>
                 (sources[k].paced + sources[k].pacer.burstRemaining)
                    % sources[k].traffic.burstSize = 0
      BY DEF RatesExact
    <2>3. PICK s, tick : s = sources[k] /\ tick = TickNs
      OBVIOUS
    <2>4. GoodSource(s, tick) /\ tick \in Nat /\ s.kind = "nic"
      BY <2>1, <2>2, <2>3 DEF GoodSources
    <2>5. /\ s.traffic.pattern = "FixedRate" /\ s.traffic.pps > 0 =>
                 LET nsPerPacket == NsPerSecond \div s.traffic.pps
                 IN  nsPerPacket > 0 /\ tick \div nsPerPacket < s.traffic.batchSize =>
                       s.paced = (s.polls * tick) \div nsPerPacket
      BY ONLY <2>4, RatedIsExact
    <2>6. s.traffic.pattern = "Burst" /\ s.traffic.burstSize > 0 =>
                 (s.paced + s.pacer.burstRemaining) % s.traffic.burstSize = 0
      BY <2>4 DEF GoodSource, Rated, BurstKept
    <2> QED BY <2>3, <2>5, <2>6
  <1> QED BY <1>1, <1>2

(* A NIC at a fixed rate has been asked for exactly the packets of the     *)
(* time it was polled for, for every rate, tick and batch large enough,    *)
(* across changes of its traffic; what a burst has still to send completes *)
(* it.                                                                     *)
THEOREM RatesExactHolds == Spec => []RatesExact
  <1>1. Init => SimTyped /\ command \in DOMAIN Commands /\ Unloaded
    <2>1. Init => SimTyped
      BY TypedInit
    <2> QED BY <2>1 DEF Init, Unloaded
  <1>2. /\ SimTyped /\ command \in DOMAIN Commands /\ Unloaded /\ [Next]_vars
        => (SimTyped /\ command \in DOMAIN Commands /\ Unloaded)'
    <2> SUFFICES ASSUME SimTyped, command \in DOMAIN Commands, Unloaded, [Next]_vars
                 PROVE  SimTyped' /\ command' \in DOMAIN Commands /\ Unloaded'
      OBVIOUS
    <2>1. SimTyped' /\ command' = command
      BY TypedNext
    <2>2. Unloaded'
      BY UnloadedNext
    <2> QED BY <2>1, <2>2
  <1>3. SimTyped /\ Unloaded => RatesExact
    BY TypedIsExact
  <1> QED BY <1>1, <1>2, <1>3, PTL DEF Spec

-----------------------------------------------------------------------------
(* ReadInOrder                                                             *)

(* A packet that is made now comes after every one that was made before.   *)
LEMMA MadeBefore ==
    ASSUME runs \in Nat, Source.generated \in Nat, NEW p, NewFrame(p), NEW q \in Made
    PROVE  Before(q, p)
  <1>1. q.run <= runs /\ (q.run = runs => q.seq <= sources[q.source].generated) /\ q \in Frames
    BY DEF Made
  <1>2. q.run \in Nat /\ q.seq \in Nat
    BY <1>1 DEF Frames
  <1>3. p.source = current /\ p.run = runs /\ p.seq = Source.generated + 1
    BY DEF NewFrame
  <1>4. SUFFICES ASSUME q.source = current PROVE q.run < p.run \/ (q.run = p.run /\ q.seq < p.seq)
    BY <1>3 DEF Before
  <1>5. CASE q.run = runs
    <2>1. q.seq <= Source.generated
      BY <1>1, <1>4, <1>5 DEF Source
    <2> QED BY <1>2, <1>3, <1>5, <2>1
  <1>6. CASE q.run # runs
    BY <1>1, <1>2, <1>3, <1>6
  <1> QED BY <1>5, <1>6

(* Where an ordered queue is cut, both parts are ordered and the second    *)
(* one follows the first.                                                  *)
LEMMA CutOrdered ==
    ASSUME NEW S, NEW f \in Seq(S), NEW g \in Seq(S), NEW r \in Seq(S),
           NEW q, q = g \o r, Ordered(f), Ordered(q), Precede(f, q)
    PROVE  Ordered(f \o g) /\ Ordered(r) /\ Precede(f \o g, r)
  <1>1. PICK m \in Nat, n \in Nat, k \in Nat :
           /\ m = Len(f) /\ n = Len(g) /\ k = Len(r)
           /\ DOMAIN f = 1 .. m /\ DOMAIN g = 1 .. n /\ DOMAIN r = 1 .. k
    OBVIOUS
  <1>2. DOMAIN q = 1 .. n + k /\ \A i \in 1 .. n : q[i] = g[i]
    BY <1>1
  <1>3. \A i \in 1 .. k : q[n + i] = r[i]
    BY <1>1
  <1>4. PICK h : h = f \o g
    OBVIOUS
  <1>5. DOMAIN h = 1 .. m + n /\ \A i \in 1 .. m : h[i] = f[i]
    BY <1>1, <1>4
  <1>6. \A i \in 1 .. m + n : i > m => i - m \in 1 .. n /\ h[i] = g[i - m]
    BY <1>1, <1>4
  <1>7. ASSUME NEW i \in DOMAIN h, NEW j \in DOMAIN h, i < j PROVE Before(h[i], h[j])
    <2>1. CASE i <= m /\ j <= m
      <3>1. i \in DOMAIN f /\ j \in DOMAIN f /\ h[i] = f[i] /\ h[j] = f[j]
        BY <1>1, <1>5, <2>1
      <3> QED BY <1>7, <3>1 DEF Ordered
    <2>2. CASE i <= m /\ j > m
      <3>1. i \in DOMAIN f /\ h[i] = f[i] /\ j - m \in 1 .. n /\ h[j] = g[j - m]
        BY <1>1, <1>5, <1>6, <2>2
      <3>2. j - m \in DOMAIN q /\ q[j - m] = g[j - m]
        BY <1>1, <1>2, <3>1
      <3>3. Before(f[i], q[j - m])
        BY <3>1, <3>2 DEF Precede
      <3> QED BY <3>1, <3>2, <3>3
    <2>3. CASE i > m /\ j > m
      <3>1. /\ i - m \in 1 .. n /\ h[i] = g[i - m]
            /\ j - m \in 1 .. n /\ h[j] = g[j - m]
        BY <1>5, <1>6, <2>3
      <3>2. /\ i - m \in DOMAIN q /\ q[i - m] = g[i - m] /\ i - m < j - m
            /\ j - m \in DOMAIN q /\ q[j - m] = g[j - m]
        BY <1>1, <1>2, <1>5, <1>7, <3>1
      <3>3. Before(q[i - m], q[j - m])
        BY <3>2 DEF Ordered
      <3> QED BY <3>1, <3>2, <3>3
    <2> QED BY <1>1, <1>5, <1>7, <2>1, <2>2, <2>3
  <1>8. ASSUME NEW i \in DOMAIN r, NEW j \in DOMAIN r, i < j PROVE Before(r[i], r[j])
    <2>1. n + i \in DOMAIN q /\ n + j \in DOMAIN q /\ n + i < n + j
      BY <1>1, <1>2, <1>8
    <2>2. q[n + i] = r[i] /\ q[n + j] = r[j]
      BY <1>1, <1>3
    <2>3. Before(q[n + i], q[n + j])
      BY <2>1 DEF Ordered
    <2> QED BY <2>2, <2>3
  <1>9. ASSUME NEW i \in DOMAIN h, NEW j \in DOMAIN r PROVE Before(h[i], r[j])
    <2>0. n + j \in DOMAIN q /\ q[n + j] = r[j]
      BY <1>1, <1>2, <1>3
    <2>1. CASE i <= m
      <3>1. i \in DOMAIN f /\ h[i] = f[i]
        BY <1>1, <1>5, <2>1
      <3>2. Before(f[i], q[n + j])
        BY <2>0, <3>1 DEF Precede
      <3> QED BY <2>0, <3>1, <3>2
    <2>2. CASE i > m
      <3>1. i - m \in 1 .. n /\ h[i] = g[i - m]
        BY <1>5, <1>6, <2>2
      <3>2. i - m \in DOMAIN q /\ q[i - m] = g[i - m] /\ i - m < n + j
        BY <1>1, <1>2, <3>1
      <3>3. Before(q[i - m], q[n + j])
        BY <2>0, <3>2 DEF Ordered
      <3> QED BY <2>0, <3>1, <3>2, <3>3
    <2> QED BY <1>1, <1>5, <2>1, <2>2
  <1>10. Ordered(h)
    BY <1>7 DEF Ordered
  <1>11. Ordered(r)
    BY <1>8 DEF Ordered
  <1>12. Precede(h, r)
    BY <1>9 DEF Precede
  <1> QED BY <1>4, <1>10, <1>11, <1>12

(* The empty sequence is in order, and behind every other one.             *)
LEMMA EmptyOrdered == Ordered(<<>>) /\ \A s : Precede(s, <<>>)
  BY DEF Ordered, Precede

(* Nothing moves but, perhaps, out of the batch.                           *)
LEMMA OrderKept ==
    ASSUME SimOrdered, ring' = ring, read' = read,
           \/ batch' = <<>>
           \/ batch' = batch /\ (Collecting' => Collecting)
    PROVE  SimOrdered'
  BY EmptyOrdered DEF SimOrdered, Collecting

(* Every step keeps what was read, the ring and the batch in order.        *)
LEMMA OrderNext ==
    ASSUME SimTyped, SimOrdered, [Next]_vars
    PROVE  SimOrdered'
  <1>0. /\ ring \in Seq(Made) /\ read \in Seq(Made) /\ batch \in Seq(Made) /\ runs \in Nat
    BY SimAssumption DEF SimTyped, SimNumbers, SimParts
  <1>1. CASE UNCHANGED vars \/ SetEdu \/ RealTimePasses
    <2>1. ring' = ring /\ read' = read /\ batch' = batch /\ pc' = pc
      BY <1>1 DEF vars, SetEdu, RealTimePasses, ringed, past, polled, call
    <2> QED BY <2>1, OrderKept DEF Collecting
  <1>2. CASE Load \/ RunCall \/ StepCall \/ FinishRun
    <2>1. ring' = ring /\ read' = read /\ batch' = batch /\ ~Collecting'
      BY <1>2 DEF Load, RunCall, StepCall, BeginUnlessRunning, Begin, FinishRun,
                  ringed, past, polled, call, Collecting
    <2> QED BY <2>1, OrderKept
  <1>3. CASE StepOver \/ StepBreaks \/ StepBegin
    <2>1. ring' = ring /\ read' = read /\ batch' = batch /\ ~Collecting'
      BY <1>3 DEF StepOver, StepReturns, StepBreaks, StepBegin, ringed, past, polled, Collecting
    <2> QED BY <2>1, OrderKept
  <1>4. CASE StepPolls \/ PollBegins \/ StepEnd
    <2>1. ring' = ring /\ read' = read /\ batch' = <<>>
      BY <1>4 DEF StepPolls, PollBegins, StepEnd, NoLocals, ringed, past
    <2> QED BY <2>1, OrderKept
  <1>5. CASE NicDone \/ PcapFull \/ PcapWaits
    <2>1. ring' = ring /\ read' = read /\ batch' = batch /\ Collecting
      BY <1>5 DEF NicDone, PcapFull, PcapWaits, PollReturns, Polling, ringed, past, Collecting
    <2> QED BY <2>1, OrderKept
  <1>6. CASE NicPacket \/ PcapPacket
    <2>1. /\ pc = "packets" /\ current <= Len(sources)
          /\ UNCHANGED <<world, ringed, edu, timelineIdx, running, stats, call, current,
                         spikeNs, past>>
      BY <1>6, PacketMade
    <2>2. PICK d, p : OneMade(d, p)
      BY <1>6, PacketMade
    <2>3. ring' = ring /\ read' = read /\ Collecting
      BY <2>1 DEF ringed, past, Collecting
    <2>4. CASE d = 1
      <3>1. batch' = batch
        BY <2>2, <2>4 DEF OneMade
      <3> QED BY <2>3, <3>1, OrderKept
    <2>5. CASE d = 0
      <3>1. batch' = Append(batch, p) /\ NewFrame(p)
        BY <2>2, <2>5 DEF OneMade
      <3>2. Source.generated \in Nat
        BY <2>1, PolledSource, GoodCounts DEF Source
      <3>3. \A q \in Made : Before(q, p)
        BY <1>0, <3>1, <3>2, MadeBefore
      <3>4. Ordered(batch) /\ Precede(read, batch) /\ Precede(ring, batch)
        BY <2>1 DEF SimOrdered
      <3>5. PICK b : b = Append(batch, p)
        OBVIOUS
      <3>6. /\ DOMAIN b = 1 .. Len(batch) + 1 /\ b[Len(batch) + 1] = p
            /\ DOMAIN batch = 1 .. Len(batch) /\ \A i \in 1 .. Len(batch) : b[i] = batch[i]
        BY <1>0, <3>5
      <3>7. Ordered(b)
        <4>1. PICK S : S = Made \cup {p}
          OBVIOUS
        <4>2. batch \in Seq(S) /\ p \in S
          BY <1>0, <4>1, SeqWider
        <4>3. \A i \in DOMAIN batch : Before(batch[i], p)
          BY <1>0, <3>3
        <4> QED BY <3>4, <3>5, <4>2, <4>3, AppendOrdered
      <3>8. ASSUME NEW s \in Seq(Made), Precede(s, batch) PROVE Precede(s, b)
        <4>1. ASSUME NEW i \in DOMAIN s, NEW j \in DOMAIN b PROVE Before(s[i], b[j])
          <5>1. s[i] \in Made
            OBVIOUS
          <5>2. CASE j = Len(batch) + 1
            BY <3>3, <3>6, <5>1, <5>2
          <5>3. CASE j # Len(batch) + 1
            <6>1. j \in DOMAIN batch /\ b[j] = batch[j]
              BY <1>0, <3>6, <5>3
            <6> QED BY <3>8, <6>1 DEF Precede
          <5> QED BY <5>2, <5>3
        <4> QED BY <4>1 DEF Precede
      <3>9. Precede(read, b) /\ Precede(ring, b)
        BY <1>0, <3>4, <3>8
      <3>10. batch' = b
        BY <3>1, <3>5
      <3> QED BY <2>3, <3>7, <3>9, <3>10 DEF SimOrdered
    <2>6. d \in {0, 1}
      BY <2>2 DEF OneMade
    <2> QED BY <2>4, <2>5, <2>6
  <1>7. CASE PushRing
    <2>1. /\ pc = "poll" /\ pc' = "drain" /\ read' = read
          /\ ring' = FoldLeft(TryPush, ring, batch)
      BY <1>7 DEF PushRing, past
    <2>2. /\ Ordered(read) /\ Ordered(ring) /\ Precede(read, ring)
          /\ Ordered(batch) /\ Precede(read, batch) /\ Precede(ring, batch)
      BY <2>1 DEF SimOrdered
    <2>3. RingCapacity \in Nat
      BY <1>7, Pushes DEF IsPlan, RingCapacity
    <2>4. PICK r : r = FoldLeft(TryPush, ring, batch)
      OBVIOUS
    <2>5. InOrder(r, read, batch, Len(batch), Made)
      BY <1>0, <2>2, <2>3, <2>4, PushOrdered
    <2>6. Ordered(r) /\ Precede(read, r)
      BY <2>5 DEF InOrder
    <2>7. ring' = r
      BY <2>1, <2>4
    <2> QED BY <2>1, <2>2, <2>6, <2>7 DEF SimOrdered
  <1>8. CASE DrainConsumers
    <2>1. pc' = "end"
      BY <1>8 DEF DrainConsumers
    <2>2. PICK got : TakenOut(got)
      BY <1>8, Drains
    <2>3. PICK r, f : r = ring' /\ f = read'
      OBVIOUS
    <2>4. /\ got \in Seq(Made) /\ r \in Seq(Made) /\ ring = got \o r /\ f = read \o got
      BY <2>2, <2>3 DEF TakenOut
    <2>5. Ordered(read) /\ Ordered(ring) /\ Precede(read, ring)
      BY DEF SimOrdered
    <2>6. Ordered(f) /\ Ordered(r) /\ Precede(f, r)
      BY <1>0, <2>4, <2>5, CutOrdered
    <2> QED BY <2>1, <2>3, <2>6 DEF SimOrdered
  <1> QED BY <1>1, <1>2, <1>3, <1>4, <1>5, <1>6, <1>7, <1>8 DEF Next, StepContinues

(* The consumers read the packets of a source in the order they were made, *)
(* across runs, for every capacity of ring and batch, every budget and     *)
(* every timeline.                                                         *)
THEOREM ReadInOrderHolds == Spec => []ReadInOrder
  <1>1. Init => SimTyped /\ command \in DOMAIN Commands /\ SimOrdered
    <2>1. Init => SimTyped
      BY TypedInit
    <2>2. Init => SimOrdered
      BY EmptyOrdered DEF Init, SimOrdered
    <2> QED BY <2>1, <2>2 DEF Init
  <1>2. /\ SimTyped /\ command \in DOMAIN Commands /\ SimOrdered /\ [Next]_vars
        => (SimTyped /\ command \in DOMAIN Commands /\ SimOrdered)'
    <2> SUFFICES ASSUME SimTyped, command \in DOMAIN Commands, SimOrdered, [Next]_vars
                 PROVE  SimTyped' /\ command' \in DOMAIN Commands /\ SimOrdered'
      OBVIOUS
    <2>1. SimTyped' /\ command' = command
      BY TypedNext
    <2>2. SimOrdered'
      BY OrderNext
    <2> QED BY <2>1, <2>2
  <1>3. SimOrdered => ReadInOrder
    BY DEF SimOrdered, Ordered, Before, ReadInOrder
  <1> QED BY <1>1, <1>2, <1>3, PTL DEF Spec

-----------------------------------------------------------------------------
(* PacketsAccountedFor                                                     *)

(* Every command gives the scheduler one source.                           *)
OneSourceEach ==
    \A c \in DOMAIN Commands : \A p \in CompileCommand(Commands[c]) : Len(p.sources) = 1

(* The total of one source is its count.                                   *)
LEMMA TotalOfOne ==
    ASSUME GoodSources(sources, TickNs), Len(sources) = 1
    PROVE  /\ 1 \in DOMAIN sources /\ sources[1].generated \in Nat /\ sources[1].dropped \in Nat
           /\ Total(sources, "generated") = sources[1].generated
           /\ Total(sources, "dropped") = sources[1].dropped
  <1>1. DOMAIN sources = 1 .. 1
    BY ListIs DEF GoodSources
  <1>2. \A k \in 1 .. 1 : sources[k]["generated"] \in Nat /\ sources[k]["dropped"] \in Nat
    BY <1>1, GoodCounts
  <1>3. Total(sources, "generated") = sources[1]["generated"]
    BY <1>1, <1>2, TotalIs
  <1>4. Total(sources, "dropped") = sources[1]["dropped"]
    BY <1>1, <1>2, TotalIs
  <1> QED BY <1>1, <1>2, <1>3, <1>4

(* A step that makes no packet and moves none.                             *)
SnapshotKept ==
    \/ Ticking'
    \/ stats' = stats /\ ~Ticking
    \/ Settled(stats')

(* A step that makes, pushes and reads nothing keeps the account.          *)
LEMMA AccountKept ==
    ASSUME SimAccounted, Loaded, Len(sources') = Len(sources),
           sources'[1].generated = sources[1].generated,
           sources'[1].dropped = sources[1].dropped,
           SameRing(stats, stats'), Outstanding' = Outstanding, SnapshotKept
    PROVE  SimAccounted'
  <1>1. /\ Len(sources') = 1
        /\ sources'[1].generated - sources'[1].dropped
             = stats'.written + stats'.overflows + Outstanding'
    BY DEF SimAccounted, SameRing
  <1>2. ~Ticking' => stats'.generated = sources'[1].generated /\ stats'.dropped = sources'[1].dropped
    BY DEF SimAccounted, Settled, SnapshotKept
  <1> QED BY <1>1, <1>2 DEF SimAccounted, Settled

(* Every step keeps the account of the only source.                        *)
LEMMA AccountNext ==
    ASSUME OneSourceEach, SimTyped, command \in DOMAIN Commands, Unloaded, SimAccounted, [Next]_vars
    PROVE  SimAccounted'
  <1>0. /\ stats \in Stats /\ batch \in Seq(Made) /\ clock \in Nat /\ runs \in Nat
        /\ GoodSources(sources, TickNs) /\ SimPlaces
    BY SimAssumption DEF SimTyped, SimNumbers, SimParts
  <1>1. CASE UNCHANGED vars \/ SetEdu \/ RealTimePasses
    <2>1. sources' = sources /\ stats' = stats /\ batch' = batch /\ pc' = pc
      BY <1>1 DEF vars, SetEdu, RealTimePasses, polled, call
    <2> QED BY <2>1 DEF SimAccounted, Loaded, Ticking, Outstanding, Collecting, Settled
  <1>2. CASE Load
    <2>1. stats' = stats /\ pc = "load" /\ stats = NoStats
      BY <1>2 DEF Load, Unloaded, Loaded
    <2>2. CASE pc' = "rejected"
      BY <2>2 DEF SimAccounted, Loaded
    <2>3. CASE pc' # "rejected"
      <3>1. PICK p \in CompileCommand(Commands[command]) : pc' = "idle" /\ Build(p)
        BY <1>2, <2>3 DEF Load
      <3>2. IsPlan(p) /\ Len(p.sources) = 1
        BY <3>1, PlansAssumption DEF OneSourceEach
      <3>3. /\ GoodSources(sources', p.tickNs) /\ Len(sources') = Len(p.sources)
            /\ \A k \in DOMAIN sources' : NoCounts(sources'[k])
        BY <3>1, <3>2, BuildGood
      <3>4. DOMAIN sources' = 1 .. 1
        BY <3>2, <3>3, ListIs DEF GoodSources
      <3>5. sources'[1].generated = 0 /\ sources'[1].dropped = 0
        BY <3>3, <3>4 DEF NoCounts
      <3> QED BY <2>1, <3>1, <3>2, <3>3, <3>5
              DEF SimAccounted, Ticking, Outstanding, Collecting, Settled, NoStats
    <2> QED BY <2>2, <2>3
  <1> SUFFICES ASSUME Loaded, Next, ~Load PROVE SimAccounted'
    <2>1. CASE ~Loaded
      <3>1. ~SetEdu /\ ~FinishRun /\ ~StepContinues /\ ~RunCall /\ ~StepCall
        BY <2>1 DEF Loaded, SetEdu, FinishRun, RunCall, StepCall, StepContinues, StepOver,
                    StepBreaks, StepBegin, StepPolls, PollBegins, NicPacket, PcapPacket, NicDone,
                    PcapFull, PcapWaits, Polling, PushRing, DrainConsumers, StepEnd
      <3> QED BY <1>1, <1>2, <3>1 DEF Next
    <2> QED BY <1>1, <1>2, <2>1
  <1>3. /\ Len(sources) = 1 /\ 1 \in DOMAIN sources
        /\ sources[1].generated \in Nat /\ sources[1].dropped \in Nat
        /\ Total(sources, "generated") = sources[1].generated
        /\ Total(sources, "dropped") = sources[1].dropped
    BY <1>0, TotalOfOne DEF SimAccounted
  <1>4. CASE FinishRun
    <2>1. pc = "idle" /\ pc' = pc /\ Finish(stats, sources, clock)
      BY <1>4 DEF FinishRun, call
    <2>2. /\ SameRing(stats, stats') /\ stats'.generated = Total(sources, "generated")
          /\ stats'.dropped = Total(sources, "dropped") /\ Len(sources') = Len(sources)
          /\ KeepsCounts(sources[1], sources'[1])
      BY <1>0, <1>3, <2>1, FinishIs
    <2>3. Settled(stats') /\ Outstanding' = Outstanding
      BY <1>3, <2>1, <2>2 DEF Settled, Outstanding, Collecting
    <2> QED BY <2>2, <2>3, AccountKept DEF KeepsCounts, SnapshotKept
  <1>5. CASE RunCall \/ StepCall
    <2>1. pc = "idle" /\ pc' \in {"idle", "step"} /\ BeginUnlessRunning
      BY <1>5 DEF RunCall, StepCall
    <2>2. Outstanding' = 0 /\ Outstanding = 0
      BY <2>1 DEF Outstanding, Collecting
    <2>3. CASE running /\ UNCHANGED <<world, sources, ringed, timelineIdx, running, stats, past>>
      <3>1. /\ sources' = sources /\ stats' = stats /\ ~Ticking
        BY <2>1, <2>3 DEF Ticking
      <3> QED BY <2>2, <3>1, AccountKept DEF SameRing, SnapshotKept
    <2>4. CASE ~running /\ runs < MaxRuns /\ Begin
      <3>1. GoodBudgets(budgets) /\ IsPlan(plan)
        BY <1>0 DEF SimTyped, SimParts, SimPlaces
      <3>2. /\ GoodSources(sources', TickNs) /\ Len(sources') = Len(sources)
            /\ \A k \in DOMAIN sources' : NoCounts(sources'[k])
        BY <1>0, <2>4, <3>1, BeginIs
      <3>3. DOMAIN sources' = 1 .. 1
        BY <1>3, <3>2, ListIs DEF GoodSources
      <3>4. sources'[1].generated = 0 /\ sources'[1].dropped = 0
        BY <3>2, <3>3 DEF NoCounts
      <3>5. stats' = NoStats
        BY <2>4 DEF Begin
      <3> QED BY <1>3, <2>2, <3>2, <3>4, <3>5 DEF SimAccounted, Settled, NoStats
    <2> QED BY <2>1, <2>3, <2>4 DEF BeginUnlessRunning
  <1>6. CASE StepOver
    <2>1. /\ StepReturns(FALSE, stats, clock) /\ pc = "step" /\ plan' = plan /\ runs' = runs
      BY <1>6 DEF StepOver, world, past
    <2>2. /\ SourcesKept /\ SameRing(stats, stats') /\ pc' \in {"step", "idle"}
          /\ \/ stats' = stats
             \/ /\ stats'.generated = Total(sources, "generated")
                /\ stats'.dropped = Total(sources, "dropped")
      BY <1>0, <2>1, ReturnsIs
    <2>3. /\ Outstanding' = Outstanding /\ ~Ticking
      BY <2>1, <2>2 DEF Outstanding, Collecting, Ticking
    <2>4. stats' = stats \/ Settled(stats')
      BY <1>3, <2>2 DEF Settled
    <2>5. /\ Len(sources') = Len(sources) /\ sources'[1].generated = sources[1].generated
          /\ sources'[1].dropped = sources[1].dropped
      BY <1>3, <2>2 DEF SourcesKept
    <2> QED BY <2>2, <2>3, <2>4, <2>5, AccountKept DEF SnapshotKept
  <1>7. CASE StepEnd
    <2>1. pc = "end"
      BY <1>7 DEF StepEnd
    <2>2. /\ SourcesKept /\ SameRing(stats, stats') /\ pc' \in {"step", "idle"}
          /\ stats'.generated = Total(sources, "generated")
          /\ stats'.dropped = Total(sources, "dropped")
      BY <1>7, Ends
    <2>3. Outstanding' = Outstanding
      BY <2>1, <2>2 DEF Outstanding, Collecting
    <2>4. Settled(stats')
      BY <1>3, <2>2 DEF Settled
    <2>5. /\ Len(sources') = Len(sources) /\ sources'[1].generated = sources[1].generated
          /\ sources'[1].dropped = sources[1].dropped
      BY <1>3, <2>2 DEF SourcesKept
    <2> QED BY <2>2, <2>3, <2>4, <2>5, AccountKept DEF SnapshotKept
  <1>8. CASE StepBreaks \/ StepBegin
    <2>1. pc = "step" /\ pc' \in {"idle", "begun"} /\ stats' = stats
      BY <1>8 DEF StepBreaks, StepBegin
    <2>2. SourcesKept
      BY <1>8, TypedTimeline
    <2>3. Outstanding' = Outstanding /\ ~Ticking
      BY <2>1 DEF Outstanding, Collecting, Ticking
    <2>4. /\ Len(sources') = Len(sources) /\ sources'[1].generated = sources[1].generated
          /\ sources'[1].dropped = sources[1].dropped
      BY <1>3, <2>2 DEF SourcesKept
    <2> QED BY <2>1, <2>3, <2>4, AccountKept DEF SameRing, SnapshotKept
  <1>9. CASE StepPolls
    <2>1. pc = "begun" /\ pc' = "poll" /\ stats' = stats /\ sources' = sources /\ batch' = <<>>
      BY <1>9 DEF StepPolls
    <2>2. Outstanding' = Outstanding /\ SnapshotKept
      BY <2>1 DEF Outstanding, Collecting, Ticking, SnapshotKept
    <2>3. SameRing(stats, stats')
      BY <2>1 DEF SameRing
    <2> QED BY <2>1, <2>2, <2>3, AccountKept
  <1>10. CASE PollBegins
    <2>1. /\ pc = "poll" /\ pc' = "packets" /\ stats' = stats /\ batch' = <<>>
          /\ current <= Len(sources)
      BY <1>10 DEF PollBegins
    <2>2. current \in 1 .. 2 /\ current <= 1
      BY <1>0, <1>3, <2>1 DEF SimPlaces
    <2>3. batch = <<>>
      BY <1>0, <2>1, <2>2 DEF SimPlaces
    <2>4. SourcesKept
      BY <1>10, TypedPollBegins
    <2>5. Outstanding' = Outstanding /\ SnapshotKept
      BY <2>1, <2>3 DEF Outstanding, Collecting, Ticking, SnapshotKept
    <2>6. /\ Len(sources') = Len(sources) /\ sources'[1].generated = sources[1].generated
          /\ sources'[1].dropped = sources[1].dropped
      BY <1>3, <2>4 DEF SourcesKept
    <2>7. SameRing(stats, stats')
      BY <2>1 DEF SameRing
    <2> QED BY <2>5, <2>6, <2>7, AccountKept
  <1>11. CASE NicDone \/ PcapFull \/ PcapWaits
    <2>1. pc = "packets" /\ pc' = "poll" /\ stats' = stats /\ batch' = batch
      BY <1>11 DEF NicDone, PcapFull, PcapWaits, PollReturns, Polling
    <2>2. SourcesKept
      BY <1>11, PollReturned
    <2>3. Outstanding' = Outstanding /\ SnapshotKept
      BY <2>1 DEF Outstanding, Collecting, Ticking, SnapshotKept
    <2>4. /\ Len(sources') = Len(sources) /\ sources'[1].generated = sources[1].generated
          /\ sources'[1].dropped = sources[1].dropped
      BY <1>3, <2>2 DEF SourcesKept
    <2>5. SameRing(stats, stats')
      BY <2>1 DEF SameRing
    <2> QED BY <2>3, <2>4, <2>5, AccountKept
  <1>12. CASE NicPacket \/ PcapPacket
    <2>1. /\ pc = "packets" /\ current <= Len(sources)
          /\ UNCHANGED <<world, ringed, edu, timelineIdx, running, stats, call, current,
                         spikeNs, past>>
      BY <1>12, PacketMade
    <2>2. PICK d, p : OneMade(d, p)
      BY <1>12, PacketMade
    <2>3. pc' = "packets" /\ stats' = stats
      BY <2>1 DEF call
    <2>4. current = 1
      BY <1>0, <1>3, <2>1 DEF SimPlaces
    <2>5. /\ Len(sources') = 1 /\ sources'[1].generated = sources[1].generated + 1
          /\ sources'[1].dropped = sources[1].dropped + d /\ d \in {0, 1}
      BY <1>3, <2>2, <2>4 DEF OneMade, Source
    <2>6. Len(batch') = Len(batch) + 1 - d /\ Len(batch) \in Nat
      <3>1. d = 1 => batch' = batch
        BY <2>2 DEF OneMade
      <3>2. d = 0 => batch' = Append(batch, p)
        BY <2>2 DEF OneMade
      <3>3. Len(Append(batch, p)) = Len(batch) + 1 /\ Len(batch) \in Nat
        BY <1>0
      <3> QED BY <2>5, <3>1, <3>2, <3>3
    <2>7. Outstanding = Len(batch) /\ Outstanding' = Len(batch')
      BY <2>1, <2>3 DEF Outstanding, Collecting
    <2>8. Ticking'
      BY <2>3 DEF Ticking
    <2>9. stats.written \in Nat /\ stats.overflows \in Nat
      BY <1>0 DEF Stats
    <2>10. sources[1].generated - sources[1].dropped = stats.written + stats.overflows + Len(batch)
      BY <2>7 DEF SimAccounted
    <2>11. sources'[1].generated - sources'[1].dropped
             = stats'.written + stats'.overflows + Outstanding'
      <3>1. PICK g, x, w, o, n : /\ g = sources[1].generated /\ x = sources[1].dropped
                                 /\ w = stats.written /\ o = stats.overflows /\ n = Len(batch)
        OBVIOUS
      <3>2. /\ g \in Nat /\ x \in Nat /\ w \in Nat /\ o \in Nat /\ n \in Nat
            /\ g - x = w + o + n
        BY <1>3, <2>6, <2>9, <2>10, <3>1
      <3>3. (g + 1) - (x + d) = w + o + (n + 1 - d)
        BY ONLY <2>5, <3>2
      <3> QED BY <2>3, <2>5, <2>6, <2>7, <3>1, <3>3
    <2> QED BY <2>5, <2>8, <2>11 DEF SimAccounted
  <1>13. CASE PushRing
    <2>1. pc = "poll" /\ pc' = "drain" /\ sources' = sources
      BY <1>13 DEF PushRing
    <2>2. /\ Len(ring') \in Len(ring) .. Len(ring) + Len(batch)
          /\ stats'.written = stats.written + (Len(ring') - Len(ring))
          /\ stats'.overflows = stats.overflows + (Len(batch) - (Len(ring') - Len(ring)))
      BY <1>13, Pushes
    <2>3. Outstanding = Len(batch) /\ Outstanding' = 0 /\ Ticking'
      BY <2>1 DEF Outstanding, Collecting, Ticking
    <2>4. stats.written \in Nat /\ stats.overflows \in Nat
      BY <1>0 DEF Stats
    <2>5. Len(batch) \in Nat /\ Len(ring) \in Nat
      BY <1>0 DEF SimTyped, SimParts
    <2>6. sources[1].generated - sources[1].dropped = stats.written + stats.overflows + Len(batch)
      BY <2>3 DEF SimAccounted
    <2>7. sources'[1].generated - sources'[1].dropped
             = stats'.written + stats'.overflows + Outstanding'
      <3>1. PICK w, o, b, r, q : /\ w = stats.written /\ o = stats.overflows /\ b = Len(batch)
                                 /\ r = Len(ring) /\ q = Len(ring')
        OBVIOUS
      <3>2. w \in Nat /\ o \in Nat /\ b \in Nat /\ r \in Nat /\ q \in r .. r + b
        BY <2>2, <2>4, <2>5, <3>1
      <3>3. (w + (q - r)) + (o + (b - (q - r))) + 0 = w + o + b
        BY ONLY <3>2
      <3> QED BY <2>1, <2>2, <2>3, <2>6, <3>1, <3>3
    <2> QED BY <1>3, <2>1, <2>3, <2>7 DEF SimAccounted
  <1>14. CASE DrainConsumers
    <2>1. pc = "drain" /\ pc' = "end" /\ sources' = sources
      BY <1>14 DEF DrainConsumers
    <2>2. PICK got : TakenOut(got)
      BY <1>14, Drains
    <2>3. stats'.written = stats.written /\ stats'.overflows = stats.overflows
      BY <2>2 DEF TakenOut
    <2>4. Outstanding = 0 /\ Outstanding' = 0 /\ Ticking'
      BY <2>1 DEF Outstanding, Collecting, Ticking
    <2>5. sources'[1].generated - sources'[1].dropped
             = stats'.written + stats'.overflows + Outstanding'
      BY <2>1, <2>3, <2>4 DEF SimAccounted
    <2> QED BY <1>3, <2>1, <2>4, <2>5 DEF SimAccounted
  <1> QED BY <1>1, <1>4, <1>5, <1>6, <1>7, <1>8, <1>9, <1>10, <1>11, <1>12, <1>13, <1>14
          DEF Next, StepContinues

(* With one source, as every built-in scenario and every capture has it,   *)
(* the scheduler loses no packet between ticks: what the source has made   *)
(* and not dropped was written to the ring or refused by it, for every     *)
(* capacity, rate and number of ticks and runs.                            *)
THEOREM PacketsAccountedForHolds ==
    ASSUME OneSourceEach
    PROVE  Spec => []PacketsAccountedFor
  <1>1. Init => SimTyped /\ command \in DOMAIN Commands /\ Unloaded /\ SimAccounted
    <2>1. Init => SimTyped
      BY TypedInit
    <2> QED BY <2>1 DEF Init, Unloaded, SimAccounted, Loaded
  <1>2. /\ SimTyped /\ command \in DOMAIN Commands /\ Unloaded /\ SimAccounted /\ [Next]_vars
        => (SimTyped /\ command \in DOMAIN Commands /\ Unloaded /\ SimAccounted)'
    <2> SUFFICES ASSUME SimTyped, command \in DOMAIN Commands, Unloaded, SimAccounted, [Next]_vars
                 PROVE  SimTyped' /\ command' \in DOMAIN Commands /\ Unloaded' /\ SimAccounted'
      OBVIOUS
    <2>1. SimTyped' /\ command' = command
      BY TypedNext
    <2>2. Unloaded'
      BY UnloadedNext
    <2>3. SimAccounted'
      BY AccountNext
    <2> QED BY <2>1, <2>2, <2>3
  <1>3. SimTyped /\ SimAccounted => PacketsAccountedFor
    <2> SUFFICES ASSUME SimTyped, SimAccounted, pc = "idle"
                 PROVE  stats.generated - stats.dropped = stats.written + stats.overflows
      BY DEF PacketsAccountedFor
    <2>1. /\ sources[1].generated - sources[1].dropped = stats.written + stats.overflows + 0
          /\ stats.generated = sources[1].generated /\ stats.dropped = sources[1].dropped
      BY DEF SimAccounted, Loaded, Ticking, Outstanding, Collecting, Settled
    <2>2. stats.written \in Nat /\ stats.overflows \in Nat
      BY DEF SimTyped, SimNumbers, Stats
    <2> QED BY <2>1, <2>2
  <1> QED BY <1>1, <1>2, <1>3, PTL DEF Spec

-----------------------------------------------------------------------------
(* The invariant of the dashboard                                          *)

Kinds  == {"packet", "tick", "notice"}
Events == [id : Nat, kind : Kinds]
Views  == [mode : {"Auto", "Paused"}, speed : 1 .. MaxSpeed, cursor : Nat, log : Seq(Events),
           pps : Seq(Nat), ticks : Seq(Events), prev : Nat, finished : BOOLEAN]

(* The types of the dashboard, and of the scheduler it owns.               *)
DashTyped ==
    /\ view \in Views /\ sink \in Seq(Events) /\ emitted \in Seq(Kinds) /\ frame \in Nat
    /\ dash \in {"open", "armed", "loop", "step", "frame", "quit"}
    /\ "paused" \in DOMAIN edu
    /\ view.cursor <= Len(sink)
    /\ Len(view.log) <= LogCap /\ Len(view.pps) <= HistCap /\ Len(view.ticks) <= HistCap

(* What each place of the dashboard knows of the scheduler.                *)
OpenPlace ==
    /\ pc \in {"load", "rejected", "idle"} /\ ~running
    /\ view.mode = "Paused" /\ ~view.finished
    /\ \A k \in DOMAIN sources : ~sources[k].initialized

ArmedPlace == pc = "idle" /\ running /\ view.mode = "Paused" /\ ~view.finished

LoopPlace ==
    /\ pc = "idle" /\ Len(sink) <= SinkCap + 1
    /\ running <=> ~view.finished
    /\ \A k \in DOMAIN sources : sources[k].initialized <=> running
    /\ view.finished => clock >= DurationNs
    /\ view.mode = "Auto" => ~view.finished /\ ~edu.paused

StepPlace ==
    /\ Loaded /\ caller = "step" /\ ~view.finished /\ frame >= 1
    /\ pc # "idle" => ~edu.paused
    /\ pc = "idle" /\ ~running => clock >= DurationNs

FramePlace ==
    /\ pc = "idle" /\ running /\ ~edu.paused /\ view.mode = "Auto" /\ ~view.finished
    /\ frame > 1

DashPlaces ==
    /\ dash = "open"  => OpenPlace
    /\ dash = "armed" => ArmedPlace
    /\ dash = "loop"  => LoopPlace
    /\ dash = "step"  => StepPlace
    /\ dash = "frame" => FramePlace
    /\ dash = "quit"  => pc = "idle"

SessionTyped ==
    SimTyped /\ command \in DOMAIN Commands /\ Unloaded /\ DashTyped /\ DashPlaces

(* The samples of the counters, and the ticks among the new events.        *)
NewTicks == {i \in view.cursor + 1 .. Len(sink) : sink[i].kind = "tick"}

Generated(srcs) == Total(srcs, "generated")

SamplesSum ==
    /\ ~Ticking => stats.generated = Generated(sources)
    /\ view.prev <= Generated(sources)
    /\ Len(view.pps) < HistCap => SumOf(view.pps) = view.prev
    /\ dash # "step" => view.prev = stats.generated
    /\ dash = "open" => view.prev = 0

TicksKnown ==
    /\ dash = "open" => view.ticks = <<>>
    /\ \/ NewTicks = {} /\ Len(view.ticks) = Lesser(stats.ticks, HistCap)
       \/ /\ dash = "step" /\ pc = "idle" /\ NewTicks = {Len(sink)}
          /\ stats.ticks > 0 /\ Len(view.ticks) = Lesser(stats.ticks - 1, HistCap)

(* The events of the sink are the last ones that were emitted, and the log *)
(* has the notices among those that were read.                             *)
Numbered(s, e) ==
    /\ Len(s) <= Len(e)
    /\ \A i \in DOMAIN s : /\ s[i].id = (Len(e) - Len(s)) + i
                           /\ s[i].kind = e[(Len(e) - Len(s)) + i]

Increasing(log) == \A i, j \in DOMAIN log : i < j => log[i].id < log[j].id

Told(log, id) ==
    \/ \E i \in DOMAIN log : log[i].id = id
    \/ Len(log) >= LogCap /\ id < log[1].id

LogOf(log, base, e) ==
    /\ Increasing(log) /\ \A i \in DOMAIN log : log[i].id <= base
    /\ \A id \in 1 .. base : e[id] = "notice" => Told(log, id)

EventsLogged ==
    /\ Numbered(sink, emitted)
    /\ LogOf(view.log, Len(emitted) - (Len(sink) - view.cursor), emitted)
    /\ dash = "loop" => Len(sink) - view.cursor = IF view.finished THEN 1 ELSE 0

-----------------------------------------------------------------------------
(* What the dashboard keeps and cuts                                       *)

(* The end of a sequence that is cut.                                      *)
LEMMA LastOfIs ==
    ASSUME NEW S, NEW s \in Seq(S), NEW n \in Nat, NEW r, r = LastOf(s, n)
    PROVE  /\ r \in Seq(S) /\ Len(r) = IF Len(s) <= n THEN Len(s) ELSE n
           /\ \A i \in 1 .. Len(r) : r[i] = s[(Len(s) - Len(r)) + i]
           /\ Len(s) <= n => r = s
  <1>1. PICK m \in Nat : m = Len(s) /\ DOMAIN s = 1 .. m
    OBVIOUS
  <1>2. PICK a : a = IF m - n > 0 THEN (m - n) + 1 ELSE 1
    OBVIOUS
  <1>3. a \in Nat \ {0} /\ a <= m + 1
    BY <1>2
  <1>4. r = SubSeq(s, a, m)
    BY <1>1, <1>2 DEF LastOf, Greater
  <1>5. \A i \in a .. m : s[i] \in S
    BY <1>1, <1>3
  <1>6. /\ r \in Seq(S) /\ Len(r) = IF a <= m THEN (m - a) + 1 ELSE 0
        /\ \A i \in 1 .. (m - a) + 1 : r[i] = s[(a + i) - 1]
    <2>1. a \in Int /\ m \in Int
      BY <1>3
    <2> QED BY <1>4, <1>5, <2>1, SubSeqProperties
  <1>7. Len(r) = IF m <= n THEN m ELSE n
    BY <1>2, <1>6
  <1>8. \A i \in 1 .. Len(r) : r[i] = s[(m - Len(r)) + i]
    <2>1. Len(r) = (m - a) + 1
      BY <1>3, <1>6
    <2>2. \A i \in 1 .. Len(r) : (a + i) - 1 = (m - Len(r)) + i
      BY <1>3, <2>1
    <2> QED BY <1>6, <2>1, <2>2
  <1>9. m <= n => r = s
    <2> SUFFICES ASSUME m <= n PROVE r = s
      OBVIOUS
    <2>1. Len(r) = m /\ DOMAIN r = 1 .. m
      BY <1>6, <1>7
    <2>2. \A i \in 1 .. m : r[i] = s[i]
      BY <1>8, <2>1
    <2> QED BY <1>1, <1>6, <2>1, <2>2
  <1> QED BY <1>1, <1>6, <1>7, <1>8, <1>9

(* The same as one fact.                                                   *)
EndOf(r, s, n, S) ==
    /\ r \in Seq(S) /\ Len(r) = IF Len(s) <= n THEN Len(s) ELSE n
    /\ \A i \in 1 .. Len(r) : r[i] = s[(Len(s) - Len(r)) + i]
    /\ Len(s) <= n => r = s

LEMMA LastOfEnds ==
    ASSUME NEW S, NEW s \in Seq(S), NEW n \in Nat, NEW r, r = LastOf(s, n)
    PROVE  EndOf(r, s, n, S)
  BY LastOfIs DEF EndOf

(* The events a step emits follow those that are there.                    *)
Appended(to, kinds) ==
    /\ sink' \in Seq(Events) /\ emitted' \in Seq(Kinds)
    /\ Len(sink') = Len(to) + Len(kinds) /\ Len(emitted') = Len(emitted) + Len(kinds)
    /\ \A i \in 1 .. Len(to) : sink'[i] = to[i]
    /\ \A i \in 1 .. Len(emitted) : emitted'[i] = emitted[i]
    /\ \A i \in 1 .. Len(kinds) :
         /\ sink'[Len(to) + i] = [id |-> Len(emitted) + i, kind |-> kinds[i]]
         /\ emitted'[Len(emitted) + i] = kinds[i]

(* emit appends to the sink and to the history.                            *)
LEMMA EmitIs ==
    ASSUME NEW to \in Seq(Events), NEW kinds \in Seq(Kinds), emitted \in Seq(Kinds),
           Emit(to, kinds)
    PROVE  Appended(to, kinds)
  <1>1. PICK n \in Nat, m \in Nat : n = Len(kinds) /\ DOMAIN kinds = 1 .. n /\ m = Len(emitted)
    OBVIOUS
  <1> DEFINE new == [i \in 1 .. n |-> [id |-> m + i, kind |-> kinds[i]]]
  <1>2. \A i \in 1 .. n : new[i] \in Events
    <2>1. \A i \in 1 .. n : kinds[i] \in Kinds /\ m + i \in Nat
      BY <1>1
    <2> QED BY <2>1 DEF Events
  <1>3. new \in Seq(Events) /\ Len(new) = n
    BY <1>2
  <1>4. sink' = to \o new /\ emitted' = emitted \o kinds
    BY <1>1 DEF Emit
  <1>5. \A i \in 1 .. n : new[i] = [id |-> m + i, kind |-> kinds[i]]
    OBVIOUS
  <1> HIDE DEF new
  <1>6. PICK s, e : s = to \o new /\ e = emitted \o kinds
    OBVIOUS
  <1>7. /\ s \in Seq(Events) /\ Len(s) = Len(to) + n /\ \A i \in 1 .. Len(to) : s[i] = to[i]
    BY <1>3, <1>6
  <1>8. \A i \in 1 .. n : s[Len(to) + i] = new[i]
    BY <1>3, <1>6
  <1>9. /\ e \in Seq(Kinds) /\ Len(e) = m + n /\ \A i \in 1 .. m : e[i] = emitted[i]
    BY <1>1, <1>6
  <1>10. \A i \in 1 .. n : e[m + i] = kinds[i]
    BY <1>1, <1>6
  <1>11. sink' = s /\ emitted' = e
    BY <1>4, <1>6
  <1> QED BY <1>1, <1>5, <1>7, <1>8, <1>9, <1>10, <1>11 DEF Appended

(* The events behind the cursor.                                           *)
LEMMA NewEventsAre ==
    ASSUME DashTyped
    PROVE  \E n \in Nat :
              /\ n = Len(sink) - view.cursor /\ NewEvents \in Seq(Events)
              /\ Len(NewEvents) = n /\ DOMAIN NewEvents = 1 .. n
              /\ \A i \in 1 .. n : NewEvents[i] = sink[view.cursor + i]
  <1>1. PICK m, c : m = Len(sink) /\ c = view.cursor
    OBVIOUS
  <1>2. m \in Nat /\ c \in Nat /\ c <= m /\ sink \in Seq(Events)
    BY <1>1 DEF DashTyped, Views
  <1>3. \A i \in c + 1 .. m : sink[i] \in Events
    BY <1>1, <1>2
  <1>4. PICK r : r = SubSeq(sink, c + 1, m)
    OBVIOUS
  <1>5. /\ r \in Seq(Events) /\ Len(r) = IF c + 1 <= m THEN (m - (c + 1)) + 1 ELSE 0
        /\ \A i \in 1 .. (m - (c + 1)) + 1 : r[i] = sink[((c + 1) + i) - 1]
    <2>1. c + 1 \in Int /\ m \in Int
      BY <1>2
    <2> QED BY <1>2, <1>3, <1>4, <2>1, SubSeqProperties
  <1>6. m - c \in Nat /\ Len(r) = m - c
    BY <1>2, <1>5
  <1>7. \A i \in 1 .. m - c : r[i] = sink[c + i]
    <2>1. \A i \in 1 .. m - c : ((c + 1) + i) - 1 = c + i
      BY <1>2
    <2>2. (m - (c + 1)) + 1 = m - c
      BY <1>2
    <2> QED BY <1>5, <2>1, <2>2
  <1>8. NewEvents = r
    BY <1>1, <1>4 DEF NewEvents
  <1>9. DOMAIN r = 1 .. m - c
    BY <1>5, <1>6
  <1> QED BY <1>1, <1>5, <1>6, <1>7, <1>8, <1>9

(* The log and the ticks with the new events.                              *)
LEMMA LoggedTypes ==
    ASSUME DashTyped, NEW v, v.log \in Seq(Events)
    PROVE  Logged(v) \in Seq(Events)
  <1>1. PICK n \in Nat : DOMAIN NewEvents = 1 .. n /\ \A i \in 1 .. n : NewEvents[i] \in Events
    <2>1. PICK n \in Nat : NewEvents \in Seq(Events) /\ DOMAIN NewEvents = 1 .. n
      BY NewEventsAre
    <2> QED BY <2>1
  <1>2. PICK p : FoldSteps(p, "log", v, v.log, NewEvents, n) /\ Logged(v) = p[n]
    BY <1>1, LogFold
  <1> DEFINE T == {k \in Nat : k <= n => p[k] \in Seq(Events)}
  <1>3. 0 \in T
    BY <1>2 DEF FoldSteps
  <1>4. ASSUME NEW k \in Nat, k \in T PROVE k + 1 \in T
    <2> SUFFICES ASSUME k + 1 <= n PROVE p[k + 1] \in Seq(Events)
      OBVIOUS
    <2>1. p[k] \in Seq(Events) /\ k + 1 \in 1 .. n /\ (k + 1) - 1 = k
      BY <1>4
    <2>2. p[k + 1] = Apply("log", v, p[k], NewEvents[k + 1])
      BY <1>2, <2>1 DEF FoldSteps
    <2>3. p[k + 1] = p[k] \/ p[k + 1] = Append(p[k], NewEvents[k + 1])
      BY <2>2 DEF Apply, LogStep
    <2>4. NewEvents[k + 1] \in Events
      BY <1>1, <2>1
    <2>5. Append(p[k], NewEvents[k + 1]) \in Seq(Events)
      BY ONLY <2>1, <2>4
    <2> QED BY <2>1, <2>3, <2>5
  <1>5. n \in T
    <2> HIDE DEF T
    <2> QED BY <1>3, <1>4, Induction
  <1> QED BY <1>2, <1>5

(* push_hist, with the sample at the end.                                  *)
LEMMA HistTypes ==
    ASSUME NEW S, NEW h \in Seq(S), NEW x \in S, NEW g, g = PushHist(h, x)
    PROVE  /\ g \in Seq(S) /\ Len(g) <= HistCap
           /\ Len(g) = IF Len(h) + 1 <= HistCap THEN Len(h) + 1 ELSE HistCap
           /\ Len(h) + 1 <= HistCap => g = Append(h, x)
  <1>1. PICK a : a = Append(h, x)
    OBVIOUS
  <1>2. a \in Seq(S) /\ Len(a) = Len(h) + 1 /\ Len(h) \in Nat
    BY <1>1
  <1>3. HistCap \in Nat
    BY DashAssumption
  <1>4. g = LastOf(a, HistCap)
    BY <1>1 DEF PushHist
  <1>5. /\ g \in Seq(S) /\ Len(g) = IF Len(a) <= HistCap THEN Len(a) ELSE HistCap
        /\ Len(a) <= HistCap => g = a
    <2>1. EndOf(g, a, HistCap, S)
      BY ONLY <1>2, <1>3, <1>4, LastOfEnds
    <2> QED BY ONLY <2>1 DEF EndOf
  <1> QED BY <1>1, <1>2, <1>3, <1>5

(* The history of ticks stays within its limit.                            *)
LEMMA TickedTypes ==
    ASSUME DashTyped, NEW v, v.ticks \in Seq(Events), Len(v.ticks) <= HistCap
    PROVE  Ticked(v) \in Seq(Events) /\ Len(Ticked(v)) <= HistCap
  <1>1. PICK n \in Nat : DOMAIN NewEvents = 1 .. n /\ \A i \in 1 .. n : NewEvents[i] \in Events
    <2>1. PICK n \in Nat : NewEvents \in Seq(Events) /\ DOMAIN NewEvents = 1 .. n
      BY NewEventsAre
    <2> QED BY <2>1
  <1>2. PICK p : FoldSteps(p, "hist", 0, v.ticks, NewEvents, n) /\ Ticked(v) = p[n]
    BY <1>1, HistFold
  <1> DEFINE T == {k \in Nat : k <= n => p[k] \in Seq(Events) /\ Len(p[k]) <= HistCap}
  <1>3. 0 \in T
    BY <1>2 DEF FoldSteps
  <1>4. ASSUME NEW k \in Nat, k \in T PROVE k + 1 \in T
    <2> SUFFICES ASSUME k + 1 <= n PROVE p[k + 1] \in Seq(Events) /\ Len(p[k + 1]) <= HistCap
      OBVIOUS
    <2>1. p[k] \in Seq(Events) /\ Len(p[k]) <= HistCap /\ k + 1 \in 1 .. n /\ (k + 1) - 1 = k
      BY <1>4
    <2>2. p[k + 1] = Apply("hist", 0, p[k], NewEvents[k + 1])
      BY <1>2, <2>1 DEF FoldSteps
    <2>3. p[k + 1] = p[k] \/ p[k + 1] = PushHist(p[k], NewEvents[k + 1])
      BY <2>2 DEF Apply, HistStep
    <2>4. NewEvents[k + 1] \in Events
      BY <1>1, <2>1
    <2>5. CASE p[k + 1] = p[k]
      BY <2>1, <2>5
    <2>6. CASE p[k + 1] = PushHist(p[k], NewEvents[k + 1])
      BY <2>1, <2>4, <2>6, HistTypes
    <2> QED BY <2>3, <2>5, <2>6
  <1>5. n \in T
    <2> HIDE DEF T
    <2> QED BY <1>3, <1>4, Induction
  <1> QED BY <1>2, <1>5

(* The sink after a refresh.                                               *)
LEMMA TruncatedIs ==
    ASSUME DashTyped
    PROVE  /\ Truncated \in Seq(Events) /\ Len(Truncated) <= SinkCap
           /\ Len(Truncated) \in 0 .. Len(sink)
           /\ \A i \in 1 .. Len(Truncated) :
                Truncated[i] = sink[(Len(sink) - Len(Truncated)) + i]
  <1>1. PICK s, t : s = sink /\ t = Truncated
    OBVIOUS
  <1>2. s \in Seq(Events) /\ SinkCap \in Nat /\ t = LastOf(s, SinkCap)
    BY <1>1, DashAssumption DEF DashTyped, Truncated
  <1>3. /\ t \in Seq(Events) /\ Len(t) = IF Len(s) <= SinkCap THEN Len(s) ELSE SinkCap
        /\ \A i \in 1 .. Len(t) : t[i] = s[(Len(s) - Len(t)) + i]
    <2>1. EndOf(t, s, SinkCap, Events)
      BY ONLY <1>2, LastOfEnds
    <2> QED BY ONLY <2>1 DEF EndOf
  <1>4. PICK n, m : n = Len(t) /\ m = Len(s)
    OBVIOUS
  <1>5. m \in Nat
    BY ONLY <1>2, <1>4
  <1>6. SinkCap \in Nat /\ n = IF m <= SinkCap THEN m ELSE SinkCap
    BY ONLY <1>2, <1>3, <1>4
  <1>7. n <= SinkCap /\ n \in 0 .. m
    BY ONLY <1>5, <1>6
  <1>8. Len(t) <= SinkCap /\ Len(t) \in 0 .. Len(s)
    BY ONLY <1>4, <1>7
  <1> QED BY <1>1, <1>3, <1>8

(* Fields of the view that are set.                                        *)
WithLog(v, l, c)        == [v EXCEPT !.log = l, !.cursor = c]
WithSamples(v, h, g, t) == [v EXCEPT !.pps = h, !.prev = g, !.ticks = t]
WithMode(v, m)          == [v EXCEPT !.mode = m]
WithEnd(v)              == [v EXCEPT !.mode = "Paused", !.finished = TRUE]
WithSpeed(v, s)         == [v EXCEPT !.speed = s]

(* The fields after refresh_events.                                        *)
LEMMA ViewRefreshed ==
    ASSUME NEW v \in Views, NEW l \in Seq(Events), NEW c \in Nat,
           NEW w, w = WithLog(v, l, c)
    PROVE  /\ w \in Views /\ w.log = l /\ w.cursor = c /\ w.mode = v.mode /\ w.speed = v.speed
           /\ w.pps = v.pps /\ w.ticks = v.ticks /\ w.prev = v.prev /\ w.finished = v.finished
  BY DEF Views, WithLog

(* The fields after ingest_tick_samples.                                   *)
LEMMA ViewSampled ==
    ASSUME NEW v \in Views, NEW h \in Seq(Nat), NEW g \in Nat, NEW t \in Seq(Events),
           NEW w, w = WithSamples(v, h, g, t)
    PROVE  /\ w \in Views /\ w.pps = h /\ w.prev = g /\ w.ticks = t /\ w.mode = v.mode
           /\ w.speed = v.speed /\ w.log = v.log /\ w.cursor = v.cursor
           /\ w.finished = v.finished
  BY DEF Views, WithSamples

(* The fields after a change of mode.                                      *)
LEMMA ViewMode ==
    ASSUME NEW v \in Views, NEW m \in {"Auto", "Paused"}, NEW w, w = WithMode(v, m)
    PROVE  /\ w \in Views /\ w.mode = m /\ w.speed = v.speed /\ w.log = v.log
           /\ w.cursor = v.cursor /\ w.pps = v.pps /\ w.ticks = v.ticks /\ w.prev = v.prev
           /\ w.finished = v.finished
  BY DEF Views, WithMode

(* The fields at the end of the scenario.                                  *)
LEMMA ViewOver ==
    ASSUME NEW v \in Views, NEW w, w = WithEnd(v)
    PROVE  /\ w \in Views /\ w.mode = "Paused" /\ w.speed = v.speed /\ w.log = v.log
           /\ w.cursor = v.cursor /\ w.pps = v.pps /\ w.ticks = v.ticks /\ w.prev = v.prev
           /\ w.finished
  BY DEF Views, WithEnd

(* The fields after a change of speed.                                     *)
LEMMA ViewSpeed ==
    ASSUME NEW v \in Views, NEW s \in 1 .. MaxSpeed, NEW w, w = WithSpeed(v, s)
    PROVE  /\ w \in Views /\ w.mode = v.mode /\ w.log = v.log
           /\ w.cursor = v.cursor /\ w.pps = v.pps /\ w.ticks = v.ticks /\ w.prev = v.prev
           /\ w.finished = v.finished
  BY DEF Views, WithSpeed

(* A view that has not been used.                                          *)
FreshView(w) ==
    /\ w \in Views /\ w.mode = "Paused" /\ w.cursor = 0 /\ w.log = <<>> /\ w.pps = <<>>
    /\ w.ticks = <<>> /\ w.prev = 0 /\ ~w.finished

(* The fields of a new dashboard, and after a restart.                     *)
LEMMA ViewNew ==
    ASSUME NEW s \in 1 .. MaxSpeed
    PROVE  FreshView(NewView) /\ FreshView(WithSpeed(NewView, s))
  <1>1. <<>> \in Seq(Events) /\ <<>> \in Seq(Nat)
    OBVIOUS
  <1>2. 1 \in 1 .. MaxSpeed
    BY DashAssumption
  <1>3. FreshView(NewView)
    BY <1>1, <1>2 DEF NewView, Views, FreshView
  <1>4. PICK v, w : v = NewView /\ w = WithSpeed(v, s)
    OBVIOUS
  <1>5. FreshView(w)
    <2>1. v \in Views
      BY <1>3, <1>4 DEF FreshView
    <2>2. /\ w \in Views /\ w.mode = v.mode /\ w.log = v.log
          /\ w.cursor = v.cursor /\ w.pps = v.pps /\ w.ticks = v.ticks /\ w.prev = v.prev
          /\ w.finished = v.finished
      BY <1>4, <2>1, ViewSpeed
    <2> QED BY <1>3, <1>4, <2>2 DEF FreshView
  <1> QED BY <1>3, <1>4, <1>5

(* A view w that has read the events which view v has not.                 *)
HasRead(w, v) ==
    /\ w \in Views /\ w.cursor = Len(Truncated) /\ w.mode = v.mode /\ w.speed = v.speed
    /\ w.log = LastOf(Logged(v), LogCap) /\ Len(w.log) <= LogCap
    /\ w.pps = v.pps /\ w.ticks = v.ticks /\ w.prev = v.prev /\ w.finished = v.finished

(* refresh_events as the proofs use it.                                    *)
LEMMA RefreshedIs ==
    ASSUME DashTyped, NEW v \in Views, NEW w, w = Refreshed(v)
    PROVE  HasRead(w, v)
  <1>1. PICK g, l, c : g = Logged(v) /\ l = LastOf(Logged(v), LogCap) /\ c = Len(Truncated)
    OBVIOUS
  <1>2. g \in Seq(Events) /\ LogCap \in Nat
    <2>1. v.log \in Seq(Events)
      BY DEF Views
    <2> QED BY <1>1, <2>1, LoggedTypes, DashAssumption
  <1>3. l \in Seq(Events) /\ Len(l) <= LogCap
    <2>1. l = LastOf(g, LogCap)
      BY <1>1
    <2>2. l \in Seq(Events) /\ Len(l) = IF Len(g) <= LogCap THEN Len(g) ELSE LogCap
      <3>1. EndOf(l, g, LogCap, Events)
        BY ONLY <1>2, <2>1, LastOfEnds
      <3> QED BY ONLY <3>1 DEF EndOf
    <2> QED BY <1>2, <2>2
  <1>4. c \in Nat
    BY <1>1, TruncatedIs DEF DashTyped
  <1>5. w = WithLog(v, l, c)
    BY <1>1 DEF Refreshed, WithLog
  <1>6. /\ w \in Views /\ w.log = l /\ w.cursor = c /\ w.mode = v.mode /\ w.speed = v.speed
        /\ w.pps = v.pps /\ w.ticks = v.ticks /\ w.prev = v.prev /\ w.finished = v.finished
    BY ONLY v \in Views, <1>3, <1>4, <1>5, ViewRefreshed
  <1> QED BY <1>1, <1>3, <1>6 DEF HasRead

(* The view with the samples of a tick.                                    *)
HasSampled(w) ==
    /\ w \in Views /\ w.prev = stats.generated /\ w.ticks = Ticked(view)
    /\ w.pps = PushHist(view.pps, Greater(stats.generated - view.prev, 0))
    /\ Len(w.pps) <= HistCap /\ Len(w.ticks) <= HistCap
    /\ w.mode = view.mode /\ w.speed = view.speed /\ w.log = view.log
    /\ w.cursor = view.cursor /\ w.finished = view.finished

(* ingest_tick_samples as the proofs use it.                               *)
LEMMA SampledIs ==
    ASSUME DashTyped, stats.generated \in Nat, NEW w, w = Sampled(view)
    PROVE  HasSampled(w)
  <1>1. PICK v, h, g, t : /\ v = view /\ g = stats.generated /\ t = Ticked(view)
                          /\ h = PushHist(view.pps, Greater(stats.generated - view.prev, 0))
    OBVIOUS
  <1>2. v \in Views /\ g \in Nat
    BY <1>1 DEF DashTyped
  <1>3. h \in Seq(Nat) /\ Len(h) <= HistCap
    <2>1. PICK d : d = Greater(stats.generated - view.prev, 0)
      OBVIOUS
    <2>2. d \in Nat /\ v.pps \in Seq(Nat)
      BY <1>1, <1>2, <2>1 DEF Greater, Views
    <2>3. h = PushHist(v.pps, d)
      BY <1>1, <2>1
    <2> QED BY ONLY <2>2, <2>3, HistTypes
  <1>4. t \in Seq(Events) /\ Len(t) <= HistCap
    <2>1. view.ticks \in Seq(Events) /\ Len(view.ticks) <= HistCap
      BY DEF DashTyped, Views
    <2> QED BY <1>1, <2>1, TickedTypes
  <1>5. w = WithSamples(v, h, g, t)
    BY <1>1 DEF Sampled, WithSamples
  <1>6. /\ w \in Views /\ w.pps = h /\ w.prev = g /\ w.ticks = t /\ w.mode = v.mode
        /\ w.speed = v.speed /\ w.log = v.log /\ w.cursor = v.cursor
        /\ w.finished = v.finished
    BY ONLY <1>2, <1>3, <1>4, <1>5, ViewSampled
  <1> QED BY <1>1, <1>3, <1>4, <1>6 DEF HasSampled

-----------------------------------------------------------------------------
(* The steps of the dashboard keep SessionTyped                            *)

(* The view and the sink that are left alone.                              *)
LEMMA DashSame ==
    ASSUME DashTyped, UNCHANGED <<dash, frame, view, sink, emitted>>, "paused" \in DOMAIN edu'
    PROVE  DashTyped'
  BY DEF DashTyped

(* The controls are never taken away.                                      *)
LEMMA ControlsSet ==
    ASSUME "paused" \in DOMAIN edu, NEW b, edu' = [edu EXCEPT !.paused = b]
    PROVE  "paused" \in DOMAIN edu' /\ edu'.paused = b
  OBVIOUS

(* A step is called for: the run goes on from where it is.                 *)
StepCalled(ticks) ==
    /\ running /\ running' /\ clock' = clock /\ plan' = plan /\ sources' = sources
    /\ stats' = stats /\ sink' = sink /\ emitted' = emitted
    /\ "paused" \in DOMAIN edu' /\ ~edu'.paused
    /\ pc' = "step" /\ caller' = "step" /\ dash' = "step" /\ frame' = ticks

(* step_once never has to begin the run: it goes on.                       *)
LEMMA StepOnceIs ==
    ASSUME SessionTyped, dash \in {"loop", "frame"}, ~view.finished, NEW ticks, StepOnce(ticks)
    PROVE  SimTyped' /\ command' = command /\ Unloaded' /\ StepCalled(ticks)
  <1>1. /\ SimTyped /\ DashTyped /\ pc = "idle" /\ running
    BY DEF SessionTyped, DashPlaces, LoopPlace, FramePlace
  <1>2. /\ BeginUnlessRunning /\ Emit(sink, <<>>) /\ edu' = [edu EXCEPT !.paused = FALSE]
        /\ pc' = "step" /\ caller' = "step" /\ dash' = "step" /\ frame' = ticks
        /\ now' = now /\ UNCHANGED polled
    BY <1>1 DEF StepOnce
  <1>3. UNCHANGED <<world, sources, ringed, timelineIdx, running, stats, past>>
    BY <1>1, <1>2 DEF BeginUnlessRunning
  <1>4. SimTyped'
    <2>1. Begun
      BY <1>1, <1>2, BeginKeeps DEF Loaded
    <2> QED BY <1>1, <1>2, <2>1, TypedBegun
  <1>5. sink' = sink /\ emitted' = emitted
    <2>1. sink \in Seq(Events) /\ emitted \in Seq(Kinds)
      BY <1>1 DEF DashTyped
    <2>2. PICK none : none = [i \in DOMAIN <<>> |-> [id |-> Len(emitted) + i, kind |-> <<>>[i]]]
      OBVIOUS
    <2>3. none = <<>>
      BY <2>2
    <2>4. sink' = sink \o none /\ emitted' = emitted \o <<>>
      BY <1>2, <2>2 DEF Emit
    <2> QED BY <2>1, <2>3, <2>4
  <1>6. "paused" \in DOMAIN edu' /\ ~edu'.paused
    BY <1>1, <1>2, ControlsSet DEF DashTyped
  <1>7. Unloaded'
    BY <1>2 DEF Unloaded, Loaded
  <1>8. command' = command /\ clock' = clock /\ plan' = plan /\ sources' = sources /\ stats' = stats
        /\ running'
    BY <1>1, <1>3 DEF world
  <1> QED BY <1>1, <1>2, <1>4, <1>5, <1>6, <1>7, <1>8 DEF StepCalled

(* step_once is called by a key or by a frame.                             *)
LEMMA SessionCalled ==
    ASSUME SessionTyped, dash \in {"loop", "frame"}, ~view.finished,
           AutoTicks \/ NextTick \/ StepKey
    PROVE  /\ SessionTyped' /\ \E ticks : StepCalled(ticks)
           /\ \E m \in {"Auto", "Paused"} : view' = WithMode(view, m)
  <1>0. DashTyped /\ DashPlaces /\ command \in DOMAIN Commands /\ view \in Views /\ frame \in Nat
    BY DEF SessionTyped, DashTyped
  <1>1. PICK ticks \in Nat \ {0}, m \in {"Auto", "Paused"} :
           StepOnce(ticks) /\ view' = WithMode(view, m)
    <2>0. [view EXCEPT !.mode = view.mode] = view /\ view.mode \in {"Auto", "Paused"}
      BY <1>0 DEF Views
    <2>1. CASE AutoTicks
      <3>1. view.speed \in Nat \ {0} /\ view' = WithMode(view, view.mode)
        BY <1>0, <2>0, <2>1, DashAssumption DEF AutoTicks, Views, WithMode
      <3> QED BY <2>0, <2>1, <3>1 DEF AutoTicks
    <2>2. CASE NextTick
      <3>1. frame > 1 /\ view' = WithMode(view, view.mode)
        BY <1>0, <2>0, <2>2 DEF NextTick, WithMode, DashPlaces, FramePlace
      <3>2. frame - 1 \in Nat \ {0}
        BY <1>0, <3>1
      <3> QED BY <2>0, <2>2, <3>1, <3>2 DEF NextTick
    <2>3. CASE StepKey
      <3>1. StepOnce(1) /\ view' = WithMode(view, "Paused")
        BY <2>3 DEF StepKey, WithMode
      <3> QED BY <3>1
    <2> QED BY <2>1, <2>2, <2>3
  <1>2. SimTyped' /\ command' = command /\ Unloaded' /\ StepCalled(ticks)
    BY <1>1, StepOnceIs
  <1>3. PICK v, w : v = view /\ w = view'
    OBVIOUS
  <1>4. v \in Views /\ w = WithMode(v, m)
    BY <1>0, <1>1, <1>3
  <1>5. /\ w \in Views /\ w.log = v.log /\ w.cursor = v.cursor /\ w.pps = v.pps
        /\ w.ticks = v.ticks /\ w.finished = v.finished
    BY ONLY <1>4, m \in {"Auto", "Paused"}, ViewMode
  <1>6. DashTyped'
    BY <1>0, <1>2, <1>3, <1>5 DEF DashTyped, StepCalled
  <1>7. DashPlaces'
    BY <1>1, <1>2, <1>3, <1>5 DEF DashPlaces, StepPlace, StepCalled, Loaded
  <1> QED BY <1>0, <1>1, <1>2, <1>6, <1>7 DEF SessionTyped

(* The dashboard is opened.                                                *)
LEMMA SessionInit ==
    ASSUME DashInit
    PROVE  SessionTyped
  <1>1. Init /\ dash = "open" /\ frame = 0 /\ view = NewView /\ sink = <<>> /\ emitted = <<>>
    BY DEF DashInit
  <1>2. /\ command \in DOMAIN Commands /\ sources = <<>> /\ stats = NoStats /\ pc = "load"
        /\ ~running /\ edu = NoControls
    BY <1>1 DEF Init
  <1>3. SimTyped /\ Unloaded
    BY <1>1, <1>2, TypedInit DEF Unloaded
  <1>4. FreshView(view)
    <2>1. 1 \in 1 .. MaxSpeed
      BY DashAssumption
    <2> QED BY <1>1, <2>1, ViewNew
  <1>5. DashTyped
    <2>1. "paused" \in DOMAIN edu
      BY <1>2 DEF NoControls
    <2>2. /\ view \in Views /\ view.cursor = 0 /\ view.log = <<>> /\ view.pps = <<>>
          /\ view.ticks = <<>>
      BY <1>4 DEF FreshView
    <2>3. {LogCap, HistCap} \subseteq Nat
      BY DashAssumption
    <2> QED BY <1>1, <2>1, <2>2, <2>3 DEF DashTyped
  <1>6. DashPlaces
    <2>1. \A k \in DOMAIN sources : ~sources[k].initialized
      BY <1>2, EmptyList
    <2> QED BY <1>1, <1>2, <1>4, <2>1 DEF DashPlaces, OpenPlace, FreshView
  <1> QED BY <1>2, <1>3, <1>5, <1>6 DEF SessionTyped

(* The command is loaded.                                                  *)
LEMMA SessionLoad ==
    ASSUME SessionTyped, DashLoad
    PROVE  SessionTyped'
  <1>1. /\ SimTyped /\ command \in DOMAIN Commands /\ Unloaded /\ DashTyped /\ DashPlaces
        /\ Load /\ UNCHANGED <<dash, frame, view, sink, emitted>> /\ pc = "load"
    BY DEF SessionTyped, DashLoad, Load
  <1>2. SimTyped' /\ command' = command /\ Unloaded'
    BY <1>1, TypedNext, UnloadedNext DEF Next
  <1>3. dash = "open" /\ OpenPlace
    BY <1>1 DEF DashPlaces, DashTyped, ArmedPlace, LoopPlace, StepPlace, FramePlace, Loaded
  <1>4. "paused" \in DOMAIN edu' /\ \A k \in DOMAIN sources' : ~sources'[k].initialized
    <2>1. CASE UNCHANGED <<plan, sources, budgets, edu>>
      BY <1>1, <1>3, <2>1 DEF DashTyped, OpenPlace
    <2>2. ASSUME NEW p \in CompileCommand(Commands[command]), Build(p)
          PROVE  "paused" \in DOMAIN edu' /\ \A k \in DOMAIN sources' : ~sources'[k].initialized
      <3>1. IsPlan(p)
        BY <1>1, PlansAssumption
      <3>2. "paused" \in DOMAIN edu'
        BY <2>2, <3>1 DEF IsPlan, Build, NoControls
      <3> QED BY <2>2, <3>1, <3>2, BuildGood
    <2> QED BY <1>1, <2>1, <2>2 DEF Load
  <1>5. pc' \in {"rejected", "idle"} /\ ~running'
    BY <1>1, <1>3 DEF Load, OpenPlace
  <1>6. DashTyped'
    BY <1>1, <1>4, DashSame
  <1>7. DashPlaces'
    BY <1>1, <1>3, <1>4, <1>5 DEF DashPlaces, OpenPlace
  <1> QED BY <1>1, <1>2, <1>6, <1>7 DEF SessionTyped

(* What the places of the dashboard are about.                             *)
SameScheduler ==
    /\ pc' = pc /\ caller' = caller /\ running' = running /\ sources' = sources /\ plan' = plan
    /\ stats' = stats

(* Time passes.                                                            *)
LEMMA SessionTime ==
    ASSUME SessionTyped, DashTime
    PROVE  SessionTyped' /\ SameScheduler
  <1>1. /\ SimTyped /\ command \in DOMAIN Commands /\ Unloaded /\ DashTyped /\ DashPlaces
        /\ RealTimePasses /\ UNCHANGED <<dash, frame, view, sink, emitted>>
    BY DEF SessionTyped, DashTime
  <1>2. SimTyped' /\ command' = command /\ Unloaded'
    BY <1>1, TypedNext, UnloadedNext DEF Next
  <1>3. SameScheduler /\ edu' = edu /\ clock' = clock + 1
    BY <1>1 DEF RealTimePasses, SameScheduler, call
  <1>4. DashTyped'
    BY <1>1, <1>3, DashSame DEF DashTyped
  <1>5. clock >= DurationNs => clock' >= DurationNs'
    <2>1. Loaded
      BY <1>1, SimAssumption DEF RealTimePasses, SimTyped, SimPlaces, SimNumbers
    <2>2. DurationNs \in Nat /\ clock \in Nat /\ DurationNs' = DurationNs
      BY <1>1, <1>3, <2>1 DEF SimTyped, SimPlaces, SimNumbers, IsPlan, DurationNs, SameScheduler
    <2> QED BY <1>3, <2>2
  <1>6. OpenPlace' <=> OpenPlace
    BY <1>1, <1>3 DEF OpenPlace, SameScheduler
  <1>7. ArmedPlace => ArmedPlace'
    BY <1>1, <1>3 DEF ArmedPlace, SameScheduler
  <1>8. LoopPlace => LoopPlace'
    BY <1>1, <1>3, <1>5 DEF LoopPlace, SameScheduler
  <1>9. StepPlace => StepPlace'
    BY <1>1, <1>3, <1>5 DEF StepPlace, SameScheduler, Loaded
  <1>10. FramePlace => FramePlace'
    BY <1>1, <1>3 DEF FramePlace, SameScheduler
  <1>11. DashPlaces'
    BY <1>1, <1>3, <1>6, <1>7, <1>8, <1>9, <1>10 DEF DashPlaces, SameScheduler
  <1> QED BY <1>1, <1>2, <1>3, <1>4, <1>11 DEF SessionTyped

(* Nothing happens.                                                        *)
LEMMA SessionSame ==
    ASSUME SessionTyped, UNCHANGED vars, UNCHANGED <<dash, frame, view, sink, emitted>>
    PROVE  SessionTyped'
  <1>1. SimTyped /\ command \in DOMAIN Commands /\ Unloaded /\ DashTyped /\ DashPlaces
    BY DEF SessionTyped
  <1>2. SimTyped' /\ command' = command /\ Unloaded'
    BY <1>1, TypedNext, UnloadedNext
  <1>3. SameScheduler /\ edu' = edu /\ clock' = clock
    BY DEF vars, call, world, SameScheduler
  <1>4. DashTyped'
    BY <1>1, <1>3, DashSame DEF DashTyped
  <1>5. OpenPlace' = OpenPlace /\ ArmedPlace' = ArmedPlace /\ FramePlace' = FramePlace
    BY <1>3 DEF OpenPlace, ArmedPlace, FramePlace, SameScheduler
  <1>6. LoopPlace' = LoopPlace
    BY <1>3 DEF LoopPlace, SameScheduler, DurationNs
  <1>7. StepPlace' = StepPlace
    BY <1>3 DEF StepPlace, SameScheduler, Loaded, DurationNs
  <1>8. DashPlaces'
    BY <1>1, <1>3, <1>5, <1>6, <1>7 DEF DashPlaces, SameScheduler
  <1> QED BY <1>1, <1>2, <1>4, <1>8 DEF SessionTyped

(* Events are added to the sink, and the view stays.                       *)
LEMMA DashAppended ==
    ASSUME DashTyped, NEW kinds \in Seq(Kinds), Appended(sink, kinds), UNCHANGED view,
           frame' \in Nat, "paused" \in DOMAIN edu',
           dash' \in {"open", "armed", "loop", "step", "frame", "quit"}
    PROVE  DashTyped'
  <1>1. /\ view \in Views /\ sink \in Seq(Events) /\ view.cursor <= Len(sink)
        /\ Len(view.log) <= LogCap /\ Len(view.pps) <= HistCap /\ Len(view.ticks) <= HistCap
    BY DEF DashTyped
  <1>2. sink' \in Seq(Events) /\ emitted' \in Seq(Kinds) /\ Len(sink') = Len(sink) + Len(kinds)
    BY DEF Appended
  <1>3. view.cursor <= Len(sink')
    <2>1. view.cursor \in Nat /\ Len(sink) \in Nat /\ Len(kinds) \in Nat
      BY <1>1 DEF Views
    <2> QED BY <1>1, <1>2, <2>1
  <1> QED BY <1>1, <1>2, <1>3 DEF DashTyped

(* A run is armed.                                                         *)
LEMMA SessionArm ==
    ASSUME SessionTyped, Arm
    PROVE  /\ SessionTyped' /\ Begin /\ Appended(sink, StartEvents)
           /\ StartEvents \in Seq(Kinds) /\ \A i \in DOMAIN StartEvents : StartEvents[i] = "notice"
  <1>1. /\ SimTyped /\ command \in DOMAIN Commands /\ DashTyped /\ DashPlaces
        /\ dash = "open" /\ pc = "idle" /\ BeginUnlessRunning /\ OpenPlace
        /\ edu' = [edu EXCEPT !.paused = TRUE] /\ Emit(sink, StartEvents) /\ dash' = "armed"
        /\ UNCHANGED <<call, polled, frame, view>>
    BY DEF SessionTyped, Arm, DashPlaces
  <1>2. Begin
    BY <1>1 DEF BeginUnlessRunning, OpenPlace
  <1>3. Begun
    BY <1>1, BeginKeeps DEF Loaded
  <1>4. pc' = "idle" /\ caller' = caller /\ now' = now /\ caller \in {"none", "run", "step"}
    BY <1>1 DEF call, SimTyped, SimNumbers
  <1>5. SimTyped'
    BY <1>1, <1>3, <1>4, TypedBegun
  <1>6. command' = command /\ Unloaded'
    BY <1>2, <1>4 DEF Begin, Unloaded, Loaded
  <1>7. StartEvents \in Seq(Kinds) /\ \A i \in DOMAIN StartEvents : StartEvents[i] = "notice"
    <2>1. Len(sources) + 1 \in Nat
      BY <1>1, ListIs DEF SimTyped, SimParts, GoodSources
    <2>2. PICK n \in Nat : n = Len(sources) + 1
      BY <2>1
    <2>3. "notice" \in Kinds
      BY DEF Kinds
    <2>4. StartEvents = [i \in 1 .. n |-> "notice"]
      BY <2>2 DEF StartEvents
    <2> QED BY <2>3, <2>4
  <1>8. Appended(sink, StartEvents)
    <2>1. sink \in Seq(Events) /\ emitted \in Seq(Kinds)
      BY <1>1 DEF DashTyped
    <2>2. PICK s, k : s = sink /\ k = StartEvents
      OBVIOUS
    <2>3. s \in Seq(Events) /\ k \in Seq(Kinds) /\ Emit(s, k)
      BY <1>1, <1>7, <2>1, <2>2
    <2>4. Appended(s, k)
      BY <2>1, <2>3, EmitIs
    <2> QED BY <2>2, <2>4
  <1>9. DashTyped'
    <2>1. "paused" \in DOMAIN edu'
      BY <1>1, ControlsSet DEF DashTyped
    <2>2. frame' \in Nat
      BY <1>1 DEF DashTyped
    <2>3. dash' \in {"open", "armed", "loop", "step", "frame", "quit"}
      BY <1>1
    <2>4. PICK k : k = StartEvents
      OBVIOUS
    <2>5. k \in Seq(Kinds) /\ Appended(sink, k)
      BY <1>7, <1>8, <2>4
    <2> QED BY <1>1, <2>1, <2>2, <2>3, <2>5, DashAppended
  <1>10. DashPlaces'
    BY <1>1, <1>3, <1>4 DEF DashPlaces, ArmedPlace, OpenPlace, Begun
  <1> QED BY <1>1, <1>2, <1>5, <1>6, <1>7, <1>8, <1>9, <1>10 DEF SessionTyped

(* The scheduler is left alone.                                            *)
LEMMA SchedulerSame ==
    ASSUME SimTyped, command \in DOMAIN Commands, Unloaded, UNCHANGED vars
    PROVE  /\ SimTyped' /\ command' \in DOMAIN Commands /\ Unloaded'
           /\ SameScheduler /\ edu' = edu /\ clock' = clock
  BY TypedNext, UnloadedNext DEF vars, call, world, SameScheduler

(* The events of the start are read.                                       *)
LEMMA SessionArmed ==
    ASSUME SessionTyped, Armed
    PROVE  SessionTyped' /\ SameScheduler /\ HasRead(view', view)
  <1>1. /\ SimTyped /\ command \in DOMAIN Commands /\ Unloaded /\ DashTyped /\ DashPlaces
        /\ dash = "armed" /\ dash' = "loop" /\ ArmedPlace
        /\ view' = Refreshed(view) /\ sink' = Truncated /\ UNCHANGED <<vars, frame, emitted>>
    BY DEF SessionTyped, Armed, DashPlaces
  <1>2. /\ SimTyped' /\ command' \in DOMAIN Commands /\ Unloaded'
        /\ SameScheduler /\ edu' = edu /\ clock' = clock
    BY <1>1, SchedulerSame
  <1>3. HasRead(view', view)
    <2>1. PICK v, w : v = view /\ w = view'
      OBVIOUS
    <2>2. v \in Views /\ w = Refreshed(v)
      BY <1>1, <2>1 DEF DashTyped
    <2>3. HasRead(w, v)
      BY <1>1, <2>2, RefreshedIs
    <2> QED BY <2>1, <2>3
  <1>4. /\ Truncated \in Seq(Events) /\ Len(Truncated) <= SinkCap /\ Len(Truncated) \in Nat
    BY <1>1, TruncatedIs DEF DashTyped
  <1>5. DashTyped'
    <2>1. /\ view' \in Views /\ view'.cursor = Len(sink')
          /\ Len(view'.log) <= LogCap /\ view'.pps = view.pps /\ view'.ticks = view.ticks
      BY <1>1, <1>3 DEF HasRead
    <2>2. sink' \in Seq(Events) /\ Len(sink') \in Nat
      BY <1>1, <1>4
    <2> QED BY <1>1, <1>2, <2>1, <2>2 DEF DashTyped
  <1>6. LoopPlace'
    <2>1. view'.mode = "Paused" /\ ~view'.finished
      BY <1>1, <1>3 DEF HasRead, ArmedPlace
    <2>2. Len(sink') <= SinkCap + 1
      BY <1>1, <1>4, DashAssumption
    <2>3. pc' = "idle" /\ running'
      BY <1>1, <1>2 DEF ArmedPlace, SameScheduler
    <2>4. \A k \in DOMAIN sources' : sources'[k].initialized
      BY <1>2, <2>3 DEF SimTyped, SimLive
    <2> QED BY <2>1, <2>2, <2>3, <2>4 DEF LoopPlace
  <1>7. DashPlaces'
    BY <1>1, <1>6 DEF DashPlaces
  <1> QED BY <1>2, <1>3, <1>5, <1>7 DEF SessionTyped

(* A view and a sink of a new run.                                         *)
NewSession ==
    /\ FreshView(view') /\ sink' = <<>> /\ emitted' = <<>> /\ stats' = NoStats
    /\ pc' = "idle" /\ dash' = "open" /\ \A k \in DOMAIN sources' : NoCounts(sources'[k])

(* restart, its first half.                                                *)
LEMMA SessionRestart ==
    ASSUME SessionTyped, Restart
    PROVE  SessionTyped' /\ NewSession
  <1>1. /\ SimTyped /\ command \in DOMAIN Commands /\ Unloaded /\ DashTyped /\ DashPlaces
        /\ dash = "loop" /\ LoopPlace /\ dash' = "open" /\ Build(plan)
        /\ view' = Restarted(view) /\ sink' = <<>> /\ emitted' = <<>>
        /\ ring' = <<>> /\ timelineIdx' = 0 /\ running' = FALSE /\ stats' = NoStats
        /\ read' = <<>> /\ carried' = 0 /\ UNCHANGED <<world, call, polled, runs, frame>>
    BY DEF SessionTyped, Restart, DashPlaces
  <1>2. pc = "idle" /\ IsPlan(plan) /\ batch = <<>> /\ current = 1
    BY <1>1 DEF LoopPlace, SimTyped, SimPlaces, Loaded, Ticking
  <1>3. /\ command' = command /\ plan' = plan /\ clock' = clock /\ pc' = "idle"
        /\ caller' = caller /\ now' = now /\ current' = 1 /\ left' = left /\ batch' = <<>>
        /\ spikeNs' = spikeNs /\ runs' = runs
    BY <1>1, <1>2 DEF world, call, polled
  <1>4. /\ GoodSources(sources', TickNs') /\ GoodBudgets(budgets')
        /\ \A k \in DOMAIN sources' : NoCounts(sources'[k]) /\ ~sources'[k].initialized
    <2>1. PICK p : p = plan
      OBVIOUS
    <2>2. IsPlan(p) /\ Build(p) /\ TickNs' = p.tickNs
      BY <1>1, <1>2, <1>3, <2>1 DEF TickNs
    <2>3. /\ GoodSources(sources', p.tickNs) /\ GoodBudgets(budgets')
          /\ \A k \in DOMAIN sources' : NoCounts(sources'[k]) /\ ~sources'[k].initialized
      BY <2>2, BuildGood
    <2> QED BY <2>2, <2>3
  <1>5. SimNumbers'
    BY <1>1, <1>3, NewStats DEF SimTyped, SimNumbers
  <1>6. SimParts'
    <2>1. ring' \in Seq(Made') /\ read' \in Seq(Made') /\ batch' \in Seq(Made')
      BY <1>1, <1>3
    <2> QED BY <1>4, <2>1 DEF SimParts
  <1>7. SimPlaces'
    <2>1. Len(sources') \in Nat
      BY <1>4 DEF GoodSources, IsList
    <2>2. IsPlan(plan') /\ Len(ring') <= RingCapacity' /\ Len(batch') <= BatchSize'
      <3>1. plan.slots \in Nat /\ plan.batchSize \in Nat
        BY <1>2 DEF IsPlan
      <3> QED BY <1>1, <1>2, <1>3, <3>1 DEF RingCapacity, BatchSize
    <2> QED BY <1>3, <2>1, <2>2 DEF SimPlaces, Loaded, Ticking
  <1>8. SimLive'
    BY <1>1, <1>3 DEF SimLive, Ticking
  <1>9. SimTyped' /\ Unloaded'
    BY <1>3, <1>5, <1>6, <1>7, <1>8 DEF SimTyped, Unloaded, Loaded
  <1>10. FreshView(view')
    <2>1. PICK s : s = view.speed
      OBVIOUS
    <2>2. s \in 1 .. MaxSpeed /\ view' = WithSpeed(NewView, s)
      BY <1>1, <2>1 DEF DashTyped, Views, Restarted, WithSpeed
    <2>3. FreshView(WithSpeed(NewView, s))
      BY <2>2, ViewNew
    <2> QED BY <2>2, <2>3
  <1>11. DashTyped'
    <2>1. "paused" \in DOMAIN edu'
      BY <1>1, <1>2 DEF IsPlan, Build, NoControls
    <2>2. /\ view' \in Views /\ view'.cursor = 0 /\ view'.log = <<>> /\ view'.pps = <<>>
          /\ view'.ticks = <<>>
      BY <1>10 DEF FreshView
    <2>3. {LogCap, HistCap} \subseteq Nat
      BY DashAssumption
    <2>4. sink' \in Seq(Events) /\ emitted' \in Seq(Kinds) /\ Len(sink') = 0 /\ frame' \in Nat
      BY <1>1 DEF DashTyped
    <2>5. Len(view'.log) <= LogCap /\ Len(view'.pps) <= HistCap /\ Len(view'.ticks) <= HistCap
      BY <2>2, <2>3
    <2> QED BY <1>1, <2>1, <2>2, <2>4, <2>5 DEF DashTyped
  <1>12. DashPlaces'
    BY <1>1, <1>3, <1>4, <1>10 DEF DashPlaces, OpenPlace, FreshView
  <1> QED BY <1>1, <1>3, <1>4, <1>9, <1>10, <1>11, <1>12 DEF SessionTyped, NewSession

(* What the keys leave of the view and of the sink.                        *)
KeyPressed ==
    /\ UNCHANGED <<sink, emitted>> /\ SameScheduler
    /\ view'.log = view.log /\ view'.cursor = view.cursor /\ view'.pps = view.pps
    /\ view'.ticks = view.ticks /\ view'.prev = view.prev /\ view'.finished = view.finished

(* Quit, and the keys that leave the scheduler alone.                      *)
LEMMA SessionKeys ==
    ASSUME SessionTyped, \/ Quit \/ Speed
                         \/ StepKey /\ view.finished
    PROVE  SessionTyped' /\ KeyPressed /\ dash = "loop" /\ dash' \in {"loop", "quit"}
  <1>1. /\ SimTyped /\ command \in DOMAIN Commands /\ Unloaded /\ DashTyped /\ DashPlaces
        /\ dash = "loop" /\ LoopPlace /\ dash' \in {"loop", "quit"}
        /\ UNCHANGED <<vars, frame, sink, emitted>>
    BY DEF SessionTyped, Quit, Speed, StepKey, DashPlaces
  <1>2. /\ SimTyped' /\ command' \in DOMAIN Commands /\ Unloaded'
        /\ SameScheduler /\ edu' = edu /\ clock' = clock
    BY <1>1, SchedulerSame
  <1>3. view \in Views /\ view.speed \in Nat \ {0} /\ view.speed <= MaxSpeed /\ MaxSpeed \in Nat
        /\ MaxSpeed >= 1
    BY <1>1, DashAssumption DEF DashTyped, Views
  <1>4. /\ view' \in Views /\ view'.mode \in {view.mode, "Paused"}
        /\ view'.log = view.log /\ view'.cursor = view.cursor /\ view'.pps = view.pps
        /\ view'.ticks = view.ticks /\ view'.prev = view.prev /\ view'.finished = view.finished
    <2>1. CASE Quit
      BY <1>3, <2>1 DEF Quit
    <2>2. PICK v, w : v = view /\ w = view'
      OBVIOUS
    <2>3. CASE StepKey
      <3>1. v \in Views /\ w = WithMode(v, "Paused")
        BY <1>3, <2>2, <2>3 DEF StepKey, WithMode
      <3>2. "Paused" \in {"Auto", "Paused"}
        OBVIOUS
      <3>3. /\ w \in Views /\ w.mode = "Paused" /\ w.log = v.log /\ w.cursor = v.cursor
            /\ w.pps = v.pps /\ w.ticks = v.ticks /\ w.prev = v.prev /\ w.finished = v.finished
        BY ONLY <3>1, <3>2, ViewMode
      <3> QED BY <2>2, <3>3
    <2>4. CASE Speed
      <3>1. PICK s : /\ s \in {Lesser(2 * view.speed, MaxSpeed), Halved(view.speed)}
                     /\ w = WithSpeed(v, s)
        BY <2>2, <2>4 DEF Speed, WithSpeed
      <3>2. s \in 1 .. MaxSpeed
        <4>1. view.speed \div 2 \in Nat /\ view.speed \div 2 <= view.speed
          BY <1>3
        <4>2. Halved(view.speed) \in 1 .. MaxSpeed
          BY <1>3, <4>1 DEF Halved, Greater
        <4>3. Lesser(2 * view.speed, MaxSpeed) \in 1 .. MaxSpeed
          <5>1. PICK a : a = 2 * view.speed
            OBVIOUS
          <5>2. a \in Nat /\ a >= 1
            BY <1>3, <5>1
          <5>3. Lesser(a, MaxSpeed) = IF a <= MaxSpeed THEN a ELSE MaxSpeed
            BY <1>3, <5>2, LesserIs
          <5> QED BY <1>3, <5>1, <5>2, <5>3
        <4> QED BY <3>1, <4>2, <4>3
      <3>3. v \in Views
        BY <1>3, <2>2
      <3>4. /\ w \in Views /\ w.mode = v.mode /\ w.log = v.log
            /\ w.cursor = v.cursor /\ w.pps = v.pps /\ w.ticks = v.ticks /\ w.prev = v.prev
            /\ w.finished = v.finished
        BY ONLY <3>1, <3>2, <3>3, ViewSpeed
      <3> QED BY <2>2, <3>4
    <2> QED BY <2>1, <2>3, <2>4
  <1>5. DashTyped'
    BY <1>1, <1>2, <1>4 DEF DashTyped
  <1>6. LoopPlace'
    BY <1>1, <1>2, <1>4 DEF LoopPlace, SameScheduler, DurationNs
  <1>7. DashPlaces'
    BY <1>1, <1>2, <1>6 DEF DashPlaces, SameScheduler, LoopPlace
  <1> QED BY <1>1, <1>2, <1>4, <1>5, <1>7 DEF SessionTyped, KeyPressed

(* Space.                                                                  *)
LEMMA SessionSpace ==
    ASSUME SessionTyped, Space
    PROVE  SessionTyped' /\ KeyPressed /\ dash = "loop" /\ dash' = "loop"
  <1>1. /\ SimTyped /\ command \in DOMAIN Commands /\ Unloaded /\ DashTyped /\ DashPlaces
        /\ dash = "loop" /\ LoopPlace /\ dash' = "loop" /\ ~view.finished
        /\ UNCHANGED <<world, sources, ringed, timelineIdx, running, stats, call, polled, past,
                       frame, sink, emitted>>
    BY DEF SessionTyped, Space, DashPlaces
  <1>2. SameScheduler /\ clock' = clock /\ command' = command
    BY <1>1 DEF SameScheduler, call, world
  <1>3. SimTyped' /\ Unloaded'
    <2>1. clock' \in Nat
      BY <1>1, <1>2 DEF SimTyped, SimNumbers
    <2>2. UNCHANGED <<command, plan, sources, ringed, timelineIdx, running, stats, call,
                      polled, past>>
      BY <1>1 DEF world
    <2> QED BY <1>1, <1>2, <2>1, <2>2, TypedQuiet DEF Unloaded, Loaded, SameScheduler
  <1>4. PICK v, w, m : v = view /\ w = view' /\ m = IF view.mode = "Auto" THEN "Paused" ELSE "Auto"
    OBVIOUS
  <1>5. v \in Views /\ w = WithMode(v, m) /\ m \in {"Auto", "Paused"}
    BY <1>1, <1>4 DEF DashTyped, Space, WithMode
  <1>6. /\ w \in Views /\ w.mode = m /\ w.log = v.log /\ w.cursor = v.cursor
        /\ w.pps = v.pps /\ w.ticks = v.ticks /\ w.prev = v.prev /\ w.finished = v.finished
    BY ONLY <1>5, ViewMode
  <1>7. "paused" \in DOMAIN edu' /\ (m = "Auto" => ~edu'.paused)
    <2>1. PICK b : b = (view.mode = "Auto")
      OBVIOUS
    <2>2. edu' = [edu EXCEPT !.paused = b] /\ "paused" \in DOMAIN edu
      BY <1>1, <2>1 DEF Space, DashTyped
    <2>3. "paused" \in DOMAIN edu' /\ edu'.paused = b
      BY <2>2, ControlsSet
    <2>4. m = "Auto" => ~b
      BY <1>4, <2>1
    <2> QED BY <2>3, <2>4
  <1>8. DashTyped'
    BY <1>1, <1>4, <1>6, <1>7 DEF DashTyped
  <1>9. LoopPlace'
    BY <1>1, <1>2, <1>4, <1>6, <1>7 DEF LoopPlace, SameScheduler, DurationNs
  <1>10. DashPlaces'
    BY <1>1, <1>9 DEF DashPlaces
  <1>11. KeyPressed
    BY <1>1, <1>2, <1>4, <1>6 DEF KeyPressed
  <1> QED BY <1>1, <1>2, <1>3, <1>8, <1>10, <1>11 DEF SessionTyped

(* What a step of the scheduler emits: the end of a tick is told once, and *)
(* by nothing else.                                                        *)
Emitted(kinds) ==
    /\ kinds \in Seq(Kinds) /\ Appended(sink, kinds)
    /\ \/ StepEnd /\ kinds = <<"tick">>
       \/ /\ \/ StepOver \/ StepBreaks \/ StepBegin \/ StepPolls
             \/ PollBegins \/ NicDone \/ PcapFull \/ PcapWaits
             \/ NicPacket \/ PcapPacket \/ PushRing \/ DrainConsumers
          /\ \A i \in DOMAIN kinds : kinds[i] # "tick"

(* A step that emits nothing appends nothing.                              *)
LEMMA NothingEmitted ==
    ASSUME DashTyped, UNCHANGED <<sink, emitted>>
    PROVE  Appended(sink, <<>>)
  BY DEF DashTyped, Appended

(* A packet is told by packet events and notices only.                     *)
LEMMA PacketTold ==
    PacketEvents \in Seq(Kinds) /\ \A i \in DOMAIN PacketEvents : PacketEvents[i] # "tick"
  <1> DEFINE Q == {"packet", "notice"}
  <1>1. <<"notice">> \in Seq(Q) /\ <<"packet">> \in Seq(Q) /\ <<>> \in Seq(Q)
    OBVIOUS
  <1>2. \A s, t \in Seq(Q) : s \o t \in Seq(Q)
    <2> HIDE DEF Q
    <2> QED OBVIOUS
  <1>3. PacketEvents \in Seq(Q)
    <2> HIDE DEF Q
    <2> QED BY <1>1, <1>2 DEF PacketEvents
  <1>4. PICK e : e = PacketEvents
    OBVIOUS
  <1>5. e \in Seq(Kinds) /\ \A i \in DOMAIN e : e[i] # "tick"
    <2>1. \A i \in DOMAIN e : e[i] \in Q
      BY <1>3, <1>4
    <2>2. Q \subseteq Kinds
      BY DEF Kinds
    <2>3. e \in Seq(Kinds)
      <3> HIDE DEF Q
      <3> QED BY <1>3, <1>4, <2>2, SeqWider
    <2> QED BY <2>1, <2>3
  <1> QED BY <1>4, <1>5

(* Every packet that is pushed is told, none by a tick.                    *)
LEMMA PushTold ==
    ASSUME SimTyped
    PROVE  PushEvents \in Seq(Kinds) /\ \A i \in DOMAIN PushEvents : PushEvents[i] # "tick"
  <1>1. PICK n \in Nat : DOMAIN batch = 1 .. n
    BY DEF SimTyped, SimParts
  <1>2. DOMAIN PushEvents = 1 .. n /\ \A i \in 1 .. n : PushEvents[i] \in {"packet", "notice"}
    BY <1>1 DEF PushEvents
  <1>3. PushEvents = [i \in 1 .. n |-> PushEvents[i]]
    BY <1>1 DEF PushEvents
  <1>4. PICK e : e = PushEvents
    OBVIOUS
  <1>5. DOMAIN e = 1 .. n /\ e = [i \in 1 .. n |-> e[i]] /\ \A i \in 1 .. n : e[i] \in {"packet", "notice"}
    BY <1>2, <1>3, <1>4
  <1>6. e \in Seq(Kinds)
    BY <1>5 DEF Kinds
  <1> QED BY <1>4, <1>5, <1>6

(* Every packet that is read is told, none by a tick.                      *)
LEMMA DrainTold ==
    ASSUME SimTyped, DrainConsumers
    PROVE  DrainEvents \in Seq(Kinds) /\ \A i \in DOMAIN DrainEvents : DrainEvents[i] # "tick"
  <1>1. PICK got : TakenOut(got)
    BY Drains
  <1>2. PICK n : n = stats'.consumed - stats.consumed
    OBVIOUS
  <1>3. n \in Nat
    <2>1. stats \in Stats /\ stats'.consumed = stats.consumed + Len(got) /\ Len(got) \in Nat
      BY <1>1 DEF SimTyped, SimNumbers, TakenOut
    <2>2. stats.consumed \in Nat
      BY <2>1 DEF Stats
    <2> QED BY <1>2, <2>1, <2>2
  <1>4. DrainEvents = [i \in 1 .. n |-> "packet"]
    BY <1>2 DEF DrainEvents
  <1> QED BY <1>3, <1>4 DEF Kinds

(* What a step of the scheduler emits: a tick at its end, and nowhere      *)
(* else.                                                                   *)
LEMMA StepsEmit ==
    ASSUME SimTyped, DashTyped, Steps
    PROVE  \E kinds : Emitted(kinds)
  <1>0. sink \in Seq(Events) /\ emitted \in Seq(Kinds)
    BY DEF DashTyped
  <1>1. ASSUME NEW k \in Seq(Kinds), Emit(sink, k) PROVE Appended(sink, k)
    <2>1. PICK s : s = sink
      OBVIOUS
    <2>2. Appended(s, k)
      BY <1>0, <1>1, <2>1, EmitIs
    <2> QED BY <2>1, <2>2
  <1>2. CASE /\ \/ StepOver \/ StepBreaks \/ StepBegin \/ StepPolls
                \/ PollBegins \/ NicDone \/ PcapFull \/ PcapWaits
             /\ UNCHANGED <<sink, emitted>>
    <2>1. <<>> \in Seq(Kinds) /\ \A i \in DOMAIN <<>> : <<>>[i] # "tick"
      OBVIOUS
    <2>2. Emitted(<<>>)
      BY <1>2, <2>1, NothingEmitted DEF Emitted
    <2> QED BY <2>2
  <1>3. CASE (NicPacket \/ PcapPacket) /\ Emit(sink, PacketEvents)
    <2>1. PICK k : k = PacketEvents
      OBVIOUS
    <2>2. k \in Seq(Kinds) /\ \A i \in DOMAIN k : k[i] # "tick"
      BY <2>1, PacketTold
    <2>3. Emitted(k)
      BY <1>1, <1>3, <2>1, <2>2 DEF Emitted
    <2> QED BY <2>3
  <1>4. CASE PushRing /\ Emit(sink, PushEvents)
    <2>1. PICK k : k = PushEvents
      OBVIOUS
    <2>2. k \in Seq(Kinds) /\ \A i \in DOMAIN k : k[i] # "tick"
      BY <2>1, PushTold
    <2>3. Emitted(k)
      BY <1>1, <1>4, <2>1, <2>2 DEF Emitted
    <2> QED BY <2>3
  <1>5. CASE DrainConsumers /\ Emit(sink, DrainEvents)
    <2>1. PICK k : k = DrainEvents
      OBVIOUS
    <2>2. k \in Seq(Kinds) /\ \A i \in DOMAIN k : k[i] # "tick"
      BY <1>5, <2>1, DrainTold
    <2>3. Emitted(k)
      BY <1>1, <1>5, <2>1, <2>2 DEF Emitted
    <2> QED BY <2>3
  <1>6. CASE StepEnd /\ Emit(sink, <<"tick">>)
    <2>1. <<"tick">> \in Seq(Kinds)
      BY DEF Kinds
    <2>2. Emitted(<<"tick">>)
      BY <1>1, <1>6, <2>1 DEF Emitted
    <2> QED BY <2>2
  <1> QED BY <1>2, <1>3, <1>4, <1>5, <1>6 DEF Steps

(* The scheduler works on its step.                                        *)
LEMMA StepsKeepPlace ==
    ASSUME SimTyped, SimTyped', StepPlace, StepContinues, UNCHANGED <<frame, view>>,
           "paused" \in DOMAIN edu
    PROVE  StepPlace' /\ "paused" \in DOMAIN edu'
  <1>1. caller = "step" /\ ~view.finished /\ frame >= 1
    BY DEF StepPlace
  <1>2. CASE StepOver
    <2>1. pc' = "idle" /\ clock' = clock /\ plan' = plan /\ caller' = caller /\ edu' = edu
          /\ clock >= DurationNs
      BY <1>1, <1>2 DEF StepOver, StepReturns, world
    <2> QED BY <1>1, <2>1 DEF StepPlace, Loaded, DurationNs
  <1>3. CASE StepBreaks
    <2>1. pc' = "idle" /\ running' = running /\ caller' = caller /\ edu' = [edu EXCEPT !.paused = TRUE]
          /\ pc = "step"
      BY <1>3 DEF StepBreaks
    <2>2. running
      BY <2>1 DEF SimTyped, SimLive
    <2> QED BY <1>1, <2>1, <2>2, ControlsSet DEF StepPlace, Loaded
  <1>4. CASE StepEnd
    <2>1. PICK next : next = IF mode = "Virtual" THEN clock + AdvanceNs ELSE clock
      OBVIOUS
    <2>2. /\ pc' = "idle" /\ running' = (next < DurationNs) /\ clock' = next /\ plan' = plan
          /\ caller' = caller /\ edu' = edu
      BY <1>1, <1>4, <2>1 DEF StepEnd, StepReturns
    <2>3. next \in Nat /\ DurationNs \in Nat
      BY <2>2 DEF SimTyped, SimNumbers, SimPlaces, Loaded, IsPlan, DurationNs
    <2>5. ~running' => ~(next < DurationNs)
      BY <2>2, Zenon
    <2>6. DurationNs' = DurationNs
      BY <2>2 DEF DurationNs
    <2>4. ~running' => clock' >= DurationNs'
      BY <2>2, <2>3, <2>5, <2>6
    <2> QED BY <1>1, <2>2, <2>4 DEF StepPlace, Loaded
  <1>5. CASE \/ StepBegin \/ StepPolls \/ PollBegins \/ NicPacket \/ PcapPacket
             \/ NicDone \/ PcapFull \/ PcapWaits \/ PushRing \/ DrainConsumers
    <2>1. pc # "idle" /\ pc' \notin {"idle", "load", "rejected"} /\ caller' = caller /\ edu' = edu
      BY <1>5 DEF StepBegin, StepPolls, PollBegins, NicPacket, PcapPacket, Polling, call,
                  NicDone, PcapFull, PcapWaits, PollReturns, PushRing, DrainConsumers
    <2> QED BY <1>1, <2>1 DEF StepPlace, Loaded
  <1> QED BY <1>2, <1>3, <1>4, <1>5 DEF StepContinues

(* A step of the scheduler keeps the session typed.                        *)
LEMMA SessionSteps ==
    ASSUME SessionTyped, Steps
    PROVE  SessionTyped' /\ StepContinues /\ UNCHANGED <<dash, frame, view>> /\ dash = "step"
  <1>1. /\ SimTyped /\ command \in DOMAIN Commands /\ Unloaded /\ DashTyped /\ DashPlaces
        /\ dash = "step" /\ StepPlace /\ UNCHANGED <<dash, frame, view>>
    BY DEF SessionTyped, Steps, DashPlaces
  <1>2. StepContinues
    BY DEF Steps, StepContinues
  <1>3. SimTyped' /\ command' = command /\ Unloaded'
    BY <1>1, <1>2, TypedNext, UnloadedNext DEF Next
  <1>4. StepPlace' /\ "paused" \in DOMAIN edu'
    BY <1>1, <1>2, <1>3, StepsKeepPlace DEF DashTyped
  <1>5. DashTyped'
    <2>1. PICK k : Emitted(k)
      BY <1>1, StepsEmit
    <2>2. k \in Seq(Kinds) /\ Appended(sink, k)
      BY <2>1 DEF Emitted
    <2>3. frame' \in Nat /\ dash' \in {"open", "armed", "loop", "step", "frame", "quit"}
      BY <1>1 DEF DashTyped
    <2> QED BY <1>1, <1>4, <2>2, <2>3, DashAppended
  <1>6. DashPlaces'
    BY <1>1, <1>4 DEF DashPlaces
  <1> QED BY <1>1, <1>2, <1>3, <1>5, <1>6 DEF SessionTyped

(* step_once after a step: the samples and the events of the tick are read.*)
Ingested(s, w) ==
    /\ HasSampled(s) /\ HasRead(w, s) /\ view' \in Views
    /\ view'.log = w.log /\ view'.cursor = w.cursor /\ view'.pps = w.pps
    /\ view'.ticks = w.ticks /\ view'.prev = w.prev

StepAnswered ==
    /\ StepBroke => view'.mode = "Paused" /\ ~view'.finished
    /\ StepMore  => view'.mode = view.mode /\ ~view'.finished
    /\ StepLast  => view'.mode = "Paused" /\ view'.finished

(* After a step the samples are taken first, then the events are read.     *)
LEMMA TickRead ==
    ASSUME SimTyped, DashTyped, ~view.finished, StepBroke \/ StepMore \/ StepLast
    PROVE  StepAnswered /\ \E s, w : Ingested(s, w)
  <1>1. PICK s, w, u : s = Sampled(view) /\ w = Refreshed(s) /\ u = view'
    OBVIOUS
  <1>2. HasSampled(s)
    <2>1. stats.generated \in Nat
      BY DEF SimTyped, SimNumbers, Stats
    <2> QED BY <1>1, <2>1, SampledIs
  <1>3. s \in Views /\ s.mode = view.mode /\ s.finished = view.finished
    BY <1>2 DEF HasSampled
  <1>4. HasRead(w, s)
    BY <1>1, <1>3, RefreshedIs
  <1>5. w \in Views /\ w.mode = view.mode /\ w.finished = view.finished
    BY <1>3, <1>4 DEF HasRead
  <1>6. StepMore => u = w
    BY <1>1 DEF StepMore
  <1>7. StepBroke => u = WithMode(w, "Paused")
    BY <1>1 DEF StepBroke, WithMode
  <1>8. StepLast => u = WithEnd(w)
    BY <1>1 DEF StepLast, WithEnd
  <1>9. /\ u \in Views /\ u.log = w.log /\ u.cursor = w.cursor /\ u.pps = w.pps
        /\ u.ticks = w.ticks /\ u.prev = w.prev
    <2>1. CASE StepMore
      BY <1>5, <1>6, <2>1
    <2>2. CASE StepBroke
      BY ONLY <1>5, <1>7, <2>2, ViewMode
    <2>3. CASE StepLast
      BY ONLY <1>5, <1>8, <2>3, ViewOver
    <2> QED BY <2>1, <2>2, <2>3
  <1>10. Ingested(s, w)
    BY <1>1, <1>2, <1>4, <1>9 DEF Ingested
  <1>11. StepMore => u.mode = view.mode /\ ~u.finished
    BY <1>5, <1>6
  <1>12. StepBroke => u.mode = "Paused" /\ ~u.finished
    <2>1. StepBroke => u.mode = "Paused" /\ u.finished = w.finished
      BY ONLY <1>5, <1>7, ViewMode
    <2> QED BY <1>5, <2>1
  <1>13. StepLast => u.mode = "Paused" /\ u.finished
    BY ONLY <1>5, <1>8, ViewOver
  <1>14. StepAnswered
    BY <1>1, <1>11, <1>12, <1>13 DEF StepAnswered
  <1> QED BY <1>10, <1>14

(* The types of what is left, whatever is told last.                       *)
LEMMA IngestedTypes ==
    ASSUME DashTyped, NEW s, NEW w, Ingested(s, w), frame' = frame,
           dash' \in {"loop", "frame"}, edu' = edu,
           sink' \in Seq(Events), emitted' \in Seq(Kinds), Len(sink') >= Len(Truncated)
    PROVE  DashTyped'
  <1>1. /\ view' \in Views /\ view'.cursor = Len(Truncated) /\ Len(view'.log) <= LogCap
        /\ view'.pps = s.pps /\ view'.ticks = s.ticks
    BY DEF Ingested, HasRead
  <1>2. Len(s.pps) <= HistCap /\ Len(s.ticks) <= HistCap
    BY DEF Ingested, HasSampled
  <1>3. view'.cursor <= Len(sink')
    <2>1. Len(Truncated) \in Nat /\ Len(sink') \in Nat
      BY TruncatedIs DEF DashTyped
    <2> QED BY <1>1, <2>1
  <1> QED BY <1>1, <1>2, <1>3 DEF DashTyped

(* A step that has broken off, or has more to come.                        *)
LEMMA SessionGoesOn ==
    ASSUME SessionTyped, StepBroke \/ StepMore
    PROVE  SessionTyped' /\ SameScheduler
  <1>1. /\ SimTyped /\ command \in DOMAIN Commands /\ Unloaded /\ DashTyped
        /\ dash = "step" /\ StepPlace /\ pc = "idle" /\ running /\ sink' = Truncated
        /\ UNCHANGED <<vars, frame, emitted>> /\ dash' = AfterTick(view')
    BY DEF SessionTyped, StepBroke, StepMore, DashPlaces
  <1>2. /\ SimTyped' /\ command' \in DOMAIN Commands /\ Unloaded'
        /\ SameScheduler /\ edu' = edu /\ clock' = clock
    BY <1>1, SchedulerSame
  <1>3. StepAnswered /\ \E s, w : Ingested(s, w)
    BY <1>1, TickRead DEF StepPlace
  <1>4. PICK s, w : Ingested(s, w)
    BY <1>3
  <1>5. /\ Truncated \in Seq(Events) /\ Len(Truncated) <= SinkCap /\ Len(Truncated) \in Nat
    BY <1>1, TruncatedIs DEF DashTyped
  <1>6. dash' \in {"loop", "frame"} /\ (dash' = "frame" => frame > 1 /\ view'.mode = "Auto")
    BY <1>1 DEF AfterTick
  <1>7. DashTyped'
    BY <1>1, <1>2, <1>4, <1>5, <1>6, IngestedTypes DEF DashTyped
  <1>8. ~view'.finished /\ (view'.mode = "Auto" => ~edu'.paused)
    <2>1. CASE StepBroke
      BY <1>3, <2>1 DEF StepAnswered
    <2>2. CASE StepMore
      BY <1>2, <1>3, <2>2 DEF StepAnswered, StepMore
    <2> QED BY <2>1, <2>2
  <1>9. pc' = "idle" /\ running' /\ \A k \in DOMAIN sources' : sources'[k].initialized
    BY <1>1, <1>2 DEF SameScheduler, SimTyped, SimLive
  <1>10. dash' = "loop" => LoopPlace'
    <2>1. Len(sink') <= SinkCap + 1
      BY <1>1, <1>5, DashAssumption
    <2> QED BY <1>8, <1>9, <2>1 DEF LoopPlace
  <1>11. dash' = "frame" => FramePlace'
    BY <1>1, <1>6, <1>8, <1>9 DEF FramePlace
  <1>12. DashPlaces'
    BY <1>6, <1>10, <1>11 DEF DashPlaces
  <1> QED BY <1>2, <1>7, <1>12 DEF SessionTyped

(* The last step: the run is finished.                                     *)
LEMMA SessionEnds ==
    ASSUME SessionTyped, StepLast
    PROVE  /\ SessionTyped' /\ Appended(Truncated, <<"notice">>) /\ dash' = "loop"
           /\ pc' = pc /\ stats'.ticks = stats.ticks
           /\ stats'.generated = Total(sources, "generated")
           /\ DOMAIN sources' = DOMAIN sources
           /\ \A k \in DOMAIN sources : sources'[k].generated = sources[k].generated
  <1>1. /\ SimTyped /\ command \in DOMAIN Commands /\ Unloaded /\ DashTyped
        /\ dash = "step" /\ StepPlace /\ pc = "idle" /\ ~running
        /\ Finish(stats, sources, clock) /\ Emit(Truncated, <<"notice">>) /\ dash' = AfterTick(view')
        /\ UNCHANGED <<world, ringed, edu, timelineIdx, call, polled, past, frame>>
    BY DEF SessionTyped, StepLast, DashPlaces
  <1>2. SimTyped'
    BY <1>1, TypedFinish
  <1>3. command' = command /\ clock' = clock /\ plan' = plan /\ pc' = pc
    BY <1>1 DEF world, call
  <1>4. /\ ~running' /\ \A k \in DOMAIN sources' : ~sources'[k].initialized
        /\ stats'.ticks = stats.ticks /\ stats'.generated = Total(sources, "generated")
        /\ DOMAIN sources' = DOMAIN sources
        /\ \A k \in DOMAIN sources : sources'[k].generated = sources[k].generated
    <2>1. GoodSources(sources, TickNs) /\ stats \in Stats /\ clock \in Nat
      BY <1>1 DEF SimTyped, SimParts, SimNumbers
    <2>2. /\ ~running' /\ stats'.ticks = stats.ticks
          /\ stats'.generated = Total(sources, "generated") /\ DOMAIN sources' = DOMAIN sources
          /\ \A k \in DOMAIN sources :
               KeepsCounts(sources[k], sources'[k]) /\ ~sources'[k].initialized
      BY <1>1, <2>1, FinishIs
    <2> QED BY <2>2 DEF KeepsCounts
  <1>5. StepAnswered /\ \E s, w : Ingested(s, w)
    BY <1>1, TickRead DEF StepPlace
  <1>6. PICK s, w : Ingested(s, w)
    BY <1>5
  <1>7. /\ Truncated \in Seq(Events) /\ Len(Truncated) <= SinkCap /\ Len(Truncated) \in Nat
    BY <1>1, TruncatedIs DEF DashTyped
  <1>8. Appended(Truncated, <<"notice">>)
    <2>1. PICK t, k : t = Truncated /\ k = <<"notice">>
      OBVIOUS
    <2>2. t \in Seq(Events) /\ k \in Seq(Kinds) /\ Emit(t, k) /\ emitted \in Seq(Kinds)
      BY <1>1, <1>7, <2>1 DEF DashTyped, Kinds
    <2>3. Appended(t, k)
      BY <2>2, EmitIs
    <2> QED BY <2>1, <2>3
  <1>9. sink' \in Seq(Events) /\ emitted' \in Seq(Kinds) /\ Len(sink') = Len(Truncated) + 1
    <2>1. Len(<<"notice">>) = 1
      OBVIOUS
    <2> QED BY <1>8, <2>1 DEF Appended
  <1>10. view'.mode = "Paused" /\ view'.finished
    BY <1>5 DEF StepAnswered
  <1>11. dash' = "loop"
    BY <1>1, <1>10 DEF AfterTick
  <1>12. DashTyped'
    <2>1. Len(sink') >= Len(Truncated)
      BY <1>7, <1>9
    <2>2. edu' = edu /\ frame' = frame
      BY <1>1
    <2> QED BY <1>1, <1>6, <1>9, <1>11, <2>1, <2>2, IngestedTypes
  <1>13. LoopPlace'
    <2>1. Len(sink') <= SinkCap + 1
      BY <1>7, <1>9, DashAssumption
    <2>2. clock' >= DurationNs'
      BY <1>1, <1>3 DEF StepPlace, DurationNs
    <2> QED BY <1>1, <1>3, <1>4, <1>10, <2>1, <2>2 DEF LoopPlace
  <1>14. DashPlaces'
    BY <1>11, <1>13 DEF DashPlaces
  <1>15. Unloaded'
    BY <1>1, <1>3 DEF Unloaded, Loaded
  <1> QED BY <1>1, <1>2, <1>3, <1>4, <1>8, <1>11, <1>12, <1>14, <1>15 DEF SessionTyped

(* Every step keeps the session typed.                                     *)
LEMMA SessionNext ==
    ASSUME SessionTyped, [DashNext]_dashVars
    PROVE  SessionTyped'
  <1>1. CASE UNCHANGED dashVars
    BY <1>1, SessionSame DEF dashVars
  <1>2. CASE DashLoad \/ DashTime
    BY <1>2, SessionLoad, SessionTime
  <1>3. CASE Arm \/ Armed \/ Restart
    BY <1>3, SessionArm, SessionArmed, SessionRestart
  <1>4. CASE Steps \/ StepBroke \/ StepLast \/ StepMore
    BY <1>4, SessionSteps, SessionGoesOn, SessionEnds
  <1>5. CASE AutoTicks \/ NextTick
    <2>1. dash \in {"loop", "frame"} /\ ~view.finished
      BY <1>5 DEF AutoTicks, NextTick, SessionTyped, DashPlaces, FramePlace
    <2> QED BY <1>5, <2>1, SessionCalled
  <1>6. CASE Quit \/ Speed
    BY <1>6, SessionKeys
  <1>7. CASE Space
    BY <1>7, SessionSpace
  <1>8. CASE StepKey
    <2>1. dash \in {"loop", "frame"}
      BY <1>8 DEF StepKey
    <2> QED BY <1>8, <2>1, SessionCalled, SessionKeys
  <1> QED BY <1>1, <1>2, <1>3, <1>4, <1>5, <1>6, <1>7, <1>8 DEF DashNext, Works

(* The histories, the log and the sink of the dashboard stay within their  *)
(* limits, and between frames its view of the run and the scheduler's      *)
(* agree, for every command, every limit and every order of the keys.      *)
THEOREM SessionInvHolds == DashSpec => []SessionInv
  <1>1. DashInit => SessionTyped
    BY SessionInit
  <1>2. SessionTyped /\ [DashNext]_dashVars => SessionTyped'
    BY SessionNext
  <1>3. SessionTyped => SessionInv
    <2> SUFFICES ASSUME SessionTyped PROVE SessionInv
      OBVIOUS
    <2>1. DashTyped /\ DashPlaces
      BY DEF SessionTyped
    <2>2. DashTypeOK
      <3>1. /\ view \in Views /\ frame \in Nat /\ view.cursor <= Len(sink) /\ Len(sink) \in Nat
            /\ dash \in {"open", "armed", "loop", "step", "frame", "quit"}
            /\ Len(view.log) <= LogCap /\ Len(view.pps) <= HistCap /\ Len(view.ticks) <= HistCap
        BY <2>1 DEF DashTyped
      <3>2. /\ view.mode \in {"Auto", "Paused"} /\ view.finished \in BOOLEAN
            /\ view.speed \in 1 .. MaxSpeed /\ view.cursor \in Nat /\ view.prev \in Nat
        BY <3>1 DEF Views
      <3>3. view.cursor \in 0 .. Len(sink)
        BY <3>1, <3>2
      <3>4. dash = "loop" => Len(sink) <= SinkCap + 1
        BY <2>1 DEF DashPlaces, LoopPlace
      <3> QED BY <3>1, <3>2, <3>3, <3>4 DEF DashTypeOK
    <2>3. FinishedMeansStopped
      BY <2>1 DEF DashPlaces, LoopPlace, FinishedMeansStopped
    <2> QED BY <2>2, <2>3 DEF SessionInv
  <1> QED BY <1>1, <1>2, <1>3, PTL DEF DashSpec

-----------------------------------------------------------------------------
(* The samples of the dashboard                                            *)

(* A total grows with its parts, and is zero when they are.                *)
LEMMA TotalGrows ==
    ASSUME NEW a, NEW b, NEW field, NEW n \in Nat, DOMAIN a = 1 .. n, DOMAIN b = 1 .. n,
           \A k \in 1 .. n : /\ a[k][field] \in Nat /\ b[k][field] \in Nat
                             /\ a[k][field] <= b[k][field]
    PROVE  /\ Total(a, field) \in Nat /\ Total(b, field) \in Nat
           /\ Total(a, field) <= Total(b, field)
           /\ (\A k \in 1 .. n : b[k][field] = 0) => Total(b, field) = 0
  <1>1. PICK p : FoldSteps(p, "sum", field, 0, a, n) /\ Total(a, field) = p[n]
    BY SumFold
  <1>2. PICK q : FoldSteps(q, "sum", field, 0, b, n) /\ Total(b, field) = q[n]
    BY SumFold
  <1>3. ASSUME NEW k \in Nat, k + 1 <= n
        PROVE  p[k + 1] = p[k] + a[k + 1][field] /\ q[k + 1] = q[k] + b[k + 1][field]
    <2>1. k + 1 \in 1 .. n /\ (k + 1) - 1 = k
      BY ONLY n \in Nat, k \in Nat, k + 1 <= n
    <2>2. /\ p[k + 1] = Apply("sum", field, p[k], a[k + 1])
          /\ q[k + 1] = Apply("sum", field, q[k], b[k + 1])
      BY <1>1, <1>2, <2>1 DEF FoldSteps
    <2> QED BY <2>2 DEF Apply
  <1> DEFINE Zero == \A k \in 1 .. n : b[k][field] = 0
             T == {k \in Nat : k <= n => /\ p[k] \in Nat /\ q[k] \in Nat /\ p[k] <= q[k]
                                         /\ Zero => q[k] = 0}
  <1>4. 0 \in T
    BY <1>1, <1>2 DEF FoldSteps
  <1>5. ASSUME NEW k \in Nat, k \in T PROVE k + 1 \in T
    <2> SUFFICES ASSUME k + 1 <= n
                 PROVE  /\ p[k + 1] \in Nat /\ q[k + 1] \in Nat /\ p[k + 1] <= q[k + 1]
                        /\ Zero => q[k + 1] = 0
      OBVIOUS
    <2>1. k + 1 \in 1 .. n /\ p[k] \in Nat /\ q[k] \in Nat /\ p[k] <= q[k] /\ (Zero => q[k] = 0)
      BY <1>5
    <2>2. p[k + 1] = p[k] + a[k + 1][field] /\ q[k + 1] = q[k] + b[k + 1][field]
      BY <1>3
    <2>3. /\ a[k + 1][field] \in Nat /\ b[k + 1][field] \in Nat /\ a[k + 1][field] <= b[k + 1][field]
          /\ Zero => b[k + 1][field] = 0
      BY <2>1
    <2> HIDE DEF Zero
    <2> QED BY <2>1, <2>2, <2>3
  <1>6. n \in T
    <2> HIDE DEF T
    <2> QED BY <1>4, <1>5, Induction
  <1> QED BY <1>1, <1>2, <1>6

(* The packets all sources have made.                                      *)
LEMMA GeneratedGrows ==
    ASSUME NEW a, NEW b, NEW t, NEW u, GoodSources(a, t), GoodSources(b, u), DOMAIN b = DOMAIN a,
           \A k \in DOMAIN a : a[k].generated <= b[k].generated
    PROVE  Generated(a) \in Nat /\ Generated(b) \in Nat /\ Generated(a) <= Generated(b)
  <1>1. PICK n \in Nat : DOMAIN a = 1 .. n
    BY ListIs DEF GoodSources
  <1>2. \A k \in 1 .. n : /\ a[k]["generated"] \in Nat /\ b[k]["generated"] \in Nat
                          /\ a[k]["generated"] <= b[k]["generated"]
    BY <1>1, GoodCounts
  <1>3. DOMAIN b = 1 .. n
    BY <1>1
  <1> QED BY ONLY n \in Nat, <1>1, <1>2, <1>3, TotalGrows DEF Generated

(* Sources with the same counters have generated as much.                  *)
LEMMA GeneratedSame ==
    ASSUME NEW a, NEW b, NEW t, NEW u, GoodSources(a, t), GoodSources(b, u), DOMAIN b = DOMAIN a,
           \A k \in DOMAIN a : b[k].generated = a[k].generated
    PROVE  Generated(b) = Generated(a)
  <1>1. \A k \in DOMAIN a : a[k].generated \in Nat
    BY GoodCounts
  <1>2. \A k \in DOMAIN a : a[k].generated <= b[k].generated /\ b[k].generated <= a[k].generated
    BY <1>1
  <1>3. Generated(a) \in Nat /\ Generated(b) \in Nat /\ Generated(a) <= Generated(b)
    BY <1>2, GeneratedGrows
  <1>4. Generated(b) <= Generated(a)
    <2>1. DOMAIN a = DOMAIN b /\ \A k \in DOMAIN b : b[k].generated <= a[k].generated
      BY <1>2
    <2> QED BY ONLY GoodSources(a, t), GoodSources(b, u), <2>1, GeneratedGrows
  <1> QED BY <1>3, <1>4

(* New sources have generated nothing.                                     *)
LEMMA GeneratedNone ==
    ASSUME NEW a, NEW t, GoodSources(a, t), \A k \in DOMAIN a : NoCounts(a[k])
    PROVE  Generated(a) = 0
  <1>1. PICK n \in Nat : DOMAIN a = 1 .. n
    BY ListIs DEF GoodSources
  <1>2. \A k \in 1 .. n : a[k]["generated"] = 0
    BY <1>1 DEF NoCounts
  <1>3. \A k \in 1 .. n : a[k]["generated"] \in Nat /\ a[k]["generated"] <= a[k]["generated"]
    BY <1>2
  <1> QED BY <1>1, <1>2, <1>3, TotalGrows DEF Generated

(* What a step of the scheduler does to the counters: those of the sources *)
(* grow, and the snapshot is theirs unless a tick is under way.            *)
Progress ==
    /\ DOMAIN sources' = DOMAIN sources
    /\ \A k \in DOMAIN sources : sources[k].generated <= sources'[k].generated
    /\ \/ Ticking'
       \/ /\ \A k \in DOMAIN sources : sources'[k].generated = sources[k].generated
          /\ \/ stats'.generated = stats.generated /\ ~Ticking
             \/ stats'.generated = Generated(sources)

(* Sources that keep what they have generated make progress.               *)
LEMMA KeptProgress ==
    ASSUME SimTyped, SourcesKept,
           \/ Ticking'
           \/ stats'.generated = stats.generated /\ ~Ticking
           \/ stats'.generated = Generated(sources)
    PROVE  Progress
  <1>1. GoodSources(sources, TickNs) /\ GoodSources(sources', TickNs') /\ Len(sources') = Len(sources)
    BY DEF SimTyped, SimParts, SourcesKept
  <1>2. DOMAIN sources' = DOMAIN sources
    BY <1>1, ListIs DEF GoodSources
  <1>3. \A k \in DOMAIN sources : sources[k].generated \in Nat
    BY <1>1, GoodCounts
  <1>4. \A k \in DOMAIN sources : sources'[k].generated = sources[k].generated
    BY DEF SourcesKept
  <1>5. \A k \in DOMAIN sources : sources[k].generated <= sources'[k].generated
    BY <1>3, <1>4
  <1> QED BY <1>2, <1>4, <1>5 DEF Progress

(* A step of the scheduler generates more, or as much as before.           *)
LEMMA StepProgress ==
    ASSUME SimTyped, caller = "step", StepContinues
    PROVE  Progress
  <1>0. GoodSources(sources, TickNs) /\ \A k \in DOMAIN sources : sources[k].generated \in Nat
    BY GoodCounts DEF SimTyped, SimParts
  <1>1. ASSUME sources' = sources, Ticking' PROVE Progress
    <2>1. \A k \in DOMAIN sources : sources[k].generated <= sources[k].generated
      BY <1>0
    <2> QED BY <1>1, <2>1 DEF Progress
  <1>2. CASE StepOver
    <2>1. stats' = stats /\ sources' = sources /\ pc = "step"
      BY <1>2 DEF StepOver, StepReturns
    <2>2. \A k \in DOMAIN sources : sources[k].generated <= sources[k].generated
      BY <1>0
    <2> QED BY <2>1, <2>2 DEF Progress, Ticking
  <1>3. CASE StepBreaks \/ StepBegin
    <2>1. SourcesKept
      BY <1>3, TypedTimeline
    <2>2. stats' = stats /\ ~Ticking
      BY <1>3 DEF StepBreaks, StepBegin, Ticking
    <2> QED BY <2>1, <2>2, KeptProgress
  <1>4. CASE PollBegins
    <2>1. SourcesKept
      BY <1>4, TypedPollBegins
    <2>2. Ticking'
      BY <1>4 DEF PollBegins, Ticking
    <2> QED BY <2>1, <2>2, KeptProgress
  <1>5. CASE NicDone \/ PcapFull \/ PcapWaits
    <2>1. SourcesKept
      BY <1>5, PollReturned
    <2>2. Ticking'
      BY <1>5 DEF NicDone, PcapFull, PcapWaits, PollReturns, Ticking
    <2> QED BY <2>1, <2>2, KeptProgress
  <1>6. CASE StepEnd
    <2>1. SourcesKept /\ stats'.generated = Generated(sources)
      BY <1>6, Ends DEF Generated
    <2> QED BY <2>1, KeptProgress
  <1>7. CASE StepPolls \/ PushRing \/ DrainConsumers
    <2>1. sources' = sources /\ Ticking'
      BY <1>7 DEF StepPolls, PushRing, DrainConsumers, Ticking
    <2> QED BY <1>1, <2>1
  <1>8. CASE NicPacket \/ PcapPacket
    <2>1. /\ pc = "packets" /\ current <= Len(sources)
          /\ UNCHANGED <<world, ringed, edu, timelineIdx, running, stats, call, current,
                         spikeNs, past>>
      BY <1>8, PacketMade
    <2>2. PICK d, p : OneMade(d, p)
      BY <1>8, PacketMade
    <2>3. Ticking'
      BY <2>1 DEF call, Ticking
    <2>4. /\ DOMAIN sources' = DOMAIN sources
          /\ sources'[current].generated = sources[current].generated + 1
          /\ \A k \in DOMAIN sources : k # current => sources'[k] = sources[k]
      BY <2>2 DEF OneMade, Source
    <2>5. ASSUME NEW k \in DOMAIN sources PROVE sources[k].generated <= sources'[k].generated
      <3>1. sources'[k].generated \in {sources[k].generated, sources[k].generated + 1}
        BY <2>4
      <3> QED BY <1>0, <3>1
    <2> QED BY <2>3, <2>4, <2>5 DEF Progress
  <1> QED BY <1>2, <1>3, <1>4, <1>5, <1>6, <1>7, <1>8 DEF StepContinues

(* The totals after a step.                                                *)
LEMMA ProgressTotals ==
    ASSUME SimTyped, SimTyped', Progress, ~Ticking => stats.generated = Generated(sources)
    PROVE  /\ Generated(sources) \in Nat /\ Generated(sources') \in Nat
           /\ Generated(sources) <= Generated(sources')
           /\ ~Ticking' => stats'.generated = Generated(sources')
  <1>1. PICK a, b, t, u : a = sources /\ b = sources' /\ t = TickNs /\ u = TickNs'
    OBVIOUS
  <1>2. /\ GoodSources(a, t) /\ GoodSources(b, u) /\ DOMAIN b = DOMAIN a
        /\ \A k \in DOMAIN a : a[k].generated <= b[k].generated
    BY <1>1 DEF SimTyped, SimParts, Progress
  <1>3. Generated(a) \in Nat /\ Generated(b) \in Nat /\ Generated(a) <= Generated(b)
    BY ONLY <1>2, GeneratedGrows
  <1>4. (\A k \in DOMAIN a : b[k].generated = a[k].generated) => Generated(b) = Generated(a)
    BY ONLY <1>2, GeneratedSame
  <1>5. ~Ticking' => stats'.generated = Generated(b)
    BY <1>1, <1>4 DEF Progress
  <1> QED BY <1>1, <1>3, <1>5

(* The sum with one sample more.                                           *)
LEMMA SumAppended ==
    ASSUME NEW h \in Seq(Nat), NEW d \in Nat
    PROVE  SumOf(Append(h, d)) = SumOf(h) + d
  <1>0. PICK n, g : n = Len(h) /\ g = Append(h, d)
    OBVIOUS
  <1>1. n \in Nat /\ n = Len(h) /\ DOMAIN h = 1 .. n /\ g = Append(h, d) /\ DOMAIN g = 1 .. n + 1
    BY <1>0
  <1>2. g[n + 1] = d /\ \A k \in 1 .. n : g[k] = h[k]
    BY <1>1
  <1>3. PICK p : FoldSteps(p, "add", 0, 0, h, n) /\ SumOf(h) = p[n]
    BY <1>1, AddFold
  <1>4. n + 1 \in Nat
    BY <1>1
  <1>5. PICK q : FoldSteps(q, "add", 0, 0, g, n + 1) /\ SumOf(g) = q[n + 1]
    BY <1>1, <1>4, AddFold
  <1> DEFINE T == {k \in Nat : k <= n => p[k] = q[k]}
  <1>6. 0 \in T
    BY <1>3, <1>5 DEF FoldSteps
  <1>7. ASSUME NEW k \in Nat, k \in T PROVE k + 1 \in T
    <2> SUFFICES ASSUME k + 1 <= n PROVE p[k + 1] = q[k + 1]
      OBVIOUS
    <2>1. k + 1 \in 1 .. n /\ k + 1 \in 1 .. n + 1 /\ (k + 1) - 1 = k
      BY ONLY <1>1, k \in Nat, k + 1 <= n
    <2>2. p[k] = q[k] /\ h[k + 1] = g[k + 1]
      BY <1>1, <1>2, <1>7, <2>1
    <2>3. /\ p[k + 1] = Apply("add", 0, p[k], h[k + 1])
          /\ q[k + 1] = Apply("add", 0, q[k], g[k + 1])
      BY <1>3, <1>5, <2>1 DEF FoldSteps
    <2> QED BY <2>2, <2>3
  <1>8. n \in T
    <2> HIDE DEF T
    <2> QED BY <1>1, <1>6, <1>7, Induction
  <1>9. q[n + 1] = q[n] + d
    <2>1. n + 1 \in 1 .. n + 1 /\ (n + 1) - 1 = n
      BY <1>1
    <2>2. q[n + 1] = Apply("add", 0, q[n], g[n + 1])
      BY <1>5, <2>1 DEF FoldSteps
    <2> QED BY <1>2, <2>2 DEF Apply
  <1> QED BY <1>1, <1>3, <1>5, <1>8, <1>9

(* No samples add up to nothing.                                           *)
LEMMA SumOfNone == SumOf(<<>>) = 0
  <1>1. DOMAIN <<>> = 1 .. 0 /\ 0 \in Nat
    OBVIOUS
  <1>2. PICK p : FoldSteps(p, "add", 0, 0, <<>>, 0) /\ SumOf(<<>>) = p[0]
    BY <1>1, AddFold
  <1> QED BY <1>2 DEF FoldSteps

(* Nothing is sampled.                                                     *)
LEMMA SamplesKept ==
    ASSUME SamplesSum, sources' = sources, stats' = stats, Ticking' <=> Ticking,
           view'.pps = view.pps, view'.prev = view.prev,
           dash' # "step" => dash # "step", dash' = "open" => dash = "open"
    PROVE  SamplesSum'
  <1>1. Generated(sources)' = Generated(sources)
    BY DEF Generated
  <1>2. SumOf(view'.pps) = SumOf(view.pps)
    OBVIOUS
  <1> QED BY <1>1, <1>2 DEF SamplesSum

(* A run that has not begun.                                               *)
LEMMA SamplesNew ==
    ASSUME SimTyped', \A k \in DOMAIN sources' : NoCounts(sources'[k]), stats' = NoStats,
           view'.prev = 0, Len(view'.pps) < HistCap => SumOf(view'.pps) = 0
    PROVE  SamplesSum'
  <1>1. PICK b, u : b = sources' /\ u = TickNs'
    OBVIOUS
  <1>2. GoodSources(b, u) /\ \A k \in DOMAIN b : NoCounts(b[k])
    BY <1>1 DEF SimTyped, SimParts
  <1>3. Generated(b) = 0
    BY <1>2, GeneratedNone
  <1>4. stats'.generated = 0
    BY DEF NoStats
  <1> QED BY <1>1, <1>3, <1>4 DEF SamplesSum

(* A tick is sampled.                                                      *)
LEMMA SamplesTaken ==
    ASSUME SimTyped, DashTyped, SamplesSum, ~Ticking, NEW s, NEW w, Ingested(s, w)
    PROVE  /\ view'.prev = stats.generated /\ stats.generated = Generated(sources)
           /\ Len(view'.pps) < HistCap => SumOf(view'.pps) = view'.prev
  <1>1. PICK v, u, d : v = view /\ u = view' /\ d = stats.generated - view.prev
    OBVIOUS
  <1>2. v \in Views /\ Len(v.pps) <= HistCap /\ stats.generated \in Nat /\ HistCap \in Nat
    BY <1>1, DashAssumption DEF DashTyped, SimTyped, SimNumbers, Stats
  <1>3. v.prev \in Nat /\ v.pps \in Seq(Nat)
    BY <1>2 DEF Views
  <1>4. stats.generated = Generated(sources) /\ v.prev <= Generated(sources)
        /\ (Len(v.pps) < HistCap => SumOf(v.pps) = v.prev)
    BY <1>1 DEF SamplesSum
  <1>5. d \in Nat /\ v.prev + d = stats.generated /\ Greater(d, 0) = d
    BY <1>1, <1>2, <1>3, <1>4 DEF Greater
  <1>6. u.prev = stats.generated /\ u.pps = PushHist(v.pps, Greater(d, 0))
    BY <1>1 DEF Ingested, HasRead, HasSampled
  <1>7. u.pps = PushHist(v.pps, d)
    BY <1>5, <1>6
  <1>8. PICK h, g : h = v.pps /\ g = u.pps
    OBVIOUS
  <1>9. h \in Seq(Nat) /\ d \in Nat /\ g = PushHist(h, d)
    BY <1>3, <1>5, <1>7, <1>8
  <1>10. /\ Len(g) = IF Len(h) + 1 <= HistCap THEN Len(h) + 1 ELSE HistCap
         /\ Len(h) + 1 <= HistCap => g = Append(h, d)
    BY ONLY <1>9, HistTypes
  <1>11. SumOf(Append(h, d)) = SumOf(h) + d
    BY <1>9, SumAppended
  <1>12. Len(g) < HistCap => SumOf(g) = v.prev + d
    <2> SUFFICES ASSUME Len(g) < HistCap PROVE SumOf(g) = v.prev + d
      OBVIOUS
    <2>1. Len(h) \in Nat
      BY <1>9
    <2>2. Len(h) + 1 <= HistCap /\ Len(h) < HistCap
      BY <1>2, <1>10, <2>1
    <2> QED BY <1>4, <1>8, <1>10, <1>11, <2>2
  <1> QED BY <1>1, <1>4, <1>5, <1>6, <1>8, <1>12

(* Every step keeps the sum of the samples.                                *)
LEMMA SamplesNext ==
    ASSUME SessionTyped, SamplesSum, [DashNext]_dashVars
    PROVE  SamplesSum'
  <1>0. SimTyped /\ DashTyped /\ DashPlaces /\ SessionTyped' /\ SimTyped'
    BY SessionNext DEF SessionTyped
  <1>1. CASE UNCHANGED dashVars
    <2>1. sources' = sources /\ stats' = stats /\ pc' = pc /\ view' = view /\ dash' = dash
      BY <1>1 DEF dashVars, vars, call
    <2> QED BY <2>1, SamplesKept DEF Ticking
  <1>2. CASE DashTime
    <2>1. SameScheduler /\ view' = view /\ dash' = dash
      BY <1>2, SessionTime DEF DashTime
    <2> QED BY <2>1, SamplesKept DEF SameScheduler, Ticking
  <1>3. CASE Quit \/ Speed \/ Space \/ (StepKey /\ view.finished)
    <2>1. KeyPressed /\ dash = "loop" /\ dash' \in {"loop", "quit"}
      BY <1>3, SessionKeys, SessionSpace
    <2> QED BY <2>1, SamplesKept DEF KeyPressed, SameScheduler, Ticking
  <1>4. CASE AutoTicks \/ NextTick \/ (StepKey /\ ~view.finished)
    <2>1. dash \in {"loop", "frame"} /\ ~view.finished
      BY <1>0, <1>4 DEF AutoTicks, NextTick, StepKey, DashPlaces, FramePlace
    <2>2. /\ \E ticks : StepCalled(ticks)
          /\ \E m \in {"Auto", "Paused"} : view' = WithMode(view, m)
      BY <1>4, <2>1, SessionCalled
    <2>a. PICK m \in {"Auto", "Paused"} : view' = WithMode(view, m)
      BY <2>2
    <2>3. PICK v, u : v = view /\ u = view' /\ u = WithMode(v, m)
      BY <2>a
    <2>4. v \in Views
      BY <1>0, <2>3 DEF DashTyped
    <2>5. u.pps = v.pps /\ u.prev = v.prev
      BY ONLY m \in {"Auto", "Paused"}, <2>3, <2>4, ViewMode
    <2>6. pc = "idle"
      BY <1>0, <2>1 DEF DashPlaces, LoopPlace, FramePlace
    <2>7. pc' = "step" /\ sources' = sources /\ stats' = stats /\ dash' = "step"
      BY <2>2 DEF StepCalled
    <2> QED BY <2>3, <2>5, <2>6, <2>7, SamplesKept DEF Ticking
  <1>5. CASE DashLoad
    <2>1. pc = "load" /\ stats' = stats /\ view' = view /\ dash' = dash /\ running' = running
      BY <1>5 DEF DashLoad, Load
    <2>2. stats = NoStats /\ dash = "open"
      BY <1>0, <2>1 DEF SessionTyped, Unloaded, Loaded, DashPlaces, DashTyped, ArmedPlace,
                        LoopPlace, StepPlace, FramePlace
    <2>3. CASE pc' = "rejected" /\ sources' = sources
      BY <2>1, <2>3, SamplesKept DEF Ticking
    <2>4. ASSUME NEW p \in CompileCommand(Commands[command]), Build(p) PROVE SamplesSum'
      <3>1. IsPlan(p)
        BY PlansAssumption DEF SessionTyped
      <3>2. \A k \in DOMAIN sources' : NoCounts(sources'[k])
        BY <2>4, <3>1, BuildGood
      <3>3. view'.prev = 0 /\ (Len(view'.pps) < HistCap => SumOf(view'.pps) = 0)
        BY <2>1, <2>2 DEF SamplesSum
      <3> QED BY <1>0, <2>1, <2>2, <3>2, <3>3, SamplesNew
    <2> QED BY <1>5, <2>3, <2>4 DEF DashLoad, Load
  <1>6. CASE Arm
    <2>1. Begin /\ view' = view /\ dash = "open" /\ pc = "idle"
      BY <1>6, SessionArm DEF Arm
    <2>2. stats' = NoStats /\ \A k \in DOMAIN sources' : NoCounts(sources'[k])
      <3>1. GoodSources(sources, TickNs) /\ GoodBudgets(budgets) /\ IsPlan(plan)
        BY <1>0, <2>1 DEF SimTyped, SimParts, SimPlaces, Loaded
      <3> QED BY <2>1, <3>1, BeginIs DEF Begin
    <2>3. view'.prev = 0 /\ (Len(view'.pps) < HistCap => SumOf(view'.pps) = 0)
      BY <2>1 DEF SamplesSum
    <2> QED BY <1>0, <2>2, <2>3, SamplesNew
  <1>7. CASE Armed
    <2>1. SameScheduler /\ HasRead(view', view) /\ dash = "armed" /\ dash' = "loop"
      BY <1>7, SessionArmed DEF Armed
    <2> QED BY <2>1, SamplesKept DEF SameScheduler, HasRead, Ticking
  <1>8. CASE Restart
    <2>1. NewSession
      BY <1>8, SessionRestart
    <2>2. view'.prev = 0 /\ view'.pps = <<>>
      BY <2>1 DEF NewSession, FreshView
    <2>3. SumOf(view'.pps) = 0
      BY <2>2, SumOfNone
    <2> QED BY <1>0, <2>1, <2>2, <2>3, SamplesNew DEF NewSession
  <1>9. CASE Steps
    <2>1. StepContinues /\ view' = view /\ dash' = dash /\ dash = "step" /\ caller = "step"
      BY <1>0, <1>9, SessionSteps DEF DashPlaces, StepPlace
    <2>2. Progress
      BY <1>0, <2>1, StepProgress
    <2>3. /\ Generated(sources) \in Nat /\ Generated(sources') \in Nat
          /\ Generated(sources) <= Generated(sources')
          /\ ~Ticking' => stats'.generated = Generated(sources')
      BY <1>0, <2>2, ProgressTotals DEF SamplesSum
    <2>4. view.prev \in Nat
      BY <1>0 DEF DashTyped, Views
    <2>5. view'.prev <= Generated(sources')
      BY <2>1, <2>3, <2>4 DEF SamplesSum
    <2>6. Len(view'.pps) < HistCap => SumOf(view'.pps) = view'.prev
      BY <2>1 DEF SamplesSum
    <2> QED BY <2>1, <2>3, <2>5, <2>6 DEF SamplesSum
  <1>10. ASSUME StepBroke \/ StepMore \/ StepLast
         PROVE  /\ view'.prev = stats.generated /\ stats.generated = Generated(sources)
                /\ Len(view'.pps) < HistCap => SumOf(view'.pps) = view'.prev
                /\ dash' # "open"
    <2>1. pc = "idle" /\ dash = "step" /\ ~view.finished /\ dash' # "open"
      BY <1>0, <1>10 DEF StepBroke, StepMore, StepLast, DashPlaces, StepPlace, AfterTick
    <2>2. PICK s, w : Ingested(s, w)
      BY <1>0, <1>10, <2>1, TickRead
    <2> QED BY <1>0, <2>1, <2>2, SamplesTaken DEF Ticking
  <1>11. CASE StepBroke \/ StepMore
    <2>1. SameScheduler
      BY <1>11, SessionGoesOn
    <2>2. Generated(sources') = Generated(sources) /\ Generated(sources') \in Int
      <3>1. Generated(sources) \in Nat
        BY <1>0, <1>10, <1>11 DEF SimTyped, SimNumbers, Stats
      <3> QED BY <2>1, <3>1 DEF SameScheduler
    <2> QED BY <1>10, <1>11, <2>1, <2>2 DEF SamplesSum, SameScheduler
  <1>12. CASE StepLast
    <2>1. /\ stats'.generated = Generated(sources) /\ DOMAIN sources' = DOMAIN sources
          /\ \A k \in DOMAIN sources : sources'[k].generated = sources[k].generated
      BY <1>12, SessionEnds DEF Generated
    <2>2. PICK a, b, t, u : a = sources /\ b = sources' /\ t = TickNs /\ u = TickNs'
      OBVIOUS
    <2>3. /\ GoodSources(a, t) /\ GoodSources(b, u) /\ DOMAIN b = DOMAIN a
          /\ \A k \in DOMAIN a : b[k].generated = a[k].generated
      BY <1>0, <2>1, <2>2 DEF SimTyped, SimParts
    <2>4. Generated(b) = Generated(a)
      BY ONLY <2>3, GeneratedSame
    <2>5. Generated(sources) \in Nat
      BY <1>0, <1>10, <1>12 DEF SimTyped, SimNumbers, Stats
    <2>6. Generated(sources') = Generated(sources)
      BY <2>2, <2>4
    <2> QED BY <1>10, <1>12, <2>1, <2>5, <2>6 DEF SamplesSum
  <1> QED BY <1>1, <1>2, <1>3, <1>4, <1>5, <1>6, <1>7, <1>8, <1>9, <1>11, <1>12
          DEF DashNext, Works

(* The ticks a step counts.                                                *)
LEMMA StepTicks ==
    ASSUME SimTyped, caller = "step"
    PROVE  /\ StepEnd => stats'.ticks = stats.ticks + 1 /\ pc' = "idle" /\ pc = "end"
           /\ \/ StepOver \/ StepBreaks \/ StepBegin \/ StepPolls
              \/ PollBegins \/ NicDone \/ PcapFull \/ PcapWaits
              \/ NicPacket \/ PcapPacket \/ PushRing \/ DrainConsumers
              => stats'.ticks = stats.ticks /\ pc # "idle"
  <1>0. stats \in Stats
    BY DEF SimTyped, SimNumbers
  <1>1. ASSUME StepEnd PROVE stats'.ticks = stats.ticks + 1 /\ pc' = "idle" /\ pc = "end"
    <2>1. PICK next : next = IF mode = "Virtual" THEN clock + AdvanceNs ELSE clock
      OBVIOUS
    <2>2. /\ pc' = "idle" /\ pc = "end"
          /\ stats' = [Snapshot(stats, sources) EXCEPT !.ticks = @ + 1, !.clock = next]
      BY <1>1, <2>1 DEF StepEnd, StepReturns
    <2>3. PICK snap : snap = Snapshot(stats, sources)
      OBVIOUS
    <2>4. DOMAIN snap = DOMAIN stats /\ snap.ticks = stats.ticks /\ "ticks" \in DOMAIN snap
          /\ "clock" \in DOMAIN snap
      BY <1>0, <2>3 DEF Snapshot, Stats
    <2>5. stats'.ticks = snap.ticks + 1
      BY <2>2, <2>3, <2>4
    <2> QED BY <2>2, <2>4, <2>5
  <1>2. ASSUME StepOver \/ StepBreaks \/ StepBegin \/ StepPolls
        PROVE  stats'.ticks = stats.ticks /\ pc # "idle"
    BY <1>2 DEF StepOver, StepReturns, StepBreaks, StepBegin, StepPolls
  <1>3. ASSUME \/ PollBegins \/ NicDone \/ PcapFull \/ PcapWaits \/ NicPacket \/ PcapPacket
        PROVE  stats'.ticks = stats.ticks /\ pc # "idle"
    BY <1>3 DEF PollBegins, NicDone, PcapFull, PcapWaits, PollReturns, Polling, NicPacket,
                PcapPacket
  <1>4. ASSUME PushRing PROVE stats'.ticks = stats.ticks /\ pc # "idle"
    <2>1. PICK a, b : stats' = [stats EXCEPT !.written = a, !.overflows = b]
      BY <1>4 DEF PushRing
    <2> QED BY <1>0, <1>4, <2>1 DEF PushRing, Stats
  <1>5. ASSUME DrainConsumers PROVE stats'.ticks = stats.ticks /\ pc # "idle"
    <2>1. PICK a : stats' = [stats EXCEPT !.consumed = a]
      BY <1>5 DEF DrainConsumers
    <2> QED BY <1>0, <1>5, <2>1 DEF DrainConsumers, Stats
  <1> QED BY <1>1, <1>2, <1>3, <1>4, <1>5

(* The ticks among the events that are new.                                *)
LEMMA TicksAppended ==
    ASSUME DashTyped, NEW kinds \in Seq(Kinds), Appended(sink, kinds), view' = view, NewTicks = {}
    PROVE  /\ (\A i \in DOMAIN kinds : kinds[i] # "tick") => NewTicks' = {}
           /\ kinds = <<"tick">> => NewTicks' = {Len(sink')}
  <1>1. PICK m, c, n : m = Len(sink) /\ c = view.cursor /\ n = Len(kinds)
    OBVIOUS
  <1>2. m \in Nat /\ c \in Nat /\ n \in Nat /\ c <= m /\ DOMAIN kinds = 1 .. n
    BY <1>1 DEF DashTyped, Views
  <1>3. /\ Len(sink') = m + n /\ \A i \in 1 .. m : sink'[i] = sink[i]
        /\ \A i \in 1 .. n : sink'[m + i].kind = kinds[i]
    <2>1. Len(sink') = m + n /\ \A i \in 1 .. m : sink'[i] = sink[i]
      BY <1>1 DEF Appended
    <2>2. \A i \in 1 .. n : sink'[m + i] = [id |-> Len(emitted) + i, kind |-> kinds[i]]
      BY <1>1 DEF Appended
    <2>3. ASSUME NEW i \in 1 .. n PROVE sink'[m + i].kind = kinds[i]
      <3>1. PICK e, a, b : e = sink'[m + i] /\ a = Len(emitted) + i /\ b = kinds[i]
        OBVIOUS
      <3>2. e = [id |-> a, kind |-> b]
        BY <2>2, <3>1
      <3> QED BY <3>1, <3>2
    <2> QED BY <2>1, <2>3
  <1>4. NewTicks' = {i \in c + 1 .. m + n : sink'[i].kind = "tick"}
    BY <1>1, <1>3 DEF NewTicks
  <1>5. \A i \in c + 1 .. m : sink'[i].kind # "tick"
    <2>1. \A i \in c + 1 .. m : sink[i].kind # "tick"
      BY <1>1 DEF NewTicks
    <2>2. \A i \in c + 1 .. m : i \in 1 .. m
      BY <1>2
    <2> QED BY <1>3, <2>1, <2>2
  <1>6. \A i \in c + 1 .. m + n : i \in c + 1 .. m \/ (i - m \in 1 .. n /\ m + (i - m) = i)
    BY <1>2
  <1>7. \A i \in c + 1 .. m + n : sink'[i].kind = "tick" => i - m \in 1 .. n /\ kinds[i - m] = "tick"
    BY <1>3, <1>5, <1>6
  <1>8. (\A i \in DOMAIN kinds : kinds[i] # "tick") => NewTicks' = {}
    BY <1>2, <1>4, <1>7
  <1>9. kinds = <<"tick">> => NewTicks' = {Len(sink')}
    <2> SUFFICES ASSUME kinds = <<"tick">> PROVE NewTicks' = {m + n}
      BY <1>3
    <2>1. n = 1 /\ kinds[1] = "tick"
      BY <1>1
    <2>2. m + n \in c + 1 .. m + n /\ sink'[m + n].kind = "tick"
      BY <1>2, <1>3, <2>1
    <2>3. \A i \in c + 1 .. m + n : i - m \in 1 .. n => i = m + n
      BY <1>2, <2>1
    <2> QED BY <1>4, <1>7, <2>2, <2>3
  <1> QED BY <1>8, <1>9

(* The ticks that are read.                                                *)
LEMMA TicksRead ==
    ASSUME DashTyped
    PROVE  /\ NewTicks = {} => Ticked(view) = view.ticks
           /\ NewTicks = {Len(sink)} => \E e \in Events : Ticked(view) = PushHist(view.ticks, e)
  <1>1. PICK n \in Nat : /\ n = Len(sink) - view.cursor /\ NewEvents \in Seq(Events)
                         /\ DOMAIN NewEvents = 1 .. n
                         /\ \A i \in 1 .. n : NewEvents[i] = sink[view.cursor + i]
    BY NewEventsAre
  <1>2. PICK p : FoldSteps(p, "hist", 0, view.ticks, NewEvents, n) /\ Ticked(view) = p[n]
    BY <1>1, HistFold
  <1>3. PICK m, c : m = Len(sink) /\ c = view.cursor
    OBVIOUS
  <1>4. m \in Nat /\ c \in Nat /\ n = m - c
    BY <1>1, <1>3 DEF DashTyped, Views
  <1>5. \A i \in 1 .. n : NewEvents[i].kind = "tick" => c + i \in NewTicks
    <2>1. \A i \in 1 .. n : c + i \in c + 1 .. m
      BY <1>4
    <2> QED BY <1>1, <1>3, <2>1 DEF NewTicks
  <1>6. ASSUME NEW k \in Nat, k + 1 <= n
        PROVE  /\ NewEvents[k + 1] \in Events
               /\ p[k + 1] = IF NewEvents[k + 1].kind = "tick"
                               THEN PushHist(p[k], NewEvents[k + 1]) ELSE p[k]
    <2>1. k + 1 \in 1 .. n /\ (k + 1) - 1 = k
      BY ONLY n \in Nat, k \in Nat, k + 1 <= n
    <2>2. p[k + 1] = Apply("hist", 0, p[k], NewEvents[k + 1])
      BY <1>2, <2>1 DEF FoldSteps
    <2> QED BY <1>1, <2>1, <2>2 DEF Apply, HistStep
  <1>7. ASSUME NEW l \in Nat, l <= n, \A i \in 1 .. l : NewEvents[i].kind # "tick"
        PROVE  p[l] = view.ticks
    <2> DEFINE T == {k \in Nat : k <= l => p[k] = view.ticks}
    <2>1. 0 \in T
      BY <1>2 DEF FoldSteps
    <2>2. ASSUME NEW k \in Nat, k \in T PROVE k + 1 \in T
      <3> SUFFICES ASSUME k + 1 <= l PROVE p[k + 1] = view.ticks
        OBVIOUS
      <3>1. k + 1 <= n /\ k + 1 \in 1 .. l /\ k <= l
        BY ONLY n \in Nat, l \in Nat, k \in Nat, k + 1 <= l, <1>7
      <3>2. p[k] = view.ticks /\ NewEvents[k + 1].kind # "tick"
        BY <1>7, <2>2, <3>1
      <3> QED BY <1>6, <3>1, <3>2
    <2>3. l \in T
      <3> HIDE DEF T
      <3> QED BY <2>1, <2>2, Induction
    <2> QED BY <2>3
  <1>8. NewTicks = {} => Ticked(view) = view.ticks
    <2> SUFFICES ASSUME NewTicks = {} PROVE p[n] = view.ticks
      BY <1>2
    <2>1. \A i \in 1 .. n : NewEvents[i].kind # "tick"
      BY <1>5
    <2> QED BY <1>7, <2>1
  <1>9. NewTicks = {Len(sink)} => \E e \in Events : Ticked(view) = PushHist(view.ticks, e)
    <2> SUFFICES ASSUME NewTicks = {m} PROVE \E e \in Events : p[n] = PushHist(view.ticks, e)
      BY <1>2, <1>3
    <2>1. m \in c + 1 .. m /\ sink[m].kind = "tick"
      BY <1>3 DEF NewTicks
    <2>2. n >= 1 /\ c + n = m
      BY <1>4, <2>1
    <2>3. PICK l \in Nat : l + 1 = n
      <3>1. n - 1 \in Nat /\ (n - 1) + 1 = n
        BY <2>2
      <3> QED BY <3>1
    <2>4. NewEvents[l + 1].kind = "tick"
      <3>1. n \in 1 .. n
        BY <2>2
      <3>2. NewEvents[n] = sink[c + n]
        BY <1>1, <1>3, <3>1
      <3> QED BY <2>1, <2>2, <2>3, <3>2
    <2>5. \A i \in 1 .. l : NewEvents[i].kind # "tick"
      <3>1. \A i \in 1 .. l : i \in 1 .. n /\ c + i # m
        BY <1>4, <2>2, <2>3
      <3> QED BY <1>5, <3>1
    <2>6. p[l] = view.ticks
      BY <1>7, <2>3, <2>5
    <2>7. NewEvents[l + 1] \in Events /\ p[l + 1] = PushHist(p[l], NewEvents[l + 1])
      BY <1>6, <2>3, <2>4
    <2> QED BY <2>3, <2>6, <2>7
  <1> QED BY <1>8, <1>9

(* No tick is counted, emitted or read.                                    *)
LEMMA TicksKept ==
    ASSUME TicksKnown, sink' = sink, view'.cursor = view.cursor, view'.ticks = view.ticks,
           stats' = stats, dash = "step" => dash' = dash /\ pc' = pc,
           dash' = "open" => dash = "open"
    PROVE  TicksKnown'
  <1>1. NewTicks' = NewTicks
    BY DEF NewTicks
  <1> QED BY <1>1 DEF TicksKnown

(* Everything is read.                                                     *)
LEMMA NothingNew ==
    ASSUME DashTyped', view'.cursor = Len(sink')
    PROVE  NewTicks' = {}
  <1>1. Len(sink') \in Nat
    BY DEF DashTyped
  <1> QED BY <1>1 DEF NewTicks

(* One tick more.                                                          *)
LEMMA OneTickMore ==
    ASSUME NEW t \in Nat, t > 0, NEW h \in Seq(Events), Len(h) = Lesser(t - 1, HistCap),
           NEW e \in Events
    PROVE  Len(PushHist(h, e)) = Lesser(t, HistCap)
  <1>1. HistCap \in Nat /\ Len(h) \in Nat
    BY DashAssumption
  <1>2. PICK a, g : a = t - 1 /\ g = PushHist(h, e)
    OBVIOUS
  <1>3. a \in Nat /\ t = a + 1
    BY <1>2
  <1>4. Lesser(a, HistCap) = IF a <= HistCap THEN a ELSE HistCap
    BY <1>1, <1>3, LesserIs
  <1>5. Lesser(t, HistCap) = IF t <= HistCap THEN t ELSE HistCap
    BY <1>1, LesserIs
  <1>6. Len(g) = IF Len(h) + 1 <= HistCap THEN Len(h) + 1 ELSE HistCap
    <2>1. h \in Seq(Events) /\ e \in Events /\ g = PushHist(h, e)
      BY <1>2
    <2> QED BY ONLY <2>1, HistTypes
  <1> QED BY <1>1, <1>2, <1>3, <1>4, <1>5, <1>6

(* The ticks of a step that has returned are read.                         *)
LEMMA TicksTaken ==
    ASSUME SimTyped, DashTyped, TicksKnown, NEW s, NEW w, Ingested(s, w)
    PROVE  Len(view'.ticks) = Lesser(stats.ticks, HistCap)
  <1>1. view'.ticks = Ticked(view)
    BY DEF Ingested, HasRead, HasSampled
  <1>2. CASE NewTicks = {} /\ Len(view.ticks) = Lesser(stats.ticks, HistCap)
    <2>1. Ticked(view) = view.ticks
      BY <1>2, TicksRead
    <2> QED BY <1>1, <1>2, <2>1
  <1>3. CASE /\ NewTicks = {Len(sink)}
             /\ stats.ticks > 0 /\ Len(view.ticks) = Lesser(stats.ticks - 1, HistCap)
    <2>1. PICK e \in Events : Ticked(view) = PushHist(view.ticks, e)
      BY <1>3, TicksRead
    <2>2. PICK t, h : t = stats.ticks /\ h = view.ticks
      OBVIOUS
    <2>3. t \in Nat /\ t > 0 /\ h \in Seq(Events) /\ Len(h) = Lesser(t - 1, HistCap)
      BY <1>3, <2>2 DEF SimTyped, SimNumbers, Stats, DashTyped, Views
    <2>4. Len(PushHist(h, e)) = Lesser(t, HistCap)
      BY <2>3, OneTickMore
    <2> QED BY <1>1, <2>1, <2>2, <2>4
  <1> QED BY <1>2, <1>3 DEF TicksKnown

(* Without ticks their history is empty.                                   *)
LEMMA NoTicks == Lesser(0, HistCap) = 0
  <1>1. HistCap \in Nat
    BY DashAssumption
  <1> QED BY <1>1, LesserIs

(* Every step keeps the history of ticks complete.                         *)
LEMMA TicksNext ==
    ASSUME SessionTyped, TicksKnown, [DashNext]_dashVars
    PROVE  TicksKnown'
  <1>0. SimTyped /\ DashTyped /\ DashPlaces /\ SessionTyped' /\ DashTyped' /\ SimTyped'
    BY SessionNext DEF SessionTyped
  <1>1. CASE UNCHANGED dashVars
    <2>1. stats' = stats /\ pc' = pc /\ view' = view /\ dash' = dash /\ sink' = sink
      BY <1>1 DEF dashVars, vars, call
    <2> QED BY <2>1, TicksKept
  <1>2. CASE DashTime
    <2>1. SameScheduler /\ view' = view /\ dash' = dash /\ sink' = sink
      BY <1>2, SessionTime DEF DashTime
    <2> QED BY <2>1, TicksKept DEF SameScheduler
  <1>3. CASE Quit \/ Speed \/ Space \/ (StepKey /\ view.finished)
    <2>1. KeyPressed /\ dash = "loop" /\ dash' \in {"loop", "quit"}
      BY <1>3, SessionKeys, SessionSpace
    <2> QED BY <2>1, TicksKept DEF KeyPressed, SameScheduler
  <1>4. CASE AutoTicks \/ NextTick \/ (StepKey /\ ~view.finished)
    <2>1. dash \in {"loop", "frame"} /\ ~view.finished
      BY <1>0, <1>4 DEF AutoTicks, NextTick, StepKey, DashPlaces, FramePlace
    <2>2. /\ \E ticks : StepCalled(ticks)
          /\ \E m \in {"Auto", "Paused"} : view' = WithMode(view, m)
      BY <1>4, <2>1, SessionCalled
    <2>a. PICK m \in {"Auto", "Paused"} : view' = WithMode(view, m)
      BY <2>2
    <2>3. PICK v, u : v = view /\ u = view' /\ u = WithMode(v, m)
      BY <2>a
    <2>4. v \in Views
      BY <1>0, <2>3 DEF DashTyped
    <2>5. u.ticks = v.ticks /\ u.cursor = v.cursor
      BY ONLY m \in {"Auto", "Paused"}, <2>3, <2>4, ViewMode
    <2>6. stats' = stats /\ dash' = "step" /\ sink' = sink
      BY <2>2 DEF StepCalled
    <2> QED BY <2>1, <2>3, <2>5, <2>6, TicksKept
  <1>5. CASE DashLoad
    <2>1. pc = "load" /\ stats' = stats /\ view' = view /\ dash' = dash /\ sink' = sink
      BY <1>5 DEF DashLoad, Load
    <2>2. dash = "open"
      BY <1>0, <2>1 DEF DashPlaces, DashTyped, ArmedPlace, LoopPlace, StepPlace, FramePlace,
                        Loaded
    <2> QED BY <2>1, <2>2, TicksKept
  <1>6. CASE Arm
    <2>1. /\ Begin /\ view' = view /\ dash = "open" /\ dash' = "armed" /\ Appended(sink, StartEvents)
          /\ StartEvents \in Seq(Kinds) /\ \A i \in DOMAIN StartEvents : StartEvents[i] = "notice"
      BY <1>6, SessionArm DEF Arm
    <2>2. PICK k : k = StartEvents
      OBVIOUS
    <2>3. k \in Seq(Kinds) /\ Appended(sink, k) /\ \A i \in DOMAIN k : k[i] # "tick"
      BY <2>1, <2>2
    <2>4. NewTicks' = {}
      BY <1>0, <2>1, <2>3, TicksAppended DEF TicksKnown
    <2>5. stats'.ticks = 0 /\ Len(view'.ticks) = 0
      BY <2>1 DEF Begin, NoStats, TicksKnown
    <2> QED BY <2>1, <2>4, <2>5, NoTicks DEF TicksKnown
  <1>7. CASE Armed
    <2>1. SameScheduler /\ HasRead(view', view) /\ dash = "armed" /\ dash' = "loop" /\ sink' = Truncated
      BY <1>7, SessionArmed DEF Armed
    <2>2. NewTicks' = {}
      BY <1>0, <2>1, NothingNew DEF HasRead
    <2> QED BY <2>1, <2>2 DEF SameScheduler, HasRead, TicksKnown
  <1>8. CASE Restart
    <2>1. NewSession
      BY <1>8, SessionRestart
    <2>2. view'.ticks = <<>> /\ view'.cursor = Len(sink')
      BY <2>1 DEF NewSession, FreshView
    <2>3. NewTicks' = {}
      BY <1>0, <2>2, NothingNew
    <2>4. stats'.ticks = 0 /\ Len(view'.ticks) = 0
      BY <2>1, <2>2 DEF NewSession, NoStats
    <2> QED BY <2>2, <2>3, <2>4, NoTicks DEF TicksKnown
  <1>9. CASE Steps
    <2>1. view' = view /\ dash' = dash /\ dash = "step" /\ caller = "step"
      BY <1>0, <1>9, SessionSteps DEF DashPlaces, StepPlace
    <2>2. PICK k : Emitted(k)
      BY <1>0, <1>9, StepsEmit
    <2>3. k \in Seq(Kinds) /\ Appended(sink, k)
      BY <2>2 DEF Emitted
    <2>4. CASE StepEnd /\ k = <<"tick">>
      <3>1. stats'.ticks = stats.ticks + 1 /\ pc' = "idle" /\ pc = "end"
        BY <1>0, <2>1, <2>4, StepTicks
      <3>2. NewTicks = {} /\ Len(view.ticks) = Lesser(stats.ticks, HistCap)
        BY <3>1 DEF TicksKnown
      <3>3. NewTicks' = {Len(sink')}
        BY <1>0, <2>1, <2>3, <2>4, <3>2, TicksAppended
      <3>4. stats.ticks \in Nat
        BY <1>0 DEF SimTyped, SimNumbers, Stats
      <3>5. stats'.ticks > 0 /\ stats'.ticks - 1 = stats.ticks
        BY <3>1, <3>4
      <3> QED BY <2>1, <3>1, <3>2, <3>3, <3>5 DEF TicksKnown
    <2>5. CASE /\ \/ StepOver \/ StepBreaks \/ StepBegin \/ StepPolls
                  \/ PollBegins \/ NicDone \/ PcapFull \/ PcapWaits
                  \/ NicPacket \/ PcapPacket \/ PushRing \/ DrainConsumers
               /\ \A i \in DOMAIN k : k[i] # "tick"
      <3>1. stats'.ticks = stats.ticks /\ pc # "idle"
        BY <1>0, <2>1, <2>5, StepTicks
      <3>2. NewTicks = {} /\ Len(view.ticks) = Lesser(stats.ticks, HistCap)
        BY <3>1 DEF TicksKnown
      <3>3. NewTicks' = {}
        BY <1>0, <2>1, <2>3, <2>5, <3>2, TicksAppended
      <3> QED BY <2>1, <3>1, <3>2, <3>3 DEF TicksKnown
    <2> QED BY <2>2, <2>4, <2>5 DEF Emitted
  <1>10. CASE StepBroke \/ StepMore \/ StepLast
    <2>1. ~view.finished /\ dash' # "open"
      BY <1>0, <1>10 DEF StepBroke, StepMore, StepLast, DashPlaces, StepPlace, AfterTick
    <2>2. PICK s, w : Ingested(s, w)
      BY <1>0, <1>10, <2>1, TickRead
    <2>3. Len(view'.ticks) = Lesser(stats.ticks, HistCap) /\ view'.cursor = Len(Truncated)
      BY <1>0, <2>2, TicksTaken DEF Ingested, HasRead
    <2>4. stats'.ticks = stats.ticks
      <3>1. CASE StepLast
        BY <3>1, SessionEnds
      <3>2. CASE StepBroke \/ StepMore
        BY <3>2, SessionGoesOn DEF SameScheduler
      <3> QED BY <1>10, <3>1, <3>2
    <2>5. NewTicks' = {}
      <3>1. CASE StepLast
        <4>1. PICK c : c = Len(Truncated)
          OBVIOUS
        <4>2. c \in Nat /\ Len(<<"notice">>) = 1 /\ <<"notice">>[1] = "notice"
          BY <1>0, <4>1, TruncatedIs DEF DashTyped
        <4>3. PICK q : q = <<"notice">>
          OBVIOUS
        <4>4. Appended(Truncated, q) /\ Len(q) = 1 /\ q[1] = "notice"
          BY <3>1, <4>2, <4>3, SessionEnds
        <4>5. Len(sink') = c + 1 /\ sink'[c + 1] = [id |-> Len(emitted) + 1, kind |-> "notice"]
          BY <4>1, <4>4 DEF Appended
        <4>6. PICK e, a : e = sink'[c + 1] /\ a = Len(emitted) + 1
          OBVIOUS
        <4>7. e = [id |-> a, kind |-> "notice"]
          BY <4>5, <4>6
        <4>8. e.kind # "tick"
          BY <4>7
        <4>9. \A i \in c + 1 .. c + 1 : i = c + 1
          BY <4>2
        <4> QED BY <2>3, <4>1, <4>5, <4>6, <4>8, <4>9 DEF NewTicks
      <3>2. CASE StepBroke \/ StepMore
        <4>1. sink' = Truncated
          BY <3>2 DEF StepBroke, StepMore
        <4> QED BY <1>0, <2>3, <4>1, NothingNew
      <3> QED BY <1>10, <3>1, <3>2
    <2> QED BY <2>1, <2>3, <2>4, <2>5 DEF TicksKnown
  <1> QED BY <1>1, <1>2, <1>3, <1>4, <1>5, <1>6, <1>7, <1>8, <1>9, <1>10 DEF DashNext, Works

(* The samples the dashboard draws are those of this run: together they    *)
(* are the packets that were generated, and there is one for every tick,   *)
(* unless older ones were pushed out, for every limit of the histories and *)
(* of the sink, whatever the order of keys, frames and restarts.           *)
THEOREM SamplesAddUpHolds == DashSpec => []SamplesAddUp
  <1>1. DashInit => SessionTyped /\ SamplesSum /\ TicksKnown
    <2> SUFFICES ASSUME DashInit PROVE SessionTyped /\ SamplesSum /\ TicksKnown
      OBVIOUS
    <2>1. SessionTyped /\ SimTyped
      BY SessionInit DEF SessionTyped
    <2>2. /\ sources = <<>> /\ stats = NoStats /\ view = NewView /\ sink = <<>>
          /\ dash = "open"
      BY DEF DashInit, Init
    <2>3. /\ view.prev = 0 /\ view.pps = <<>> /\ view.ticks = <<>> /\ view.cursor = 0
          /\ stats.generated = 0 /\ stats.ticks = 0
      BY <2>2 DEF NewView, NoStats
    <2>4. Generated(sources) = 0
      <3>1. GoodSources(sources, TickNs) /\ \A k \in DOMAIN sources : NoCounts(sources[k])
        BY <2>1, <2>2, EmptyList DEF SimTyped, SimParts
      <3> QED BY <3>1, GeneratedNone
    <2>5. SamplesSum
      BY <2>2, <2>3, <2>4, SumOfNone DEF SamplesSum
    <2>6. NewTicks = {}
      BY <2>2, <2>3 DEF NewTicks
    <2>7. TicksKnown
      BY <2>3, <2>6, NoTicks DEF TicksKnown
    <2> QED BY <2>1, <2>5, <2>7
  <1>2. SessionTyped /\ SamplesSum /\ TicksKnown /\ [DashNext]_dashVars
           => SessionTyped' /\ SamplesSum' /\ TicksKnown'
    BY SessionNext, SamplesNext, TicksNext
  <1>3. SamplesSum /\ TicksKnown => SamplesAddUp
    BY DEF SamplesSum, TicksKnown, SamplesAddUp
  <1> QED BY <1>1, <1>2, <1>3, PTL DEF DashSpec

-----------------------------------------------------------------------------
(* The log of the dashboard                                                *)

(* The line of one event more is added, or is not needed.                  *)
LEMMA LogGrows ==
    ASSUME NEW log \in Seq(Events), NEW base \in Nat, NEW e, LogOf(log, base, e),
           NEW new \in Events, new.id = base + 1, new.kind = e[base + 1]
    PROVE  /\ LogOf(Append(log, new), base + 1, e)
           /\ new.kind # "notice" => LogOf(log, base + 1, e)
  <1>0. LogCap \in Nat \ {0}
    BY DashAssumption
  <1>1. PICK n, g : n = Len(log) /\ g = Append(log, new)
    OBVIOUS
  <1>2. /\ n \in Nat /\ DOMAIN log = 1 .. n /\ DOMAIN g = 1 .. n + 1 /\ Len(g) = n + 1
        /\ g[n + 1] = new /\ \A i \in 1 .. n : g[i] = log[i]
    BY <1>1
  <1>3. /\ \A i, j \in 1 .. n : i < j => log[i].id < log[j].id
        /\ \A i \in 1 .. n : log[i].id <= base /\ log[i].id \in Nat
        /\ \A id \in 1 .. base : e[id] = "notice" => Told(log, id)
    <2>1. \A i \in 1 .. n : log[i] \in Events
      BY <1>2
    <2> QED BY <1>2, <2>1 DEF LogOf, Increasing, Events
  <1>4. Increasing(g)
    <2> SUFFICES ASSUME NEW i \in 1 .. n + 1, NEW j \in 1 .. n + 1, i < j
                 PROVE  g[i].id < g[j].id
      BY <1>2 DEF Increasing
    <2>1. i \in 1 .. n
      BY <1>2
    <2>2. CASE j = n + 1
      BY <1>2, <1>3, <2>1, <2>2
    <2>3. CASE j # n + 1
      <3>1. j \in 1 .. n
        BY <1>2, <2>3
      <3> QED BY <1>2, <1>3, <2>1, <3>1
    <2> QED BY <2>2, <2>3
  <1>5. \A i \in DOMAIN g : g[i].id <= base + 1
    <2> SUFFICES ASSUME NEW i \in 1 .. n + 1 PROVE g[i].id <= base + 1
      BY <1>2
    <2>1. CASE i = n + 1
      BY <1>2, <2>1
    <2>2. CASE i # n + 1
      <3>1. i \in 1 .. n
        BY <1>2, <2>2
      <3> QED BY <1>2, <1>3, <3>1
    <2> QED BY <2>1, <2>2
  <1>6. \A i \in 1 .. n : log[i].id <= base + 1
    BY <1>3
  <1>7. ASSUME NEW id, Told(log, id) PROVE Told(g, id)
    <2>1. CASE \E i \in DOMAIN log : log[i].id = id
      <3>1. PICK i \in 1 .. n : log[i].id = id
        BY <1>2, <2>1
      <3>2. i \in DOMAIN g /\ g[i].id = id
        BY <1>2, <3>1
      <3> QED BY <3>2 DEF Told
    <2>2. CASE Len(log) >= LogCap /\ id < log[1].id
      <3>1. 1 \in 1 .. n /\ Len(g) >= LogCap
        BY <1>0, <1>1, <1>2, <2>2
      <3> QED BY <1>2, <2>2, <3>1 DEF Told
    <2> QED BY <1>7, <2>1, <2>2 DEF Told
  <1>8. Told(g, base + 1)
    <2>1. n + 1 \in DOMAIN g /\ g[n + 1].id = base + 1
      BY <1>2
    <2> QED BY <2>1 DEF Told
  <1>9. \A id \in 1 .. base + 1 : id \in 1 .. base \/ id = base + 1
    OBVIOUS
  <1>10. LogOf(g, base + 1, e)
    BY <1>3, <1>4, <1>5, <1>7, <1>8, <1>9 DEF LogOf
  <1>11. new.kind # "notice" => LogOf(log, base + 1, e)
    BY <1>2, <1>3, <1>6, <1>9 DEF LogOf, Increasing
  <1> QED BY <1>1, <1>10, <1>11

(* The log is cut to its limit.                                            *)
LEMMA LogCut ==
    ASSUME NEW g \in Seq(Events), NEW base \in Nat, NEW e, LogOf(g, base, e),
           NEW l, l = LastOf(g, LogCap)
    PROVE  LogOf(l, base, e)
  <1>0. LogCap \in Nat \ {0}
    BY DashAssumption
  <1>1. /\ l \in Seq(Events) /\ Len(l) = IF Len(g) <= LogCap THEN Len(g) ELSE LogCap
        /\ \A i \in 1 .. Len(l) : l[i] = g[(Len(g) - Len(l)) + i]
        /\ Len(g) <= LogCap => l = g
    <2>1. EndOf(l, g, LogCap, Events)
      BY <1>0, LastOfEnds
    <2> QED BY ONLY <2>1 DEF EndOf
  <1>2. CASE Len(g) <= LogCap
    BY <1>1, <1>2
  <1>3. CASE ~(Len(g) <= LogCap)
    <2>1. PICK n, c : n = Len(g) /\ c = n - LogCap
      OBVIOUS
    <2>2. /\ n \in Nat /\ c \in Nat \ {0} /\ n = c + LogCap /\ DOMAIN g = 1 .. n
          /\ Len(l) = LogCap /\ DOMAIN l = 1 .. LogCap
      BY <1>0, <1>1, <1>3, <2>1
    <2>3. \A i \in 1 .. LogCap : l[i] = g[c + i] /\ c + i \in 1 .. n
      <3>1. Len(g) - Len(l) = c
        BY <2>1, <2>2
      <3>2. \A i \in 1 .. LogCap : l[i] = g[(Len(g) - Len(l)) + i]
        BY <1>1, <2>2
      <3>3. \A i \in 1 .. LogCap : c + i \in 1 .. n
        BY <1>0, <2>2
      <3> QED BY <3>1, <3>2, <3>3
    <2>4. /\ \A i, j \in 1 .. n : i < j => g[i].id < g[j].id
          /\ \A i \in 1 .. n : g[i].id <= base /\ g[i].id \in Nat
          /\ \A id \in 1 .. base : e[id] = "notice" => Told(g, id)
      <3>1. \A i \in 1 .. n : g[i] \in Events
        BY <2>2
      <3> QED BY <2>2, <3>1 DEF LogOf, Increasing, Events
    <2>5. Increasing(l)
      <3> SUFFICES ASSUME NEW i \in 1 .. LogCap, NEW j \in 1 .. LogCap, i < j
                   PROVE  l[i].id < l[j].id
        BY <2>2 DEF Increasing
      <3>1. c + i < c + j
        BY <1>0, <2>2
      <3> QED BY <2>3, <2>4, <3>1
    <2>6. \A i \in DOMAIN l : l[i].id <= base
      BY <2>2, <2>3, <2>4
    <2>7. ASSUME NEW id \in Nat, Told(g, id) PROVE Told(l, id)
      <3>0. 1 \in 1 .. LogCap /\ 1 \in 1 .. n /\ l[1] = g[c + 1] /\ c + 1 \in 1 .. n /\ Len(l) >= LogCap
        BY <1>0, <2>2, <2>3
      <3>1. ASSUME NEW i \in 1 .. n, g[i].id = id PROVE Told(l, id)
        <4>1. CASE i <= c
          <5>1. g[i].id < g[c + 1].id
            BY <2>2, <2>4, <3>0, <4>1
          <5> QED BY <3>0, <3>1, <5>1 DEF Told
        <4>2. CASE ~(i <= c)
          <5>1. i - c \in 1 .. LogCap /\ c + (i - c) = i
            BY <1>0, <2>2, <4>2
          <5>2. l[i - c].id = id /\ i - c \in DOMAIN l
            BY <2>2, <2>3, <3>1, <5>1
          <5> QED BY <5>2 DEF Told
        <4> QED BY <4>1, <4>2
      <3>2. ASSUME id < g[1].id PROVE Told(l, id)
        <4>1. g[1].id < g[c + 1].id
          BY <2>2, <2>4, <3>0
        <4>2. g[1].id \in Nat /\ g[c + 1].id \in Nat
          BY <2>4, <3>0
        <4>3. id < l[1].id
          BY <3>0, <3>2, <4>1, <4>2
        <4> QED BY <3>0, <4>3 DEF Told
      <3> QED BY <2>2, <2>7, <3>1, <3>2 DEF Told
    <2>8. \A id \in 1 .. base : id \in Nat
      OBVIOUS
    <2> QED BY <2>4, <2>5, <2>6, <2>7, <2>8 DEF LogOf
  <1> QED BY <1>2, <1>3

(* The new events are read into the log.                                   *)
LEMMA LogRead ==
    ASSUME DashTyped, Numbered(sink, emitted), NEW v, v.log \in Seq(Events),
           LogOf(v.log, Len(emitted) - (Len(sink) - view.cursor), emitted)
    PROVE  LogOf(Logged(v), Len(emitted), emitted)
  <1>1. PICK n \in Nat : /\ n = Len(sink) - view.cursor /\ NewEvents \in Seq(Events)
                         /\ DOMAIN NewEvents = 1 .. n
                         /\ \A i \in 1 .. n : NewEvents[i] = sink[view.cursor + i]
    BY NewEventsAre
  <1>2. PICK p : FoldSteps(p, "log", v, v.log, NewEvents, n) /\ Logged(v) = p[n]
    BY <1>1, LogFold
  <1>3. PICK m, c, o, b, e : /\ m = Len(sink) /\ c = view.cursor /\ o = Len(emitted)
                             /\ b = o - n /\ e = emitted
    OBVIOUS
  <1>4. m \in Nat /\ c \in Nat /\ o \in Nat /\ n = m - c /\ m <= o
    BY <1>1, <1>3 DEF DashTyped, Views, Numbered
  <1>a. b = o - n
    BY <1>3
  <1>5. b \in Nat /\ b + n = o
    BY ONLY <1>4, <1>a, n \in Nat
  <1>6. \A i \in 1 .. m : sink[i].id = (o - m) + i /\ sink[i].kind = e[(o - m) + i]
    <2>1. DOMAIN sink = 1 .. m
      BY <1>3 DEF DashTyped
    <2> QED BY <1>3, <2>1 DEF Numbered
  <1>7. ASSUME NEW k \in Nat, k + 1 <= n
        PROVE  /\ k + 1 \in 1 .. n /\ NewEvents[k + 1] \in Events
               /\ NewEvents[k + 1].id = (b + k) + 1
               /\ NewEvents[k + 1].kind = e[(b + k) + 1]
    <2>1. k + 1 \in 1 .. n
      BY ONLY n \in Nat, k \in Nat, k + 1 <= n
    <2>2. NewEvents[k + 1] \in Events /\ NewEvents[k + 1] = sink[c + (k + 1)]
      BY <1>1, <1>3, <2>1
    <2>3. c + (k + 1) \in 1 .. m /\ (o - m) + (c + (k + 1)) = (b + k) + 1
      BY ONLY <1>4, <1>a, k \in Nat, n \in Nat, k + 1 <= n
    <2> QED BY <1>6, <2>1, <2>2, <2>3
  <1> DEFINE T == {k \in Nat : k <= n => p[k] \in Seq(Events) /\ LogOf(p[k], b + k, e)}
  <1>8. 0 \in T
    <2>1. p[0] = v.log /\ b + 0 = b
      BY <1>2, <1>5 DEF FoldSteps
    <2>2. LogOf(v.log, b, e)
      BY <1>1, <1>3
    <2> QED BY <2>1, <2>2
  <1>9. ASSUME NEW k \in Nat, k \in T PROVE k + 1 \in T
    <2> SUFFICES ASSUME k + 1 <= n
                 PROVE  p[k + 1] \in Seq(Events) /\ LogOf(p[k + 1], b + (k + 1), e)
      OBVIOUS
    <2>1. /\ k + 1 \in 1 .. n /\ NewEvents[k + 1] \in Events
          /\ NewEvents[k + 1].id = (b + k) + 1 /\ NewEvents[k + 1].kind = e[(b + k) + 1]
      BY <1>7
    <2>2. p[k] \in Seq(Events) /\ LogOf(p[k], b + k, e) /\ (k + 1) - 1 = k
      BY <1>9
    <2>3. PICK g, new, a : g = p[k] /\ new = NewEvents[k + 1] /\ a = b + k
      OBVIOUS
    <2>4. p[k + 1] = Apply("log", v, g, new)
      BY <1>2, <2>1, <2>2, <2>3 DEF FoldSteps
    <2>5. p[k + 1] = Append(g, new) \/ (p[k + 1] = g /\ new.kind # "notice")
      BY <2>4 DEF Apply, LogStep, Shown
    <2>6. /\ g \in Seq(Events) /\ a \in Nat /\ LogOf(g, a, e) /\ new \in Events
          /\ new.id = a + 1 /\ new.kind = e[a + 1]
      BY <1>5, <2>1, <2>2, <2>3
    <2>7. LogOf(Append(g, new), a + 1, e) /\ (new.kind # "notice" => LogOf(g, a + 1, e))
      BY ONLY <2>6, LogGrows
    <2>8. Append(g, new) \in Seq(Events) /\ a + 1 = b + (k + 1)
      BY <1>5, <2>3, <2>6
    <2> QED BY <2>5, <2>6, <2>7, <2>8
  <1>10. n \in T
    <2> HIDE DEF T
    <2> QED BY <1>8, <1>9, Induction
  <1> QED BY <1>2, <1>3, <1>5, <1>10

(* The numbers of the events when some are emitted.                        *)
LEMMA NumbersGrow ==
    ASSUME NEW to \in Seq(Events), NEW kinds \in Seq(Kinds), emitted \in Seq(Kinds),
           Appended(to, kinds), Numbered(to, emitted)
    PROVE  Numbered(sink', emitted')
  <1>1. PICK m, o, n : m = Len(to) /\ o = Len(emitted) /\ n = Len(kinds)
    OBVIOUS
  <1>2. m \in Nat /\ o \in Nat /\ n \in Nat /\ DOMAIN to = 1 .. m /\ m <= o
    BY <1>1 DEF Numbered
  <1>3. PICK s, e : s = sink' /\ e = emitted'
    OBVIOUS
  <1>4. /\ s \in Seq(Events) /\ Len(s) = m + n /\ Len(e) = o + n
        /\ \A i \in 1 .. m : s[i] = to[i]
        /\ \A i \in 1 .. o : e[i] = emitted[i]
    BY <1>1, <1>3 DEF Appended
  <1>5. \A i \in 1 .. n : /\ s[m + i] = [id |-> o + i, kind |-> kinds[i]]
                          /\ e[o + i] = kinds[i]
    BY <1>1, <1>3 DEF Appended
  <1>6. \A i \in 1 .. m : to[i].id = (o - m) + i /\ to[i].kind = emitted[(o - m) + i]
    BY <1>1, <1>2 DEF Numbered
  <1>7. (Len(e) - Len(s)) = o - m /\ Len(s) <= Len(e) /\ DOMAIN s = 1 .. m + n
    BY <1>2, <1>4
  <1>8. ASSUME NEW i \in 1 .. m + n
        PROVE  s[i].id = (o - m) + i /\ s[i].kind = e[(o - m) + i]
    <2>1. CASE i <= m
      <3>1. i \in 1 .. m /\ (o - m) + i \in 1 .. o
        BY <1>2, <2>1
      <3> QED BY <1>4, <1>6, <3>1
    <2>2. CASE ~(i <= m)
      <3>1. PICK j : j = i - m
        OBVIOUS
      <3>2. j \in 1 .. n /\ m + j = i /\ (o - m) + i = o + j
        BY <1>2, <2>2, <3>1
      <3>3. PICK x, k : x = o + j /\ k = kinds[j]
        OBVIOUS
      <3>4. s[i] = [id |-> x, kind |-> k] /\ e[x] = k
        BY <1>5, <3>2, <3>3
      <3>5. s[i].id = x /\ s[i].kind = k
        BY <3>4
      <3> QED BY <3>2, <3>3, <3>4, <3>5
    <2> QED BY <2>1, <2>2
  <1> QED BY <1>3, <1>7, <1>8 DEF Numbered

(* The numbers of the events when the sink is cut.                         *)
LEMMA NumbersCut ==
    ASSUME DashTyped, Numbered(sink, emitted)
    PROVE  Numbered(Truncated, emitted)
  <1>1. PICK m, o, n, t : m = Len(sink) /\ o = Len(emitted) /\ t = Truncated /\ n = Len(t)
    OBVIOUS
  <1>2. m \in Nat /\ o \in Nat /\ DOMAIN sink = 1 .. m /\ m <= o
    BY <1>1 DEF DashTyped, Numbered
  <1>3. /\ t \in Seq(Events) /\ n \in 0 .. m /\ DOMAIN t = 1 .. n
        /\ \A i \in 1 .. n : t[i] = sink[(m - n) + i]
    BY <1>1, TruncatedIs
  <1>4. \A i \in 1 .. m : sink[i].id = (o - m) + i /\ sink[i].kind = emitted[(o - m) + i]
    BY <1>1, <1>2 DEF Numbered
  <1>5. \A i \in 1 .. n : (m - n) + i \in 1 .. m /\ (o - m) + ((m - n) + i) = (o - n) + i
    BY <1>2, <1>3
  <1>6. \A i \in 1 .. n : t[i].id = (o - n) + i /\ t[i].kind = emitted[(o - n) + i]
    BY <1>3, <1>4, <1>5
  <1>7. n <= o
    BY <1>2, <1>3
  <1> QED BY <1>1, <1>3, <1>6, <1>7 DEF Numbered

(* More is emitted, and nothing is read.                                   *)
LEMMA EventsAppended ==
    ASSUME DashTyped, EventsLogged, NEW kinds \in Seq(Kinds), Appended(sink, kinds),
           view' = view, dash' # "loop"
    PROVE  EventsLogged'
  <1>1. PICK m, o, n, c : m = Len(sink) /\ o = Len(emitted) /\ n = Len(kinds) /\ c = view.cursor
    OBVIOUS
  <1>2. /\ m \in Nat /\ o \in Nat /\ n \in Nat /\ c \in Nat /\ c <= m /\ m <= o
        /\ sink \in Seq(Events) /\ emitted \in Seq(Kinds)
    BY <1>1 DEF DashTyped, Views, EventsLogged, Numbered
  <1>3. Numbered(sink', emitted')
    <2>1. PICK t : t = sink
      OBVIOUS
    <2>2. t \in Seq(Events) /\ Appended(t, kinds) /\ Numbered(t, emitted)
      BY <1>2, <2>1 DEF EventsLogged
    <2> QED BY <1>2, <2>2, NumbersGrow
  <1>4. Len(sink') = m + n /\ Len(emitted') = o + n /\ \A i \in 1 .. o : emitted'[i] = emitted[i]
    BY <1>1 DEF Appended
  <1>5. PICK b : b = o - (m - c)
    OBVIOUS
  <1>6. b \in Nat /\ b <= o /\ Len(emitted') - (Len(sink') - c) = b
    BY <1>2, <1>4, <1>5
  <1>7. LogOf(view.log, b, emitted)
    BY <1>1, <1>5 DEF EventsLogged
  <1>8. \A id \in 1 .. b : emitted'[id] = emitted[id]
    <2>1. \A id \in 1 .. b : id \in 1 .. o
      BY <1>2, <1>6
    <2> QED BY <1>4, <2>1
  <1>9. LogOf(view.log, b, emitted')
    BY <1>7, <1>8 DEF LogOf
  <1> QED BY <1>1, <1>3, <1>6, <1>9 DEF EventsLogged

(* Nothing is emitted or read.                                             *)
LEMMA EventsKept ==
    ASSUME EventsLogged, sink' = sink, emitted' = emitted, view'.log = view.log,
           view'.cursor = view.cursor,
           dash' = "loop" => dash = "loop" /\ (view'.finished <=> view.finished)
    PROVE  EventsLogged'
  BY DEF EventsLogged

(* All is read, and the sink is cut.                                       *)
LEMMA EventsRead ==
    ASSUME DashTyped, EventsLogged, NEW v \in Views, NEW w, HasRead(w, v), v.log = view.log
    PROVE  /\ LogOf(w.log, Len(emitted), emitted) /\ Numbered(Truncated, emitted)
           /\ Len(emitted) \in Nat /\ Len(Truncated) \in Nat /\ w.cursor = Len(Truncated)
  <1>1. Numbered(sink, emitted) /\ LogOf(v.log, Len(emitted) - (Len(sink) - view.cursor), emitted)
    BY DEF EventsLogged
  <1>2. PICK g, l, o, e : g = Logged(v) /\ l = w.log /\ o = Len(emitted) /\ e = emitted
    OBVIOUS
  <1>3. v.log \in Seq(Events)
    BY DEF Views
  <1>4. g \in Seq(Events) /\ o \in Nat /\ LogOf(g, o, e) /\ l = LastOf(g, LogCap)
    BY <1>1, <1>2, <1>3, LoggedTypes, LogRead DEF HasRead, DashTyped
  <1>5. LogOf(l, o, e)
    BY ONLY <1>4, LogCut
  <1>6. Len(Truncated) \in Nat
    BY TruncatedIs DEF DashTyped
  <1> QED BY <1>1, <1>2, <1>4, <1>5, <1>6, NumbersCut DEF HasRead

(* All was read, and nothing is emitted.                                   *)
LEMMA EventsSettled ==
    ASSUME DashTyped, EventsLogged, NEW v \in Views, NEW w, HasRead(w, v), v.log = view.log,
           view'.log = w.log, view'.cursor = w.cursor, ~view'.finished,
           sink' = Truncated, emitted' = emitted
    PROVE  EventsLogged'
  <1>1. PICK o, n : o = Len(emitted) /\ n = Len(Truncated)
    OBVIOUS
  <1>2. /\ LogOf(w.log, o, emitted) /\ Numbered(Truncated, emitted)
        /\ o \in Nat /\ n \in Nat /\ w.cursor = n
    BY <1>1, EventsRead
  <1>3. Len(sink') - view'.cursor = 0 /\ o - (n - n) = o
    BY <1>1, <1>2
  <1>4. Len(emitted') - (Len(sink') - view'.cursor) = o
    BY <1>1, <1>2
  <1>5. Numbered(sink', emitted') /\ LogOf(view'.log, o, emitted')
    BY <1>2
  <1> QED BY <1>3, <1>4, <1>5 DEF EventsLogged

(* All was read before the event of the end is emitted.                    *)
LEMMA EventsEnded ==
    ASSUME DashTyped, EventsLogged, NEW v \in Views, NEW w, HasRead(w, v), v.log = view.log,
           view'.log = w.log, view'.cursor = w.cursor, view'.finished,
           Appended(Truncated, <<"notice">>)
    PROVE  EventsLogged'
  <1>1. PICK o, n, t, q : o = Len(emitted) /\ t = Truncated /\ n = Len(t) /\ q = <<"notice">>
    OBVIOUS
  <1>2. /\ LogOf(w.log, o, emitted) /\ Numbered(t, emitted)
        /\ o \in Nat /\ n \in Nat /\ w.cursor = n
    BY <1>1, EventsRead
  <1>3. q \in Seq(Kinds) /\ Len(q) = 1
    BY <1>1 DEF Kinds
  <1>4. t \in Seq(Events) /\ emitted \in Seq(Kinds) /\ Appended(t, q)
    BY <1>1, TruncatedIs DEF DashTyped
  <1>5. Numbered(sink', emitted')
    BY <1>2, <1>3, <1>4, NumbersGrow
  <1>6. /\ Len(sink') = n + 1 /\ Len(emitted') = o + 1
        /\ \A i \in 1 .. o : emitted'[i] = emitted[i]
    BY <1>1, <1>3, <1>4 DEF Appended
  <1>7. Len(sink') - view'.cursor = 1 /\ Len(emitted') - (Len(sink') - view'.cursor) = o
    BY <1>2, <1>6
  <1>8. LogOf(view'.log, o, emitted')
    BY <1>2, <1>6 DEF LogOf
  <1> QED BY <1>5, <1>7, <1>8 DEF EventsLogged

(* Every step of the session keeps the log and the sink together.          *)
LEMMA EventsNext ==
    ASSUME SessionTyped, EventsLogged, [DashNext]_dashVars
    PROVE  EventsLogged'
  <1>0. SimTyped /\ DashTyped /\ DashPlaces
    BY DEF SessionTyped
  <1>1. CASE UNCHANGED dashVars \/ DashTime
    <2>1. sink' = sink /\ emitted' = emitted /\ view' = view /\ dash' = dash
      BY <1>1 DEF dashVars, DashTime
    <2> QED BY <2>1, EventsKept
  <1>2. CASE Quit \/ Speed \/ Space \/ (StepKey /\ view.finished)
    <2>1. KeyPressed /\ dash = "loop"
      BY <1>2, SessionKeys, SessionSpace
    <2> QED BY <2>1, EventsKept DEF KeyPressed
  <1>3. CASE AutoTicks \/ NextTick \/ (StepKey /\ ~view.finished)
    <2>1. dash \in {"loop", "frame"} /\ ~view.finished
      BY <1>0, <1>3 DEF AutoTicks, NextTick, StepKey, DashPlaces, FramePlace
    <2>2. /\ \E ticks : StepCalled(ticks)
          /\ \E m \in {"Auto", "Paused"} : view' = WithMode(view, m)
      BY <1>3, <2>1, SessionCalled
    <2>a. PICK m \in {"Auto", "Paused"} : view' = WithMode(view, m)
      BY <2>2
    <2>3. PICK v, u : v = view /\ u = view' /\ u = WithMode(v, m)
      BY <2>a
    <2>4. v \in Views
      BY <1>0, <2>3 DEF DashTyped
    <2>5. u.log = v.log /\ u.cursor = v.cursor
      BY ONLY m \in {"Auto", "Paused"}, <2>3, <2>4, ViewMode
    <2>6. dash' = "step" /\ sink' = sink /\ emitted' = emitted
      BY <2>2 DEF StepCalled
    <2> QED BY <2>3, <2>5, <2>6, EventsKept
  <1>4. CASE DashLoad
    <2>1. sink' = sink /\ emitted' = emitted /\ view' = view /\ dash' = dash
      BY <1>4 DEF DashLoad
    <2> QED BY <2>1, EventsKept
  <1>5. CASE Arm
    <2>1. /\ view' = view /\ dash' = "armed" /\ Appended(sink, StartEvents)
          /\ StartEvents \in Seq(Kinds)
      BY <1>5, SessionArm DEF Arm
    <2>2. PICK k : k = StartEvents
      OBVIOUS
    <2> QED BY <1>0, <2>1, <2>2, EventsAppended
  <1>6. CASE Armed
    <2>1. HasRead(view', view) /\ sink' = Truncated /\ emitted' = emitted /\ ~view.finished
      BY <1>0, <1>6, SessionArmed DEF Armed, DashPlaces, ArmedPlace
    <2>2. PICK v, w : v = view /\ w = view'
      OBVIOUS
    <2>3. v \in Views /\ HasRead(w, v) /\ v.log = view.log /\ view'.log = w.log /\ view'.cursor = w.cursor
      BY <1>0, <2>1, <2>2 DEF DashTyped
    <2>4. ~view'.finished
      BY <2>1 DEF HasRead
    <2> QED BY <1>0, <2>1, <2>3, <2>4, EventsSettled
  <1>7. CASE Restart
    <2>1. /\ view'.log = <<>> /\ view'.cursor = 0 /\ sink' = <<>> /\ emitted' = <<>>
          /\ dash' = "open"
      BY <1>7, SessionRestart DEF NewSession, FreshView
    <2> QED BY <2>1 DEF EventsLogged, Numbered, LogOf, Increasing
  <1>8. CASE Steps
    <2>1. view' = view /\ dash' = dash /\ dash = "step"
      BY <1>0, <1>8, SessionSteps DEF Steps
    <2>2. PICK k : Emitted(k)
      BY <1>0, <1>8, StepsEmit
    <2>3. k \in Seq(Kinds) /\ Appended(sink, k)
      BY <2>2 DEF Emitted
    <2> QED BY <1>0, <2>1, <2>3, EventsAppended
  <1>9. CASE StepBroke \/ StepMore \/ StepLast
    <2>1. ~view.finished
      BY <1>0, <1>9 DEF StepBroke, StepMore, StepLast, DashPlaces, StepPlace
    <2>2. StepAnswered
      BY <1>0, <1>9, <2>1, TickRead
    <2>3. PICK s, w : Ingested(s, w)
      BY <1>0, <1>9, <2>1, TickRead
    <2>4. /\ s \in Views /\ s.log = view.log /\ HasRead(w, s)
          /\ view'.log = w.log /\ view'.cursor = w.cursor
      BY <2>3 DEF Ingested, HasSampled
    <2>5. CASE StepBroke \/ StepMore
      <3>1. sink' = Truncated /\ emitted' = emitted /\ ~view'.finished
        BY <2>2, <2>5 DEF StepBroke, StepMore, StepAnswered
      <3> QED BY <1>0, <2>4, <3>1, EventsSettled
    <2>6. CASE StepLast
      <3>1. Appended(Truncated, <<"notice">>) /\ view'.finished
        BY <2>2, <2>6, SessionEnds DEF StepAnswered
      <3> QED BY <1>0, <2>4, <3>1, EventsEnded
    <2> QED BY <1>9, <2>5, <2>6
  <1> QED BY <1>1, <1>2, <1>3, <1>4, <1>5, <1>6, <1>7, <1>8, <1>9 DEF DashNext, Works

(* No event is shown twice or out of order, and every fault, overflow and  *)
(* start of this run is in the log or was pushed out of it by newer lines, *)
(* although refresh_events truncates the sink behind the cursor: for any   *)
(* caps of the log and the sink, any speed and any keys.                   *)
THEOREM NoticesShownHolds == DashSpec => []NoticesShown
  <1>1. DashInit => SessionTyped /\ EventsLogged
    <2> SUFFICES ASSUME DashInit PROVE SessionTyped /\ EventsLogged
      OBVIOUS
    <2>1. view = NewView /\ sink = <<>> /\ emitted = <<>> /\ dash = "open"
      BY DEF DashInit
    <2>2. view.log = <<>> /\ view.cursor = 0
      BY <2>1 DEF NewView
    <2>3. EventsLogged
      BY <2>1, <2>2 DEF EventsLogged, Numbered, LogOf, Increasing
    <2> QED BY <2>3, SessionInit
  <1>2. SessionTyped /\ EventsLogged /\ [DashNext]_dashVars => SessionTyped' /\ EventsLogged'
    BY SessionNext, EventsNext
  <1>3. SessionTyped /\ EventsLogged => NoticesShown
    <2> SUFFICES ASSUME SessionTyped, EventsLogged, dash = "loop" PROVE NoticesShown
      BY DEF NoticesShown
    <2>1. PICK log, o, b, f : /\ log = view.log /\ o = Len(emitted)
                              /\ b = o - (Len(sink) - view.cursor)
                              /\ f = IF view.finished THEN 1 ELSE 0
      OBVIOUS
    <2>2. b = o - f
      BY <2>1 DEF EventsLogged
    <2>3. LogOf(log, b, emitted)
      BY <2>1 DEF EventsLogged
    <2>4. Len(log) \in Nat /\ Len(log) <= LogCap /\ LogCap \in Nat
      BY <2>1, DashAssumption DEF SessionTyped, DashTyped, Views
    <2>5. \A id : Told(log, id) => \/ \E i \in DOMAIN log : log[i].id = id
                                   \/ Len(log) = LogCap /\ id < log[1].id
      BY <2>4 DEF Told
    <2>6. \A i, j \in DOMAIN log : i < j => log[i].id < log[j].id
      BY <2>3 DEF LogOf, Increasing
    <2>7. \A id \in {n \in 1 .. o - f : emitted[n] = "notice"} :
             \/ \E i \in DOMAIN log : log[i].id = id
             \/ Len(log) = LogCap /\ id < log[1].id
      BY <2>2, <2>3, <2>5 DEF LogOf
    <2> QED BY <2>1, <2>6, <2>7 DEF NoticesShown
  <1> QED BY <1>1, <1>2, <1>3, PTL DEF DashSpec
=============================================================================
