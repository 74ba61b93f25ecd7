-------------------------- MODULE WorkerPoolProofs --------------------------
(***************************************************************************)
(* run_factory is correct for every number of workers and of calls.        *)
(*                                                                         *)
(* PoolInv is inductive.  A worker's step moves only its own entries, and  *)
(* errors only grows during a call, so that each action needs the account  *)
(* of the worker that takes it and that of an arbitrary other one.         *)
(***************************************************************************)
EXTENDS WorkerPool, SequenceTheorems, TLAPS

(* No thread is there before the first call.                               *)
LEMMA PoolInvInit == Init => PoolInv
  <1> SUFFICES ASSUME Init PROVE PoolInv
    OBVIOUS
  <1>1. TypeOK
    <2>1. 1 \in Workers /\ 0 \in 0 .. MaxRuns
      BY WorkersAssumption DEF Workers
    <2>2. <<>> \in Seq(Workers)
      BY EmptySeq
    <2>3. open \in [Workers -> BOOLEAN]
      BY DEF Init
    <2> QED BY <2>1, <2>2, <2>3 DEF Init, TypeOK
  <1>2. \A w \in Workers : WorkerAccount(w)
    BY DEF Init, WorkerAccount
  <1>3. CallerAccount /\ FlagExplained
    BY DEF Init, CallerAccount, FlagExplained
  <1> QED BY <1>1, <1>2, <1>3 DEF PoolInv

-----------------------------------------------------------------------------
(* The types                                                               *)

(* Every step keeps the types.                                             *)
LEMMA PoolTypes == TypeOK /\ [Next]_vars => TypeOK'
  <1> SUFFICES ASSUME TypeOK, [Next]_vars PROVE TypeOK'
    OBVIOUS
  <1> USE DEF TypeOK
  <1>1. CASE RunFactory
    BY <1>1, WorkersAssumption DEF RunFactory, Workers
  <1>2. CASE Spawn
    BY <1>2, WorkersAssumption DEF Spawn, Workers
  <1>3. CASE SpawnFails
    BY <1>3 DEF SpawnFails
  <1>4. CASE Join
    BY <1>4, WorkersAssumption DEF Join, Workers
  <1>5. CASE Collect
    BY <1>5 DEF Collect
  <1>6. CASE RequestShutdown
    BY <1>6 DEF RequestShutdown
  <1>7. ASSUME NEW w \in Workers, WorkerGoesOn(w) \/ Step(w) \/ Panics(w)
        PROVE  TypeOK'
    <2>1. CASE Factory(w)
      BY <2>1 DEF Factory, Fails, Goto
    <2>2. CASE InitPipeline(w)
      BY <2>2 DEF InitPipeline, Fails, Goto
    <2>3. CASE Stops(w)
      BY <2>3 DEF Stops, Goto
    <2>4. CASE Step(w)
      BY <2>4 DEF Step, Fails, Goto
    <2>5. CASE Close(w)
      BY <2>5 DEF Close, Goto
    <2>6. CASE Record(w)
      BY <2>6 DEF Record, Goto
    <2>7. CASE SetFlag(w)
      BY <2>7 DEF SetFlag, Goto
    <2>8. CASE Panics(w)
      BY <2>8 DEF Panics
    <2> QED BY <1>7, <2>1, <2>2, <2>3, <2>4, <2>5, <2>6, <2>7, <2>8 DEF WorkerGoesOn
  <1>8. CASE UNCHANGED vars
    BY <1>8 DEF vars
  <1> QED BY <1>1, <1>2, <1>3, <1>4, <1>5, <1>6, <1>7, <1>8 DEF Next, MainNext

-----------------------------------------------------------------------------
(* The accounts                                                            *)

(* The steps of the caller and of request_shutdown.                        *)
LEMMA CallerKeepsAccounts ==
    ASSUME PoolInv, TypeOK', RunFactory \/ MainNext \/ RequestShutdown
    PROVE  PoolInv'
  <1> USE DEF PoolInv, WorkerAccount, CallerAccount, FlagExplained
  <1>1. CASE RunFactory
    BY <1>1 DEF RunFactory
  <1>2. CASE Spawn
    <2>1. \A w \in Workers : wpc'[w] = IF w = next THEN "factory" ELSE wpc[w]
      BY <1>2 DEF Spawn, TypeOK
    <2>2. ended[next] = "no"
      BY <1>2 DEF Spawn, TypeOK, Workers
    <2>3. next \in Nat /\ Workers \subseteq Nat
      BY DEF TypeOK, Workers
    <2>4. CASE next = NumWorkers
      <3>1. \A w \in Workers : ~ (w < 1)
        BY DEF Workers
      <3> QED BY <1>2, <2>1, <2>2, <2>4, <3>1 DEF Spawn, TypeOK
    <2>5. CASE next # NumWorkers
      BY <1>2, <2>1, <2>2, <2>3, <2>5 DEF Spawn, TypeOK
    <2> QED BY <2>4, <2>5
  <1>3. CASE SpawnFails
    BY <1>3 DEF SpawnFails
  <1>4. CASE Join
    <2>1. \A w \in Workers : w < next + 1 => w < next \/ w = next
      BY DEF TypeOK, Workers
    <2>2. \A w \in Workers : w < next \/ w = next \/ next # NumWorkers
      BY DEF TypeOK, Workers
    <2> QED BY <1>4, <2>1, <2>2 DEF Join, TypeOK
  <1>5. CASE Collect
    BY <1>5 DEF Collect
  <1>6. CASE RequestShutdown
    BY <1>6 DEF RequestShutdown
  <1> QED BY <1>1, <1>2, <1>3, <1>4, <1>5, <1>6 DEF MainNext

(* The steps of a worker.                                                  *)
LEMMA WorkerKeepsAccounts ==
    ASSUME PoolInv, TypeOK', NEW w \in Workers,
           WorkerGoesOn(w) \/ Step(w) \/ Panics(w)
    PROVE  PoolInv'
  <1>0. wpc[w] \notin {"none", "gone"}
    BY DEF WorkerGoesOn, Step, Panics, Factory, InitPipeline, Stops, Close, Record,
           SetFlag, Fails, Goto
  <1>1. /\ \A v \in Workers : v # w => wpc'[v] = wpc[v] /\ ended'[v] = ended[v]
                                      /\ open'[v] = open[v]
        /\ UNCHANGED <<mpc, next, result, calls, requested, stale>>
        /\ errors' = errors \/ errors' = Append(errors, w)
        /\ shutdown => shutdown'
    BY DEF PoolInv, TypeOK, WorkerGoesOn, Step, Panics, Factory, InitPipeline, Stops,
           Close, Record, SetFlag, Fails, Goto
  <1>2. errors # <<>> => errors' # <<>>
    BY <1>1, AppendProperties DEF PoolInv, TypeOK
  <1>3. \A v \in Workers : v # w => WorkerAccount(v)'
    BY <1>1, <1>2 DEF PoolInv, WorkerAccount
  <1>4. CallerAccount'
    <2>1. result # "Ok" /\ result # "Err" /\ mpc # "collect"
      BY <1>0 DEF PoolInv, CallerAccount
    <2>2. mpc = "spawn" => ~ (w >= next)
      BY <1>0 DEF PoolInv, CallerAccount
    <2>3. mpc = "join" => ~ (w < next)
      BY <1>0 DEF PoolInv, CallerAccount
    <2> QED BY <1>1, <2>1, <2>2, <2>3 DEF PoolInv, CallerAccount
  <1> USE DEF PoolInv, TypeOK
  <1>5. WorkerAccount(w)' /\ FlagExplained'
    <2> USE DEF WorkerAccount, FlagExplained
    <2>1. CASE Factory(w)
      BY <2>1 DEF Factory, Fails, Goto
    <2>2. CASE InitPipeline(w)
      BY <2>2 DEF InitPipeline, Fails, Goto
    <2>3. CASE Stops(w)
      BY <2>3 DEF Stops, Goto
    <2>4. CASE Step(w)
      BY <2>4 DEF Step, Fails, Goto
    <2>5. CASE Close(w)
      BY <2>5 DEF Close, Goto
    <2>6. CASE Record(w)
      <3>1. errors' # <<>>
        BY <2>6, AppendProperties DEF Record
      <3> QED BY <2>6, <3>1 DEF Record, Goto
    <2>7. CASE SetFlag(w)
      BY <2>7 DEF SetFlag, Goto
    <2>8. CASE Panics(w)
      BY <2>8 DEF Panics
    <2> QED BY <2>1, <2>2, <2>3, <2>4, <2>5, <2>6, <2>7, <2>8 DEF WorkerGoesOn
  <1> QED BY <1>3, <1>4, <1>5

(* The inductive step.                                                     *)
LEMMA PoolInvStep == PoolInv /\ [Next]_vars => PoolInv'
  <1> SUFFICES ASSUME PoolInv, [Next]_vars PROVE PoolInv'
    OBVIOUS
  <1>1. TypeOK'
    BY PoolTypes DEF PoolInv
  <1>2. CASE UNCHANGED vars
    BY <1>2 DEF vars, PoolInv, TypeOK, WorkerAccount, CallerAccount, FlagExplained
  <1> QED BY <1>1, <1>2, CallerKeepsAccounts, WorkerKeepsAccounts DEF Next

-----------------------------------------------------------------------------
(* The caller, its workers and the flag agree between any two steps: a     *)
(* thread that is gone has closed its pipeline, left its error or          *)
(* panicked, run_factory reads the errors after the last thread is gone,   *)
(* and unless a spawn failed it leaves no thread behind.                   *)
THEOREM PoolInvHolds == Spec => []PoolInv
  BY PoolInvInit, PoolInvStep, PTL DEF Spec

(* run_factory's Ok is the truth about every worker that did not panic.    *)
THEOREM OkMeansCompleteHolds == Spec => []OkMeansComplete
  <1>1. PoolInv => OkMeansComplete
    <2> SUFFICES ASSUME PoolInv, result = "Ok", NEW w \in Workers, ended[w] # "panic"
                 PROVE  /\ ended[w] \in {"exhausted", "stopped"} /\ ~open[w]
                        /\ ended[w] = "stopped" => requested \/ stale
      BY DEF OkMeansComplete
    <2>1. wpc[w] = "gone" /\ errors = <<>>
      BY DEF PoolInv, CallerAccount
    <2>2. WorkerAccount(w) /\ ended[w] \in {"no", "exhausted", "stopped", "error", "panic"}
      BY DEF PoolInv, TypeOK
    <2> QED BY <2>1, <2>2 DEF PoolInv, WorkerAccount, FlagExplained
  <1> QED BY <1>1, PoolInvHolds, PTL
=============================================================================
