---------------------------- MODULE KeeperProofs ----------------------------
(***************************************************************************)
(* The safety of the keeper for any number of mints, any cool-down and     *)
(* however many faults.  Two facts are inductive together: a transaction   *)
(* reported to the tick as successful has left its curve migrated, which   *)
(* no step undoes; and the countdown failures, which the code acts on, and *)
(* the time rested, which the promise is about, add up to the cool-down.   *)
(***************************************************************************)
EXTENDS Keeper, TLAPS

Jobs == [kind : {"migrate", "collect"}, mint : Mints, config : Nat]

Busy == pc \in {"sending", "confirming"}

KeeperType ==
  /\ curve \in [Mints -> [status : {"trading", "complete", "migrated"}, fees : Nat]]
  /\ config \in Nat /\ seen \in Nat
  /\ flight \subseteq Jobs
  /\ todo \subseteq Mints /\ migrated \subseteq Mints
  /\ failures \in [Mints -> Nat] /\ rested \in [Mints -> Nat]
  /\ Busy => job \in Jobs
  /\ landed # "no" => pc = "confirming"

\* A migration is tried with no countdown on.
Ready == Busy /\ job.kind = "migrate" => failures[job.mint] = 0

\* What the tick is about to report has happened.
Told ==
  landed = "ok" /\ job.kind = "migrate" => curve[job.mint].status = "migrated"

Rested == \A m \in Mints : failures[m] + rested[m] = CoolDown

KeeperInv == KeeperType /\ Ready /\ Told /\ Rested /\ TruthfulReport

-----------------------------------------------------------------------------

LEMMA KeeperAtFirst == Init => KeeperInv
  BY KeeperAssumption
  DEF Init, KeeperInv, KeeperType, Ready, Told, Rested, TruthfulReport, Busy, NoJob

\* The steps of the chain: a migrated curve stays so.
LEMMA ChainKeeps == KeeperInv /\ Chain => KeeperInv'
  <1> SUFFICES ASSUME KeeperInv, Chain PROVE KeeperInv'
    OBVIOUS
  <1> USE KeeperAssumption DEF KeeperInv, Busy
  <1>1. ASSUME NEW m \in Mints, Trade(m) PROVE KeeperInv'
    BY <1>1 DEF Trade, tick, memory, KeeperType, Ready, Told, Rested, TruthfulReport
  <1>2. ASSUME NEW m \in Mints, Reopen(m) PROVE KeeperInv'
    BY <1>2 DEF Reopen, tick, memory, KeeperType, Ready, Told, Rested, TruthfulReport
  <1>3. ASSUME NEW tx \in Jobs PROVE
            /\ Executed(tx) \in [Mints -> [status : {"trading", "complete", "migrated"}, fees : Nat]]
            /\ \A m \in Mints : curve[m].status = "migrated"
                                  => Executed(tx)[m].status = "migrated"
            /\ tx.kind = "migrate" => Executed(tx)[tx.mint].status = "migrated"
    BY <1>3, ZenonT(40) DEF Executed, KeeperType, Jobs
  <1>4. ASSUME NEW m \in Mints, NEW kind \in {"migrate", "collect"}, Crank(kind, m)
        PROVE KeeperInv'
    <2> DEFINE tx == [kind |-> kind, mint |-> m, config |-> config]
    <2>1. tx \in Jobs
      BY DEF KeeperType, Jobs
    <2>2. curve' = Executed(tx) /\ UNCHANGED <<config, flight, tick, memory>>
      BY <1>4 DEF Crank
    <2> HIDE DEF tx
    <2>3. /\ curve' \in [Mints -> [status : {"trading", "complete", "migrated"}, fees : Nat]]
          /\ \A n \in Mints : curve[n].status = "migrated"
                                => curve'[n].status = "migrated"
      BY <2>1, <2>2, <1>3
    <2>4. KeeperType'
      BY <2>2, <2>3 DEF tick, memory, KeeperType
    <2> QED BY <2>2, <2>3, <2>4
        DEF tick, memory, KeeperType, Jobs, Ready, Told, Rested, TruthfulReport
  <1>5. ASSUME UpdateConfig PROVE KeeperInv'
    BY <1>5 DEF UpdateConfig, tick, memory, KeeperType, Ready, Told, Rested, TruthfulReport
  <1>6. ASSUME NEW tx \in flight, Land(tx) PROVE KeeperInv'
    <2>1. tx \in Jobs
      BY DEF KeeperType
    <2>2. /\ curve' \in [Mints -> [status : {"trading", "complete", "migrated"}, fees : Nat]]
          /\ \A m \in Mints : curve[m].status = "migrated"
                                => curve'[m].status = "migrated"
      BY <1>6, <1>3, <2>1 DEF Land, KeeperType
    <2>3. Told'
      <3>1. CASE ~Mine(tx)
        BY <1>6, <2>2, <3>1 DEF Land, Told, memory, KeeperType, Jobs
      <3>2. CASE Mine(tx)
        BY <1>6, <1>3, <2>1, <3>2 DEF Land, Told, Mine
      <3> QED BY <3>1, <3>2
    <2>4. KeeperType'
      BY <1>6, <2>2 DEF Land, KeeperType, Mine, memory
    <2> QED BY <1>6, <2>2, <2>3, <2>4
        DEF Land, memory, Ready, Rested, TruthfulReport, KeeperType
  <1>7. ASSUME NEW tx \in flight, Vanish(tx) PROVE KeeperInv'
    BY <1>7 DEF Vanish, onChain, tick, memory, KeeperType, Ready, Told, Rested, TruthfulReport
  <1> QED BY <1>1, <1>2, <1>4, <1>5, <1>6, <1>7 DEF Chain

\* A transaction that failed starts the countdown of its mint.
LEMMA FailKeeps ==
  ASSUME KeeperInv, Busy, Fail, UNCHANGED <<onChain, seen, todo>>, flight' \subseteq flight
  PROVE  KeeperInv'
  <1> USE KeeperAssumption DEF KeeperInv, Busy, Fail, Resumed, Pause, NoJob, onChain
  <1>1. KeeperType'
    <2>1. failures' \in [Mints -> Nat] /\ rested' \in [Mints -> Nat]
      BY DEF KeeperType
    <2>2. pc' \notin {"sending", "confirming"} /\ landed' = "no"
      OBVIOUS
    <2> QED BY <2>1, <2>2 DEF KeeperType
  <1>2. Ready' /\ Told'
    BY DEF Ready, Told
  <1>3. Rested'
    BY DEF Rested, KeeperType, Jobs, Ready
  <1>4. TruthfulReport'
    BY DEF TruthfulReport
  <1> QED BY <1>1, <1>2, <1>3, <1>4

\* What a tick reports has happened.
LEMMA SucceedKeeps ==
  ASSUME KeeperInv, pc = "confirming", landed = "ok", Succeed,
         UNCHANGED <<onChain, flight, seen, todo>>
  PROVE  KeeperInv'
  <1> USE KeeperAssumption DEF KeeperInv, Busy, Succeed, Resumed, NoJob, onChain
  <1>1. KeeperType'
    BY DEF KeeperType, Jobs
  <1>2. Ready' /\ Told'
    BY DEF Ready, Told
  <1>3. Rested'
    BY DEF Rested, KeeperType, Jobs, Ready
  <1>4. TruthfulReport'
    BY DEF TruthfulReport, Told, KeeperType, Jobs
  <1> QED BY <1>1, <1>2, <1>3, <1>4

\* The steps of a tick between its transactions.
LEMMA WalkKeeps ==
  ASSUME KeeperInv,
         \/ Tick \/ FetchConfig \/ ListComplete \/ ListDue \/ FetchDue \/ End
         \/ ReadFails
         \/ \E m \in Mints : PassOver(m) \/ BeginMigration(m) \/ BeginCollection(m)
  PROVE  KeeperInv'
  <1> USE KeeperAssumption DEF KeeperInv, Busy
  <1>1. ASSUME NEW m \in Mints, BeginMigration(m) PROVE KeeperInv'
    BY <1>1 DEF BeginMigration, Begin, onChain, memory, KeeperType, Jobs, Ready, Told,
                Rested, TruthfulReport
  <1>2. ASSUME NEW m \in Mints, BeginCollection(m) PROVE KeeperInv'
    BY <1>2 DEF BeginCollection, Begin, onChain, memory, KeeperType, Jobs, Ready, Told,
                Rested, TruthfulReport
  <1>3. ASSUME NEW m \in Mints, PassOver(m) PROVE KeeperInv'
    BY <1>3 DEF PassOver, onChain, memory, KeeperType, Ready, Told, Rested, TruthfulReport
  <1>4. CASE Tick \/ FetchConfig \/ ListComplete
    BY <1>4 DEF Tick, FetchConfig, Latest, ListComplete, onChain, memory, KeeperType,
                Ready, Told, Rested, TruthfulReport
  <1>5. CASE ListDue \/ FetchDue \/ End \/ ReadFails
    BY <1>5 DEF ListDue, FetchDue, End, ReadFails, onChain, memory, KeeperType,
                Ready, Told, Rested, TruthfulReport
  <1> QED BY <1>1, <1>2, <1>3, <1>4, <1>5

LEMMA SendKeeps == KeeperInv /\ Send => KeeperInv'
  BY DEF Send, KeeperInv, Busy, onChain, memory, KeeperType, Ready, Told, Rested,
         TruthfulReport

LEMMA RestartKeeps == KeeperInv /\ Restart => KeeperInv'
  <1> SUFFICES ASSUME KeeperInv, Restart PROVE KeeperInv'
    OBVIOUS
  <1> USE KeeperAssumption DEF KeeperInv, Busy, Restart, onChain
  <1>1. KeeperType'
    <2>1. failures' \in [Mints -> Nat] /\ rested' \in [Mints -> Nat]
      OBVIOUS
    <2> QED BY <2>1 DEF KeeperType
  <1>2. Ready' /\ Told'
    BY DEF Ready, Told
  <1>3. Rested'
    BY DEF Rested
  <1>4. TruthfulReport'
    BY DEF TruthfulReport
  <1> QED BY <1>1, <1>2, <1>3, <1>4

\* A countdown and the time rested move together.
LEMMA ElapseKeeps == KeeperInv /\ Elapse => KeeperInv'
  <1> SUFFICES ASSUME KeeperInv, Elapse PROVE KeeperInv'
    OBVIOUS
  <1> USE KeeperAssumption DEF KeeperInv, Busy, Elapse, onChain, tick
  <1>0. ASSUME NEW m \in Mints
        PROVE  /\ failures'[m] \in Nat /\ rested'[m] \in Nat
               /\ failures'[m] + rested'[m] = CoolDown
               /\ failures[m] = 0 => failures'[m] = 0
    <2>1. failures[m] \in Nat /\ rested[m] \in Nat /\ failures[m] + rested[m] = CoolDown
      BY DEF KeeperType, Rested
    <2>2. /\ failures'[m] = IF failures[m] = 0 THEN 0 ELSE failures[m] - 1
          /\ rested'[m] = IF rested[m] = CoolDown THEN CoolDown ELSE rested[m] + 1
      OBVIOUS
    <2> QED BY <2>1, <2>2
  <1>1. Rested'
    BY <1>0 DEF Rested
  <1>2. KeeperType'
    <2>1. failures' \in [Mints -> Nat] /\ rested' \in [Mints -> Nat]
      BY <1>0
    <2> QED BY <2>1 DEF KeeperType
  <1>3. Ready'
    BY <1>0 DEF Ready, KeeperType, Jobs
  <1>4. Told' /\ TruthfulReport'
    BY DEF Told, TruthfulReport
  <1> QED BY <1>1, <1>2, <1>3, <1>4

LEMMA KeeperStep == KeeperInv /\ [Next]_vars => KeeperInv'
  <1> SUFFICES ASSUME KeeperInv, [Next]_vars PROVE KeeperInv'
    OBVIOUS
  <1>1. CASE UNCHANGED vars
    BY <1>1 DEF vars, onChain, tick, memory, KeeperInv, KeeperType, Busy, Ready, Told,
                Rested, TruthfulReport
  <1>2. CASE Refuse
    BY <1>2, FailKeeps DEF Refuse, Busy
  <1>3. CASE SendFails
    BY <1>3, FailKeeps DEF SendFails, Busy
  <1>4. CASE Expire
    BY <1>4, FailKeeps DEF Expire, Busy, Mine
  <1>5. CASE Confirm
    <2>1. CASE landed = "ok"
      BY <1>5, <2>1, SucceedKeeps DEF Confirm, Succeeded
    <2>2. CASE landed # "ok"
      BY <1>5, <2>2, FailKeeps DEF Confirm, Succeeded, Busy
    <2> QED BY <2>1, <2>2
  <1> QED BY <1>1, <1>2, <1>3, <1>4, <1>5, ChainKeeps, WalkKeeps, SendKeeps,
             RestartKeeps, ElapseKeeps DEF Next, Running

-----------------------------------------------------------------------------

\* What a tick reports as migrated has graduated (keeper.ts, send and the log
\* line that follows it), whatever else happened to the transaction.
THEOREM ReportsAreTrue == Spec => []TruthfulReport
  <1>1. KeeperInv => TruthfulReport
    BY DEF KeeperInv
  <1> QED BY <1>1, KeeperAtFirst, KeeperStep, PTL DEF Spec

\* A migration that failed is not tried again before the cool-down is over
\* (keeper.ts, failures), for every cool-down and number of mints.
THEOREM FailuresRest == Spec => CoolDownRespected
  <1>1. KeeperInv /\ [Next]_vars =>
          [\A m \in Mints : BeginMigration(m) => rested[m] = CoolDown]_vars
    BY KeeperAssumption DEF KeeperInv, Rested, BeginMigration, KeeperType
  <1> QED BY <1>1, KeeperAtFirst, KeeperStep, PTL DEF Spec, CoolDownRespected

=============================================================================
