------------------------------- MODULE Keeper -------------------------------
(***************************************************************************)
(* The keeper (backend/src/keeper.ts): on a timer it reads the             *)
(* configuration and the completed curves, sends a migration for each, one *)
(* at a time, and then sweeps the protocol fees of the curves that owe     *)
(* enough.  Every await is a point where the chain may move: a snapshot    *)
(* grows stale, a transaction lands late or never, a request fails.        *)
(*                                                                         *)
(* The program is reduced to what the keeper depends on; Launchpad models  *)
(* it.  Sets stand for the lists the node returns in no particular order.  *)
(***************************************************************************)
EXTENDS Naturals, FiniteSets

CONSTANTS
  Mints,
  Hopeless,     \* mints whose migration the program or Raydium refuses
  MinFees,      \* collectFeesMinLamports; fees owed are not counted further
  CoolDown,     \* ticks of the clock: 60 seconds in the source
  MaxUpdates,   \* bound: configurations after the first
  MaxFaults     \* bound: failed requests, transactions that expire, restarts

ASSUME KeeperAssumption ==
  /\ Hopeless \subseteq Mints
  /\ MinFees \in Nat \ {0}
  /\ CoolDown \in Nat \ {0}
  /\ MaxUpdates \in Nat
  /\ MaxFaults \in Nat

VARIABLES
  curve,      \* on chain: the status and the protocol fees of every mint
  config,     \* on chain: which configuration is in force
  flight,     \* transactions sent that may still land
  pc,         \* where the tick is; "idle" is busy = false
  seen,       \* the configuration this tick works with
  todo,       \* mints of the list this tick is going through
  job,        \* the transaction being sent or confirmed
  landed,     \* what became of it: "no", "ok" or "failed"
  failures,   \* time left before the migration of a mint is tried again
  migrated,   \* history: mints reported as migrated
  rested,     \* history: time since the last failed attempt, up to CoolDown
  faults      \* bound: faults so far

onChain == <<curve, config>>
tick == <<pc, seen, todo, job, landed>>
memory == <<failures, migrated, rested>>
vars == <<onChain, flight, tick, memory, faults>>

\* A transaction carries the accounts of the configuration it was built with.
Transactions ==
  [kind : {"migrate", "collect"}, mint : Mints, config : 0 .. MaxUpdates]

NoJob == [kind |-> "none"]

-----------------------------------------------------------------------------
(***************************************************************************)
(* The chain.                                                              *)
(***************************************************************************)

\* What the program asks of a transaction of the keeper.
Accepts(tx) ==
  /\ tx.config = config
  /\ tx.kind = "migrate" =>
       curve[tx.mint].status = "complete" /\ tx.mint \notin Hopeless
  /\ tx.kind = "collect" => curve[tx.mint].fees > 0

Executed(tx) ==
  [curve EXCEPT ![tx.mint].fees = 0,
                ![tx.mint].status = IF tx.kind = "migrate" THEN "migrated" ELSE @]

\* Buyers pay fees and may complete the curve.
Trade(m) ==
  /\ curve[m].status = "trading"
  /\ \E fees \in curve[m].fees .. MinFees, status \in {"trading", "complete"} :
       curve' = [curve EXCEPT ![m] = [status |-> status, fees |-> fees]]
  /\ UNCHANGED <<config, flight, tick, memory, faults>>

\* A sell after the migration timeout.
Reopen(m) ==
  /\ curve[m].status = "complete"
  /\ curve' = [curve EXCEPT ![m].status = "trading"]
  /\ UNCHANGED <<config, flight, tick, memory, faults>>

\* Anyone may migrate or collect; Launchpad says to whom the SOL goes.
Crank(kind, m) ==
  LET tx == [kind |-> kind, mint |-> m, config |-> config]
  IN /\ Accepts(tx)
     /\ curve' = Executed(tx)
     /\ UNCHANGED <<config, flight, tick, memory, faults>>

\* The admin changes the fee recipient or the Raydium accounts.
UpdateConfig ==
  /\ config < MaxUpdates
  /\ config' = config + 1
  /\ UNCHANGED <<curve, flight, tick, memory, faults>>

Mine(tx) == pc = "confirming" /\ landed = "no" /\ tx = job

\* A transaction in flight is executed: it may fail, then nothing changes.
Land(tx) ==
  /\ tx \in flight
  /\ flight' = flight \ {tx}
  /\ curve' = IF Accepts(tx) THEN Executed(tx) ELSE curve
  /\ landed' = IF ~Mine(tx) THEN landed
               ELSE IF Accepts(tx) THEN "ok" ELSE "failed"
  /\ UNCHANGED <<config, pc, seen, todo, job, memory, faults>>

\* One that nobody waits for any more may expire.
Vanish(tx) ==
  /\ tx \in flight /\ ~Mine(tx)
  /\ flight' = flight \ {tx}
  /\ UNCHANGED <<onChain, tick, memory, faults>>

-----------------------------------------------------------------------------
(***************************************************************************)
(* The tick.                                                               *)
(***************************************************************************)

\* The timer fires; while a tick is running it does nothing.
Tick ==
  /\ pc = "idle"
  /\ pc' = "started"
  /\ UNCHANGED <<onChain, flight, seen, todo, job, landed, memory, faults>>

\* Mutation: the configuration is read once and kept.
LatestOnce == IF seen = 0 THEN 0 ELSE config

Latest == config

FetchConfig ==
  /\ pc = "started"
  /\ seen' = Latest
  /\ pc' = "listing"
  /\ UNCHANGED <<onChain, flight, todo, job, landed, memory, faults>>

ListComplete ==
  /\ pc = "listing"
  /\ todo' = {m \in Mints : curve[m].status = "complete"}
  /\ pc' = "migrating"
  /\ UNCHANGED <<onChain, flight, seen, job, landed, memory, faults>>

\* A mint that failed less than CoolDown ago is passed over.
PassOver(m) ==
  /\ pc = "migrating" /\ m \in todo
  /\ failures[m] > 0
  /\ todo' = todo \ {m}
  /\ UNCHANGED <<onChain, flight, pc, seen, job, landed, memory, faults>>

Begin(kind, m) ==
  /\ m \in todo
  /\ todo' = todo \ {m}
  /\ job' = [kind |-> kind, mint |-> m, config |-> seen]
  /\ pc' = "sending"
  /\ UNCHANGED <<onChain, flight, seen, landed, memory, faults>>

BeginMigration(m) ==
  pc = "migrating" /\ failures[m] = 0 /\ Begin("migrate", m)

\* Mutation: curves that owe exactly the minimum are left out.
OwesMoreThanMinimum(m) == curve[m].fees > MinFees

OwesEnough(m) == curve[m].fees >= MinFees

\* After the last migration.
ListDue ==
  /\ pc = "migrating" /\ todo = {}
  /\ pc' = "sweeping"
  /\ UNCHANGED <<onChain, flight, seen, todo, job, landed, memory, faults>>

FetchDue ==
  /\ pc = "sweeping"
  /\ todo' = {m \in Mints : curve[m].status = "trading" /\ OwesEnough(m)}
  /\ pc' = "collecting"
  /\ UNCHANGED <<onChain, flight, seen, job, landed, memory, faults>>

BeginCollection(m) == pc = "collecting" /\ Begin("collect", m)

End ==
  /\ pc = "collecting" /\ todo = {}
  /\ pc' = "idle"
  /\ UNCHANGED <<onChain, flight, seen, todo, job, landed, memory, faults>>

Resumed == IF job.kind = "migrate" THEN "migrating" ELSE "collecting"

\* send resolves.
Succeed ==
  /\ pc' = Resumed
  /\ job' = NoJob /\ landed' = "no"
  /\ failures' = IF job.kind = "migrate" THEN [failures EXCEPT ![job.mint] = 0]
                                         ELSE failures
  /\ migrated' = IF job.kind = "migrate" THEN migrated \cup {job.mint}
                                         ELSE migrated
  /\ UNCHANGED rested

\* Mutation: the next tick tries again.
NoPause == 0

Pause == CoolDown

\* send throws: a migration waits, a collection is only logged.
Fail ==
  /\ pc' = Resumed
  /\ job' = NoJob /\ landed' = "no"
  /\ IF job.kind = "migrate"
       THEN /\ failures' = [failures EXCEPT ![job.mint] = Pause]
            /\ rested' = [rested EXCEPT ![job.mint] = 0]
       ELSE UNCHANGED <<failures, rested>>
  /\ UNCHANGED migrated

\* sendTransaction returns the signature.
Send ==
  /\ pc = "sending"
  /\ flight' = flight \cup {job}
  /\ pc' = "confirming"
  /\ UNCHANGED <<onChain, seen, todo, job, landed, memory, faults>>

\* The node simulates the transaction first and refuses it.
Refuse ==
  /\ pc = "sending"
  /\ ~Accepts(job)
  /\ Fail
  /\ UNCHANGED <<onChain, flight, seen, todo, faults>>

\* Mutation: res.value.err is not looked at.
SucceededIfLanded == landed # "no"

Succeeded == landed = "ok"

\* confirmTransaction resolves, whether the transaction succeeded or failed.
Confirm ==
  /\ pc = "confirming" /\ landed # "no"
  /\ IF Succeeded THEN Succeed ELSE Fail
  /\ UNCHANGED <<onChain, flight, seen, todo, faults>>

-----------------------------------------------------------------------------
(***************************************************************************)
(* Faults and time.                                                        *)
(***************************************************************************)

Fault == faults < MaxFaults /\ faults' = faults + 1

\* A read fails: the tick ends.
ReadFails ==
  /\ pc \in {"started", "listing", "sweeping"}
  /\ Fault
  /\ pc' = "idle"
  /\ UNCHANGED <<onChain, flight, seen, todo, job, landed, memory>>

\* A request of send fails or the confirmation gives up: the transaction, if
\* it was sent, may still land.
SendFails ==
  /\ pc \in {"sending", "confirming"}
  /\ Fault
  /\ Fail
  /\ UNCHANGED <<onChain, flight, seen, todo>>

\* The blockhash expires before the transaction lands.
Expire ==
  /\ Mine(job)
  /\ Fault
  /\ flight' = flight \ {job}
  /\ Fail
  /\ UNCHANGED <<onChain, seen, todo>>

\* The process ends in the middle of anything (stop does not wait for the
\* tick) and is started again: what it remembers is lost.
Restart ==
  /\ Fault
  /\ pc' = "idle" /\ todo' = {}
  /\ job' = NoJob /\ landed' = "no"
  /\ failures' = [m \in Mints |-> 0]
  /\ rested' = [m \in Mints |-> CoolDown]
  /\ UNCHANGED <<onChain, flight, seen, migrated>>

Elapse ==
  /\ \E m \in Mints : failures[m] > 0 \/ rested[m] < CoolDown
  /\ failures' = [m \in Mints |-> IF failures[m] = 0 THEN 0 ELSE failures[m] - 1]
  /\ rested' = [m \in Mints |-> IF rested[m] = CoolDown THEN CoolDown ELSE rested[m] + 1]
  /\ UNCHANGED <<onChain, flight, tick, migrated, faults>>

-----------------------------------------------------------------------------

Init ==
  /\ curve = [m \in Mints |-> [status |-> "trading", fees |-> 0]]
  /\ config = 0
  /\ flight = {}
  /\ pc = "idle"
  /\ seen = 0
  /\ todo = {}
  /\ job = NoJob
  /\ landed = "no"
  /\ failures = [m \in Mints |-> 0]
  /\ migrated = {}
  /\ rested = [m \in Mints |-> CoolDown]
  /\ faults = 0

Running ==
  \/ Tick \/ FetchConfig \/ ListComplete \/ ListDue \/ FetchDue \/ End
  \/ \E m \in Mints : PassOver(m) \/ BeginMigration(m) \/ BeginCollection(m)
  \/ Send \/ Refuse \/ Confirm

Chain ==
  \/ \E m \in Mints :
       Trade(m) \/ Reopen(m) \/ Crank("migrate", m) \/ Crank("collect", m)
  \/ UpdateConfig
  \/ \E tx \in flight : Land(tx) \/ Vanish(tx)

Next ==
  \/ Running \/ Chain \/ Elapse
  \/ ReadFails \/ SendFails \/ Expire \/ Restart

\* The timer fires and requests are answered, time passes, and the chain
\* executes the transaction the keeper is waiting for (or Expire happens).
Fairness ==
  /\ WF_vars(Running)
  /\ WF_vars(Elapse)
  /\ WF_vars(Mine(job) /\ Land(job))

Spec == Init /\ [][Next]_vars /\ Fairness

-----------------------------------------------------------------------------
(***************************************************************************)
(* Properties.                                                             *)
(***************************************************************************)

\* keeper.ts, "graduates completed curves to Raydium as soon as they
\* complete": through stale configurations, races with other crankers, lost
\* transactions and restarts, and whatever happens to the other mints, no
\* completed curve is left behind, unless its migration cannot succeed.
EveryCurveGraduates ==
  \A m \in Mints \ Hopeless :
    curve[m].status = "complete" ~> curve[m].status # "complete"

\* The fees of a curve in trading are swept once they reach the minimum.
FeesSwept ==
  \A m \in Mints :
    curve[m].status = "trading" /\ curve[m].fees = MinFees
      ~> curve[m].status # "trading" \/ curve[m].fees < MinFees

\* What a tick reports as migrated has graduated.
TruthfulReport == \A m \in migrated : curve[m].status = "migrated"

\* A migration that failed is not tried again before the cool-down is over,
\* however long the attempts of the same tick take.
CoolDownRespected ==
  [][\A m \in Mints : BeginMigration(m) => rested[m] = CoolDown]_vars

=============================================================================
