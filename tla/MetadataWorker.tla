--------------------------- MODULE MetadataWorker ---------------------------
(***************************************************************************)
(* The metadata worker (backend/src/metadata/fetcher.ts): on a timer it    *)
(* takes some tokens without metadata from the database, fetches their     *)
(* documents side by side and saves the outcome of each.  The indexer      *)
(* inserts tokens all the while, and the process may end at any point.     *)
(***************************************************************************)
EXTENDS Naturals, FiniteSets

CONSTANTS
  Mints,
  Limit,         \* tokens per tick: 10 in the source
  MaxAttempts,   \* 5 in the source
  MaxCrashes     \* bound: ends of the process

ASSUME MetadataWorkerAssumption ==
  /\ IsFiniteSet(Mints)
  /\ Limit \in Nat \ {0}
  /\ MaxAttempts \in Nat \ {0}
  /\ MaxCrashes \in Nat

VARIABLES
  created,    \* row: created_at of a token, 0 before it is launched
  status,     \* row: metadata_status
  attempts,   \* row: metadata_attempts
  requests,   \* documents being fetched, by token
  busy,       \* a tick is under way
  crashes     \* bound: ends of the process so far

rows == <<created, status, attempts>>
vars == <<rows, requests, busy, crashes>>

-----------------------------------------------------------------------------

\* The indexer inserts a token; two may have the same block time.
Insert(m) ==
  /\ created[m] = 0
  /\ \E t \in 1 .. Cardinality(Mints) :
       /\ \A other \in Mints : t >= created[other]
       /\ created' = [created EXCEPT ![m] = t]
  /\ UNCHANGED <<status, attempts, requests, busy, crashes>>

Pending ==
  {m \in Mints : created[m] > 0 /\ status[m] = "pending" /\ attempts[m] < MaxAttempts}

\* ORDER BY metadata_attempts, created_at DESC
Precedes(a, b) ==
  \/ attempts[a] < attempts[b]
  \/ attempts[a] = attempts[b] /\ created[a] > created[b]

\* The first Limit tokens of that order; ties are in any order.
TokensNeedingMetadata ==
  {batch \in SUBSET Pending :
     /\ Cardinality(batch) <= Limit
     /\ Cardinality(batch) = Limit \/ batch = Pending
     /\ \A m \in batch, other \in Pending \ batch : ~Precedes(other, m)}

\* Mutation: a tick does not wait for the one before.
AlwaysIdle == TRUE

Idle == ~busy

Tick ==
  /\ Idle
  /\ \E batch \in TokensNeedingMetadata :
       requests' = [m \in Mints |-> requests[m] + IF m \in batch THEN 1 ELSE 0]
  /\ busy' = TRUE
  /\ UNCHANGED <<rows, crashes>>

SetMetadata(m) ==
  /\ status' = [status EXCEPT ![m] = "ok"]
  /\ attempts' = [attempts EXCEPT ![m] = @ + 1]

\* Mutation: one attempt more, which tokensNeedingMetadata never makes.
LastAttemptOffByOne(m) == attempts[m] + 1 > MaxAttempts

\* The attempt under way is the last one.
LastAttempt(m) == attempts[m] + 1 >= MaxAttempts

MetadataFailed(m) ==
  /\ status' = [status EXCEPT ![m] = IF LastAttempt(m) THEN "error" ELSE "pending"]
  /\ attempts' = [attempts EXCEPT ![m] = @ + 1]

\* A fetch ends: with the document, an error, a refusal or its deadline.
Fetched(m) ==
  /\ requests[m] > 0
  /\ requests' = [requests EXCEPT ![m] = @ - 1]

\* The document is saved if it has the right form.
Answer(m) ==
  /\ Fetched(m)
  /\ SetMetadata(m) \/ MetadataFailed(m)
  /\ UNCHANGED <<created, busy, crashes>>

\* Every fetch of the tick has ended.
End ==
  /\ busy
  /\ \A m \in Mints : requests[m] = 0
  /\ busy' = FALSE
  /\ UNCHANGED <<rows, requests, crashes>>

\* The process ends, on a signal or on an error nobody catches, and is
\* started again.  Nothing waits for the fetches, whose attempts do not count.
Crash ==
  /\ crashes < MaxCrashes
  /\ crashes' = crashes + 1
  /\ requests' = [m \in Mints |-> 0]
  /\ busy' = FALSE
  /\ UNCHANGED rows

-----------------------------------------------------------------------------

Init ==
  /\ created = [m \in Mints |-> 0]
  /\ status = [m \in Mints |-> "pending"]
  /\ attempts = [m \in Mints |-> 0]
  /\ requests = [m \in Mints |-> 0]
  /\ busy = FALSE
  /\ crashes = 0

Next ==
  \/ \E m \in Mints : Insert(m) \/ Answer(m)
  \/ Tick \/ End \/ Crash

\* The interval goes on, and every fetch ends: its deadline destroys it.
Spec ==
  /\ Init /\ [][Next]_vars
  /\ WF_vars(Tick) /\ WF_vars(End)
  /\ \A m \in Mints : WF_vars(Answer(m))

-----------------------------------------------------------------------------
(***************************************************************************)
(* Properties.                                                             *)
(***************************************************************************)

\* What was found, or given up, is never undone: two fetches of one document
\* never overlap, so no late failure overwrites a success (fetcher.ts:100-112,
\* whose busy flag is all that prevents it: the UPDATEs of db.ts:296-316 do
\* not look at the status).
SettlesOnce ==
  [][\A m \in Mints :
       status[m] # "pending" =>
         status'[m] = status[m] /\ attempts'[m] = attempts[m]]_vars

\* Every token ends with its metadata or as given up (db.ts:283-316): those
\* that fail do not keep others from their turn for ever, and none is left
\* pending without being tried.
EveryTokenSettles == \A m \in Mints : created[m] > 0 ~> status[m] # "pending"
=============================================================================
