------------------------------ MODULE Uploads ------------------------------
(***************************************************************************)
(* From an upload to the metadata of a token: POST /api/metadata           *)
(* (backend/src/api/app.ts) stores an image and the JSON document that     *)
(* names it and answers with the document's URI, somebody launches a token *)
(* with it, and the worker of MetadataWorker reads the document back.      *)
(*                                                                         *)
(* Storage is LocalStorage, with every upload of the same bytes: a file is *)
(* named by its content, so other uploads touch other files.  writeFile    *)
(* opens the file, which truncates it, and then writes.                    *)
(***************************************************************************)
EXTENDS MetadataWorker

CONSTANTS
  Local,       \* the tokens that are launched with the document uploaded here
  Slots,       \* bound: uploads under way at once
  PerWindow,   \* uploadsPerMinute
  WindowLen    \* the minute, in units of the clock

ASSUME UploadsAssumption ==
  /\ Local \subseteq Mints
  /\ IsFiniteSet(Slots)
  /\ PerWindow \in Nat \ {0}
  /\ WindowLen \in Nat \ {0}

Files == {"image", "json"}

VARIABLES
  hits,      \* the limiter's entry of one address: [count, left], 0 without one
  recent,    \* history: uploads it let through less than a window ago, [age, nr]
  slot,      \* the request in each slot: [phase, writing]
  file,      \* "absent", "partial", "whole", or "spoiled": see Put and Written
  answered   \* the URI of the document has been returned

uploadVars == <<hits, recent, slot, file, answered>>
allVars == <<vars, uploadVars>>

-----------------------------------------------------------------------------
(***************************************************************************)
(* The rate limiter.                                                       *)
(***************************************************************************)

\* Mutation: one more than the limit.
FullOffByOne == hits.left > 0 /\ hits.count > PerWindow

\* take returns false.
Full == hits.left > 0 /\ hits.count >= PerWindow

\* The entry after take returned true.
Counted ==
  IF hits.left = 0 THEN [count |-> 1, left |-> WindowLen]
  ELSE [hits EXCEPT !.count = @ + 1]

NoEntry == [count |-> 0, left |-> 0]

\* take, of another address, prunes the entries whose window is over.
Prune ==
  /\ hits.count > 0 /\ hits.left = 0
  /\ hits' = NoEntry
  /\ UNCHANGED <<vars, recent, slot, file, answered>>

\* The clock moves on.
Elapse ==
  /\ hits' = [hits EXCEPT !.left = IF @ > 0 THEN @ - 1 ELSE 0]
  /\ recent' = {[u EXCEPT !.age = @ + 1] : u \in {v \in recent : v.age + 1 < WindowLen}}
  /\ UNCHANGED <<vars, slot, file, answered>>

-----------------------------------------------------------------------------
(***************************************************************************)
(* Uploading.                                                              *)
(***************************************************************************)

Free == [phase |-> "free", writing |-> FALSE]

\* The uploads of this moment are told apart by their numbers.
JustNow == {u \in recent : u.age = 0}

\* A request that is let through; its body is still to be read.
Receive(s) ==
  /\ slot[s] = Free
  /\ ~Full
  /\ hits' = Counted
  /\ recent' = recent \cup {[age |-> 0, nr |-> Cardinality(JustNow) + 1]}
  /\ slot' = [slot EXCEPT ![s].phase = "parsing"]
  /\ UNCHANGED <<vars, file, answered>>

\* A field or the image is not accepted, or a write fails.
Reject(s) ==
  /\ slot[s].phase = "parsing" \/ slot[s].writing
  /\ slot' = [slot EXCEPT ![s] = Free]
  /\ UNCHANGED <<vars, hits, recent, file, answered>>

\* writeFile opens f, and spoils it if it had been stored.
Put(s, f) ==
  /\ slot' = [slot EXCEPT ![s] = [phase |-> f, writing |-> TRUE]]
  /\ file' = [file EXCEPT ![f] = IF @ \in {"absent", "partial"} THEN "partial"
                                ELSE "spoiled"]

Writers(f) == {s \in Slots : slot[s].phase = f /\ slot[s].writing}

\* The bytes are written; who opened the file in the meantime, and has it open
\* still, may have cut what was written by then, which spoils it.
Written(s) ==
  LET f == slot[s].phase
  IN /\ slot[s].writing
     /\ slot' = [slot EXCEPT ![s].writing = FALSE]
     /\ \/ file' = [file EXCEPT ![f] = "whole"]
        \/ /\ Writers(f) # {s}
           /\ file' = [file EXCEPT ![f] = IF @ = "whole" THEN @ ELSE "spoiled"]
     /\ UNCHANGED <<vars, hits, recent, answered>>

\* Mutation: nobody waits for the file.
NotAwaited(s) == TRUE

\* The promise of put is fulfilled.
Awaited(s) == ~slot[s].writing

StoreImage(s) ==
  /\ slot[s].phase = "parsing"
  /\ Put(s, "image")
  /\ UNCHANGED <<vars, hits, recent, answered>>

StoreJson(s) ==
  /\ slot[s].phase = "image" /\ Awaited(s)
  /\ Put(s, "json")
  /\ UNCHANGED <<vars, hits, recent, answered>>

\* A URI longer than 200 bytes is not returned, although its files are stored.
Respond(s) ==
  /\ slot[s].phase = "json" /\ Awaited(s)
  /\ slot' = [slot EXCEPT ![s] = Free]
  /\ answered' \in {answered, TRUE}
  /\ UNCHANGED <<vars, hits, recent, file>>

-----------------------------------------------------------------------------
(***************************************************************************)
(* The tokens.                                                             *)
(***************************************************************************)

\* A token is launched with the document uploaded here, or with another one.
Launch(m) ==
  /\ m \in Local => answered
  /\ Insert(m)
  /\ UNCHANGED uploadVars

\* createResolver reads a local document from disk: it parses if it is whole.
Resolve(m) ==
  /\ Answer(m)
  /\ m \in Local => (status'[m] = "ok" <=> file["json"] = "whole")
  /\ UNCHANGED uploadVars

\* The uploads end with the process; what was being written stays as it is,
\* and the limiter starts afresh.
Stop ==
  /\ Crash
  /\ slot' = [s \in Slots |-> Free]
  /\ hits' = NoEntry
  /\ recent' = {}
  /\ UNCHANGED <<file, answered>>

-----------------------------------------------------------------------------

UploadsInit ==
  /\ Init
  /\ hits = NoEntry
  /\ recent = {}
  /\ slot = [s \in Slots |-> Free]
  /\ file = [f \in Files |-> "absent"]
  /\ answered = FALSE

Upload(s) ==
  \/ Receive(s) \/ Reject(s)
  \/ StoreImage(s) \/ Written(s) \/ StoreJson(s) \/ Respond(s)

Worker == (Tick \/ End) /\ UNCHANGED uploadVars

UploadsNext ==
  \/ \E s \in Slots : Upload(s)
  \/ Elapse \/ Prune
  \/ \E m \in Mints : Launch(m) \/ Resolve(m)
  \/ Worker
  \/ Stop

\* The worker's timer goes on and every read or fetch ends.
UploadsSpec ==
  /\ UploadsInit /\ [][UploadsNext]_allVars
  /\ WF_allVars(Worker)
  /\ \A m \in Mints : WF_allVars(Resolve(m))

-----------------------------------------------------------------------------
(***************************************************************************)
(* Properties.                                                             *)
(***************************************************************************)

\* The fixed window lets through less than twice its limit in any span of its
\* length, and refuses nobody who has not had the full limit within one
\* ("retry in a minute", app.ts:218, rate-limit.ts:10-20).
UploadsBounded ==
  LET passed == Cardinality(recent)
  IN passed < 2 * PerWindow /\ (Full => passed >= PerWindow)

\* When the URI of a document has been returned, the document and its image
\* are there in full (app.ts:246-256), also after a failed upload or an end of
\* the process, except for a file that was stored and then spoiled by an upload
\* of the same bytes.
UrisResolve == answered => \A f \in Files : file[f] \in {"whole", "spoiled"}

\* "Files are content-addressed, uploading the same bytes twice is harmless"
\* (storage.ts:10): once a URI has been returned, its files are there in full,
\* leaving aside the time it takes to write them again.
ReuploadIsHarmless ==
  answered => \A f \in Files : file[f] = "whole" \/ Writers(f) # {}

=============================================================================
