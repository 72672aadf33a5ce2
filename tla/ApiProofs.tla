---------------------------- MODULE ApiProofs ----------------------------
(***************************************************************************)
(* What holds of the two handlers of the API and of the metadata worker,   *)
(* for any number of uploads, tokens, attempts, ends of the process and    *)
(* events.                                                                 *)
(***************************************************************************)
EXTENDS Uploads, LiveStream, FiniteSetTheorems, TLAPS

-----------------------------------------------------------------------------
(***************************************************************************)
(* The files.                                                              *)
(***************************************************************************)

SlotStates ==
  [phase : {"free", "parsing"} \cup Files, writing : BOOLEAN]

UploadTypes ==
  /\ slot \in [Slots -> SlotStates]
  /\ file \in [Files -> {"absent", "partial", "whole", "spoiled"}]

Stored(f) == file[f] \in {"whole", "spoiled"}

\* A request has stored what it goes on from.
Progressed ==
  \A s \in Slots :
    /\ slot[s].writing => slot[s].phase \in Files
    /\ slot[s].phase = "image" /\ ~slot[s].writing => Stored("image")
    /\ slot[s].phase = "json" => Stored("image")
    /\ slot[s].phase = "json" /\ ~slot[s].writing => Stored("json")

FilesInv == UploadTypes /\ Progressed /\ UrisResolve

\* What none of the steps of the worker and of the limiter touches.
FilesKept == UNCHANGED <<slot, file, answered>>

LEMMA KeptIsEnough == FilesInv /\ FilesKept => FilesInv'
  BY DEF FilesInv, FilesKept, UploadTypes, Progressed, UrisResolve,
         Stored

LEMMA FilesAtFirst == UploadsInit => FilesInv
  BY DEF UploadsInit, FilesInv, UploadTypes, SlotStates, Progressed,
         UrisResolve, Stored, Free, Files

\* Opening a file never undoes what was stored.
LEMMA PutKeeps ==
  ASSUME FilesInv, NEW s \in Slots, NEW f \in Files, Put(s, f),
         ~slot[s].writing, f = "json" => Stored("image"), UNCHANGED answered
  PROVE  FilesInv'
  <1>1. UploadTypes'
    BY DEF FilesInv, UploadTypes, SlotStates, Put
  <1>2. \A g \in Files : Stored(g) => Stored(g)'
    BY DEF FilesInv, UploadTypes, Put, Stored
  <1>3. Progressed'
    BY <1>2 DEF FilesInv, UploadTypes, SlotStates, Progressed, Put, Stored, Files
  <1>4. UrisResolve'
    BY <1>2 DEF FilesInv, UrisResolve, Stored
  <1> QED BY <1>1, <1>3, <1>4 DEF FilesInv

\* Who has written a file has stored it, whoever else has it open.
LEMMA WrittenKeeps ==
  ASSUME FilesInv, NEW s \in Slots, Written(s)
  PROVE  FilesInv'
  <1>1. PICK f \in Files : f = slot[s].phase /\ slot[s].writing
    BY DEF FilesInv, Progressed, Written
  <1>2. PICK stored \in {"whole", "spoiled"} : file' = [file EXCEPT ![f] = stored]
    BY <1>1 DEF Written
  <1>3. file'[f] \in {"whole", "spoiled"}
    BY <1>2 DEF FilesInv, UploadTypes
  <1>4. \A g \in Files : g # f => file'[g] = file[g]
    BY <1>2 DEF FilesInv, UploadTypes
  <1>5. \A g \in Files : Stored(g) => Stored(g)'
    BY <1>3, <1>4 DEF Stored
  <1>6. slot' = [slot EXCEPT ![s] = [slot[s] EXCEPT !.writing = FALSE]]
    BY DEF Written
  <1>7. UploadTypes'
    <2>1. slot' \in [Slots -> SlotStates]
      BY <1>6 DEF FilesInv, UploadTypes, SlotStates
    <2>2. file' \in [Files -> {"absent", "partial", "whole", "spoiled"}]
      BY <1>2 DEF FilesInv, UploadTypes
    <2> QED BY <2>1, <2>2 DEF UploadTypes
  <1>8. \A t \in Slots : /\ slot'[t].phase = slot[t].phase
                         /\ t # s => slot'[t] = slot[t]
                         /\ slot'[s].writing = FALSE
    BY <1>6 DEF FilesInv, UploadTypes, SlotStates
  <1>9. Progressed'
    <2>1. Stored(f)' /\ slot[s].phase = f
      BY <1>1, <1>3 DEF Stored
    <2>2. /\ Stored("image") => Stored("image")'
          /\ Stored("json") => Stored("json")'
      BY <1>5 DEF Files
    <2> QED BY <1>8, <2>1, <2>2 DEF FilesInv, Progressed
  <1>10. UrisResolve'
    BY <1>5 DEF FilesInv, UrisResolve, Stored, Written
  <1> QED BY <1>7, <1>9, <1>10 DEF FilesInv

\* A request that is refused, or the end of them all, leaves the files alone.
LEMMA GivingUpKeeps ==
  ASSUME FilesInv, UNCHANGED <<file, answered>>,
         \/ \E s \in Slots : slot' = [slot EXCEPT ![s] = Free]
         \/ slot' = [s \in Slots |-> Free]
  PROVE  FilesInv'
  <1>1. Free \in SlotStates
    BY DEF Free, SlotStates
  <1>2. slot' \in [Slots -> SlotStates]
        /\ \A s \in Slots : slot'[s] = slot[s] \/ slot'[s] = Free
    BY <1>1 DEF FilesInv, UploadTypes
  <1>3. Progressed'
    BY <1>2 DEF FilesInv, Progressed, Free, Stored, Files
  <1> QED BY <1>2, <1>3 DEF FilesInv, UploadTypes, UrisResolve

LEMMA FilesStep == FilesInv /\ [UploadsNext]_allVars => FilesInv'
  <1> SUFFICES ASSUME FilesInv, [UploadsNext]_allVars
               PROVE  FilesInv'
    OBVIOUS
  <1>1. ASSUME NEW s \in Slots, Receive(s)
        PROVE  FilesInv'
    <2>1. slot' = [slot EXCEPT ![s].phase = "parsing"] /\ slot[s] = Free
      BY <1>1 DEF Receive
    <2>2. UploadTypes'
      BY <1>1, <2>1 DEF Receive, FilesInv, UploadTypes, SlotStates
    <2>3. Progressed'
      BY <1>1, <2>1 DEF Receive, FilesInv, UploadTypes, SlotStates, Progressed,
                        Free, Stored
    <2> QED BY <1>1, <2>2, <2>3 DEF Receive, FilesInv, UrisResolve
  <1>2. ASSUME NEW s \in Slots, Reject(s)
        PROVE  FilesInv'
    BY <1>2, GivingUpKeeps DEF Reject
  <1>3. ASSUME NEW s \in Slots, StoreImage(s)
        PROVE  FilesInv'
    <2>1. ~slot[s].writing
      BY <1>3 DEF StoreImage, FilesInv, Progressed, UploadTypes, SlotStates, Files
    <2>2. "image" \in Files /\ Put(s, "image") /\ UNCHANGED answered
      BY <1>3 DEF StoreImage, Files
    <2> QED BY <2>1, <2>2, PutKeeps
  <1>4. ASSUME NEW s \in Slots, StoreJson(s)
        PROVE  FilesInv'
    <2>1. ~slot[s].writing /\ Stored("image")
      BY <1>4 DEF StoreJson, Awaited, FilesInv, Progressed
    <2>2. "json" \in Files /\ Put(s, "json") /\ UNCHANGED answered
      BY <1>4 DEF StoreJson, Files
    <2> QED BY <2>1, <2>2, PutKeeps
  <1>5. ASSUME NEW s \in Slots, Respond(s)
        PROVE  FilesInv'
    <2>1. Stored("image") /\ Stored("json")
      BY <1>5 DEF Respond, Awaited, FilesInv, Progressed
    <2>2. UrisResolve'
      BY <1>5, <2>1 DEF Respond, UrisResolve, Stored, Files
    <2>3. UploadTypes' /\ \A t \in Slots : slot'[t] = slot[t] \/ slot'[t] = Free
      BY <1>5 DEF Respond, FilesInv, UploadTypes, SlotStates, Free
    <2>4. Progressed'
      BY <1>5, <2>3 DEF Respond, FilesInv, Progressed, Free, Stored, Files
    <2> QED BY <2>2, <2>3, <2>4 DEF FilesInv
  <1>6. CASE Stop
    BY <1>6, GivingUpKeeps DEF Stop
  <1>7. CASE \/ Elapse \/ Prune \/ Worker \/ UNCHANGED allVars
             \/ \E m \in Mints : Launch(m) \/ Resolve(m)
    BY <1>7, KeptIsEnough
       DEF FilesKept, Elapse, Prune, Worker, Launch, Resolve, uploadVars, allVars
  <1> QED BY <1>1, <1>2, <1>3, <1>4, <1>5, <1>6, <1>7, WrittenKeeps
          DEF UploadsNext, Upload

\* A URI that was returned names files that are there in full, or that a later
\* upload of the same bytes spoiled: for any number of uploads at once, some of
\* them failing, and any number of ends of the process.
THEOREM AnswersResolve == UploadsSpec => []UrisResolve
  <1>1. FilesInv => UrisResolve
    BY DEF FilesInv
  <1> QED BY <1>1, FilesAtFirst, FilesStep, PTL DEF UploadsSpec

-----------------------------------------------------------------------------
(***************************************************************************)
(* The worker.                                                             *)
(***************************************************************************)

\* A document is fetched at most once at a time, by the tick under way, and
\* for a token that is not settled.
WorkerInv ==
  /\ requests \in [Mints -> {0, 1}]
  /\ status \in [Mints -> {"pending", "ok", "error"}]
  /\ attempts \in [Mints -> Nat]
  /\ \A m \in Mints : requests[m] = 1 => busy /\ status[m] = "pending"

LEMMA WorkerAtFirst == UploadsInit => WorkerInv
  BY DEF UploadsInit, Init, WorkerInv

\* The steps of a worker that does not answer, and those of the uploads.
Untouched == UNCHANGED <<status, attempts, requests, busy>>

LEMMA AnswerStep ==
  ASSUME WorkerInv, NEW m \in Mints, Answer(m)
  PROVE  /\ WorkerInv'
         /\ \A n \in Mints : status[n] # "pending" =>
              status'[n] = status[n] /\ attempts'[n] = attempts[n]
  <1>1. requests[m] = 1 /\ requests' = [requests EXCEPT ![m] = 0]
    <2>1. requests[m] \in {0, 1} /\ requests[m] > 0
      BY DEF Answer, Fetched, WorkerInv
    <2>2. requests[m] = 1 /\ requests[m] - 1 = 0
      BY <2>1
    <2>3. requests' = [requests EXCEPT ![m] = requests[m] - 1]
      BY DEF Answer, Fetched
    <2> QED BY <2>2, <2>3
  <1>2. attempts' = [attempts EXCEPT ![m] = @ + 1]
    BY DEF Answer, SetMetadata, MetadataFailed
  <1>3. \E outcome \in {"pending", "ok", "error"} :
          status' = [status EXCEPT ![m] = outcome]
    BY DEF Answer, SetMetadata, MetadataFailed
  <1>4. status[m] = "pending" /\ busy' = busy
    BY <1>1 DEF Answer, WorkerInv
  <1>5. WorkerInv'
    BY <1>1, <1>2, <1>3, <1>4 DEF WorkerInv
  <1> QED BY <1>2, <1>3, <1>4, <1>5 DEF WorkerInv

LEMMA WorkerStep ==
  ASSUME WorkerInv, [UploadsNext]_allVars
  PROVE  /\ WorkerInv'
         /\ \A n \in Mints : status[n] # "pending" =>
              status'[n] = status[n] /\ attempts'[n] = attempts[n]
  <1>1. CASE Tick
    <2>1. PICK batch \in TokensNeedingMetadata :
            requests' = [m \in Mints |-> requests[m] + IF m \in batch THEN 1 ELSE 0]
      BY <1>1 DEF Tick
    <2>2. batch \subseteq Pending
      BY DEF TokensNeedingMetadata
    <2>3. \A m \in Mints : requests[m] = 0
      BY <1>1 DEF Tick, Idle, WorkerInv
    <2>4. \A m \in Mints :
            requests'[m] \in {0, 1} /\ (requests'[m] = 1 => status[m] = "pending")
      BY <2>1, <2>2, <2>3 DEF Pending
    <2>5. busy' = TRUE /\ status' = status /\ attempts' = attempts
      BY <1>1 DEF Tick, rows
    <2> QED BY <2>1, <2>4, <2>5 DEF WorkerInv
  <1>2. CASE End
    BY <1>2 DEF End, rows, WorkerInv
  <1>3. CASE Stop
    BY <1>3 DEF Stop, Crash, rows, WorkerInv
  <1>4. ASSUME NEW m \in Mints, Resolve(m)
        PROVE  /\ WorkerInv'
               /\ \A n \in Mints : status[n] # "pending" =>
                    status'[n] = status[n] /\ attempts'[n] = attempts[n]
    BY <1>4, AnswerStep DEF Resolve
  <1>5. CASE Untouched
    BY <1>5 DEF Untouched, WorkerInv
  <1>6. ASSUME \/ \E s \in Slots : Upload(s)
               \/ Elapse \/ Prune \/ UNCHANGED allVars
               \/ \E m \in Mints : Launch(m)
        PROVE  Untouched
    BY <1>6 DEF Untouched, Upload, Receive, Reject, StoreImage, Written, StoreJson,
                Respond, Elapse, Prune, Launch, Insert, vars, rows, allVars
  <1> QED BY <1>1, <1>2, <1>3, <1>4, <1>5, <1>6 DEF UploadsNext, Worker

\* No late answer overwrites what was found or given up, for any number of
\* tokens, tokens per tick and attempts.
THEOREM SettledStaysSettled == UploadsSpec => SettlesOnce
  <1>1. WorkerInv /\ [UploadsNext]_allVars => WorkerInv'
    BY WorkerStep
  <1>2. WorkerInv /\ [UploadsNext]_allVars =>
          [\A m \in Mints :
             status[m] # "pending" =>
               status'[m] = status[m] /\ attempts'[m] = attempts[m]]_vars
    BY WorkerStep
  <1> QED BY <1>1, <1>2, WorkerAtFirst, PTL DEF UploadsSpec, SettlesOnce

-----------------------------------------------------------------------------
(***************************************************************************)
(* The rate limiter.  The uploads of the last WindowLen units of time are  *)
(* those of the window under way, which the entry counts, and what is left *)
(* of the window before.  A window begins with an upload, and when that    *)
(* one is forgotten the window is over: of the window before, one upload   *)
(* at least is never among the recent ones.                                *)
(***************************************************************************)

Uploaded == [age : 0 .. WindowLen - 1, nr : Nat]

\* Uploads of the window under way, and of those before it.
Current == {u \in recent : hits.left > 0 /\ u.age + hits.left <= WindowLen}
Past == {u \in recent : ~(hits.left > 0 /\ u.age + hits.left <= WindowLen)}

LimiterInv ==
  /\ hits \in [count : Nat, left : 0 .. WindowLen]
  /\ recent \subseteq Uploaded /\ IsFiniteSet(recent)
  /\ \A u \in JustNow : u.nr <= Cardinality(JustNow)
  /\ hits.left = 0 => JustNow = {}
  /\ hits.left > 0 =>
       /\ hits.count = Cardinality(Current) /\ hits.count <= PerWindow
       /\ \E u \in Current : u.age + hits.left = WindowLen
  /\ Cardinality(Past) < PerWindow

LEMMA PartsFinite ==
  ASSUME IsFiniteSet(recent)
  PROVE  /\ IsFiniteSet(Current) /\ Cardinality(Current) \in Nat
         /\ IsFiniteSet(Past) /\ Cardinality(Past) \in Nat
         /\ IsFiniteSet(JustNow) /\ Cardinality(JustNow) \in Nat
  <1>1. Current \subseteq recent /\ Past \subseteq recent /\ JustNow \subseteq recent
    BY DEF Current, Past, JustNow
  <1> QED BY <1>1, FS_Subset, FS_CardinalityType

Older(u) == [u EXCEPT !.age = @ + 1]

\* Time does not merge uploads: a set of them grows older as it is.
LEMMA OlderKeepsCount ==
  ASSUME NEW S, S \subseteq [age : Nat, nr : Nat], IsFiniteSet(S)
  PROVE  LET T == {Older(u) : u \in S}
         IN  IsFiniteSet(T) /\ Cardinality(T) = Cardinality(S)
  <1> DEFINE T == {Older(u) : u \in S}
             f == [u \in S |-> Older(u)]
  <1>1. ASSUME NEW u \in S, NEW v \in S, Older(u) = Older(v)
        PROVE  u = v
    <2>1. u \in [age : Nat, nr : Nat] /\ v \in [age : Nat, nr : Nat]
      OBVIOUS
    <2>2. /\ Older(u).age = u.age + 1 /\ Older(u).nr = u.nr
          /\ Older(v).age = v.age + 1 /\ Older(v).nr = v.nr
      BY <2>1 DEF Older
    <2>3. u.age = v.age /\ u.nr = v.nr
      BY <1>1, <2>1, <2>2
    <2> QED BY <2>1, <2>3
  <1>2. f \in Surjection(S, T)
    BY DEF Surjection
  <1>3. f \in Injection(S, T)
    BY <1>1 DEF Injection, IsInjective
  <1> HIDE DEF f, T
  <1>4. IsFiniteSet(T) /\ Cardinality(T) = Cardinality(S)
    BY <1>2, <1>3, FS_Surjection
  <1> QED BY <1>4 DEF T

LEMMA LimiterAtFirst == UploadsInit => LimiterInv
  <1> SUFFICES ASSUME UploadsInit PROVE LimiterInv
    OBVIOUS
  <1>1. hits = [count |-> 0, left |-> 0] /\ recent = {}
    BY DEF UploadsInit, NoEntry
  <1>2. Past = {} /\ JustNow = {}
    BY <1>1 DEF Past, JustNow
  <1> QED BY <1>1, <1>2, FS_EmptySet, UploadsAssumption DEF LimiterInv

\* An upload that is let through.
LEMMA ReceiveCounts ==
  ASSUME LimiterInv, NEW s \in Slots, Receive(s)
  PROVE  LimiterInv'
  <1> DEFINE k == Cardinality(JustNow)
             new == [age |-> 0, nr |-> k + 1]
  <1>1. /\ hits \in [count : Nat, left : 0 .. WindowLen] /\ PerWindow \in Nat \ {0}
        /\ recent \subseteq Uploaded /\ IsFiniteSet(recent) /\ WindowLen \in Nat \ {0}
    BY UploadsAssumption DEF LimiterInv
  <1>2. recent' = recent \cup {new} /\ hits' = Counted /\ ~Full
    BY DEF Receive
  <1>3. /\ IsFiniteSet(Current) /\ IsFiniteSet(Past) /\ IsFiniteSet(JustNow)
        /\ k \in Nat
    BY <1>1, PartsFinite
  <1>4. new \in Uploaded /\ new.age = 0 /\ new.nr = k + 1
    BY <1>1, <1>3 DEF Uploaded
  <1>5. new \notin recent
    BY <1>3, <1>4 DEF LimiterInv, JustNow
  <1> HIDE DEF k, new
  <1>6. recent' \subseteq Uploaded /\ IsFiniteSet(recent')
    BY <1>1, <1>2, <1>4, FS_AddElement
  <1>7. JustNow' = JustNow \cup {new}
    BY <1>2, <1>4 DEF JustNow
  <1>8. Cardinality(JustNow') = k + 1
    BY <1>3, <1>5, <1>7, FS_AddElement DEF JustNow, k
  <1>9. \A u \in JustNow' : u.nr <= Cardinality(JustNow')
    <2>1. \A u \in JustNow : u.nr \in Nat /\ u.nr <= k
      BY <1>1 DEF LimiterInv, JustNow, Uploaded, k
    <2> QED BY <1>3, <1>4, <1>7, <1>8, <2>1
  <1>10. CASE hits.left = 0
    <2>1. hits' = [count |-> 1, left |-> WindowLen]
      BY <1>2, <1>10 DEF Counted
    <2>2. \A u \in recent : u.age # 0 /\ u.age \in Nat
      BY <1>1, <1>10 DEF LimiterInv, JustNow, Uploaded
    <2>3. Current' = {new} /\ Past' = Past
      BY <1>1, <1>2, <1>4, <1>10, <2>1, <2>2 DEF Current, Past
    <2>4. Cardinality(Current)' = 1
      BY <2>3, FS_Singleton
    <2> QED BY <1>1, <1>4, <1>6, <1>9, <2>1, <2>3, <2>4 DEF LimiterInv
  <1>11. CASE hits.left # 0
    <2>1. hits.left > 0 /\ hits.count < PerWindow /\ hits.count = Cardinality(Current)
      BY <1>1, <1>2, <1>11 DEF LimiterInv, Full
    <2>2. hits'.left = hits.left /\ hits'.count = hits.count + 1
          /\ hits' \in [count : Nat, left : 0 .. WindowLen]
      BY <1>1, <1>2, <1>11 DEF Counted
    <2>3. Current' = Current \cup {new} /\ Past' = Past
      BY <1>1, <1>2, <1>4, <2>1, <2>2 DEF Current, Past
    <2>4. Cardinality(Current)' = Cardinality(Current) + 1
      BY <1>3, <1>5, <2>3, FS_AddElement DEF Current
    <2>5. \E u \in Current' : u.age + hits'.left = WindowLen
      BY <2>1, <2>2, <2>3 DEF LimiterInv
    <2> QED BY <1>1, <1>6, <1>9, <2>1, <2>2, <2>3, <2>4, <2>5 DEF LimiterInv
  <1> QED BY <1>10, <1>11

\* The clock moves on.
LEMMA ElapseCounts ==
  ASSUME LimiterInv, Elapse
  PROVE  LimiterInv'
  <1> DEFINE young == {u \in recent : u.age + 1 < WindowLen}
  <1>1. /\ hits \in [count : Nat, left : 0 .. WindowLen] /\ PerWindow \in Nat \ {0}
        /\ recent \subseteq Uploaded /\ IsFiniteSet(recent) /\ WindowLen \in Nat \ {0}
    BY UploadsAssumption DEF LimiterInv
  <1>2. recent' = {Older(u) : u \in young}
    BY DEF Elapse, Older
  <1>3. /\ hits'.count = hits.count
        /\ hits'.left = IF hits.left > 0 THEN hits.left - 1 ELSE 0
        /\ hits' \in [count : Nat, left : 0 .. WindowLen]
    BY <1>1 DEF Elapse
  <1>4. \A u \in recent : u \in [age : Nat, nr : Nat] /\ u.age \in Nat /\ u.nr \in Nat
    BY <1>1 DEF Uploaded
  <1>5. \A u \in recent : Older(u).age = u.age + 1 /\ Older(u).nr = u.nr
    BY <1>4 DEF Older
  <1>6. young \subseteq recent /\ IsFiniteSet(young)
    BY <1>1, FS_Subset
  <1>7. ASSUME NEW S, S \subseteq recent
        PROVE  /\ IsFiniteSet({Older(u) : u \in S})
               /\ Cardinality({Older(u) : u \in S}) = Cardinality(S)
    <2>1. S \subseteq [age : Nat, nr : Nat] /\ IsFiniteSet(S)
      BY <1>1, <1>4, <1>7, FS_Subset
    <2> QED BY <2>1, OlderKeepsCount
  <1>8. recent' \subseteq Uploaded /\ IsFiniteSet(recent')
    <2>1. ASSUME NEW u \in young PROVE Older(u) \in Uploaded
      <3>1. u \in recent /\ u.age + 1 \in 0 .. WindowLen - 1
        BY <1>1, <1>4
      <3>2. Older(u) = [age |-> u.age + 1, nr |-> u.nr]
        BY <1>4, <3>1 DEF Older
      <3> QED BY <1>4, <3>1, <3>2 DEF Uploaded
    <2> HIDE DEF young
    <2> QED BY <1>2, <1>6, <1>7, <2>1
  <1>9. JustNow' = {}
    <2>1. \A u \in young : Older(u).age # 0
      BY <1>4, <1>5
    <2> HIDE DEF young
    <2> QED BY <1>2, <2>1 DEF JustNow
  <1>10. IsFiniteSet(Past) /\ Cardinality(Past) \in Nat
         /\ IsFiniteSet(Current) /\ Cardinality(Current) \in Nat
    BY <1>1, PartsFinite
  <1>11. CASE hits.left > 1
    <2>1. hits'.left = hits.left - 1 /\ hits'.left > 0
      BY <1>1, <1>3, <1>11
    <2>2. \A u \in recent : Older(u).age + hits'.left = u.age + hits.left
      BY <1>1, <1>4, <1>5, <2>1
    <2>3. \A u \in Current : u \in young
      BY <1>1, <1>4, <1>11 DEF Current
    <2>4. Current' = {Older(u) : u \in Current}
      <3>1. \A u \in young : u \in Current <=> Older(u).age + hits'.left <= WindowLen
        <4>1. ASSUME NEW u \in young
              PROVE  u \in Current <=> Older(u).age + hits'.left <= WindowLen
          <5>1. u \in recent /\ hits.left > 0
            BY <1>1, <1>6, <1>11
          <5>2. Older(u).age + hits'.left = u.age + hits.left
            BY <2>2, <5>1
          <5> QED BY <5>1, <5>2 DEF Current
        <4> HIDE DEF young
        <4> QED BY <4>1
      <3> HIDE DEF young
      <3>2. Current' = {v \in recent' : v.age + hits'.left <= WindowLen}
        BY <2>1 DEF Current
      <3> QED BY <1>2, <2>3, <3>1, <3>2
    <2>5. Past' \subseteq {Older(u) : u \in Past}
      <3>1. ASSUME NEW u \in young, ~(Older(u).age + hits'.left <= WindowLen)
            PROVE  u \in Past
        BY <1>6, <2>2, <3>1 DEF Past
      <3> HIDE DEF young
      <3>2. Past' = {v \in recent' : ~(v.age + hits'.left <= WindowLen)}
        BY <2>1 DEF Past
      <3> QED BY <1>2, <3>1, <3>2
    <2>6. Cardinality(Current') = Cardinality(Current)
      BY <1>7, <2>4 DEF Current
    <2>7. Cardinality(Past') <= Cardinality(Past)
      <3>1. /\ IsFiniteSet({Older(u) : u \in Past})
            /\ Cardinality({Older(u) : u \in Past}) = Cardinality(Past)
        BY <1>7 DEF Past
      <3> QED BY <2>5, <3>1, FS_Subset
    <2>8. \E v \in Current' : v.age + hits'.left = WindowLen
      <3>1. PICK u \in Current : u.age + hits.left = WindowLen
        BY <1>11 DEF LimiterInv
      <3> QED BY <2>2, <2>4, <3>1 DEF Current
    <2>9. Cardinality(Past') \in Nat
      BY <1>8, FS_Subset, FS_CardinalityType DEF Past
    <2> QED BY <1>1, <1>3, <1>8, <1>9, <1>10, <1>11, <2>1, <2>6, <2>7, <2>8, <2>9
            DEF LimiterInv
  <1>12. CASE hits.left <= 1
    <2>1. hits'.left = 0
      BY <1>1, <1>3, <1>12
    <2>2. Past' = {Older(u) : u \in young}
      BY <1>2, <2>1 DEF Past
    <2>3. Cardinality(Past') = Cardinality(young)
      BY <1>6, <1>7, <2>2
    <2>4. Cardinality(young) < PerWindow
      <3>1. CASE hits.left = 0
        <4>1. young \subseteq Past
          BY <1>6, <3>1 DEF Past
        <4>2. Cardinality(young) <= Cardinality(Past) /\ Cardinality(young) \in Nat
          BY <1>6, <1>10, <4>1, FS_Subset, FS_CardinalityType
        <4> QED BY <1>1, <1>10, <4>2 DEF LimiterInv
      <3>2. CASE hits.left = 1
        <4>1. PICK first \in Current : first.age + 1 = WindowLen
          BY <3>2 DEF LimiterInv
        <4>2. young \subseteq Current \ {first}
          BY <1>1, <1>4, <3>2, <4>1 DEF Current
        <4>3. /\ IsFiniteSet(Current \ {first})
              /\ Cardinality(Current \ {first}) = Cardinality(Current) - 1
          BY <1>10, FS_RemoveElement
        <4>4. Cardinality(young) <= Cardinality(Current) - 1 /\ Cardinality(young) \in Nat
          BY <1>6, <4>2, <4>3, FS_Subset, FS_CardinalityType
        <4>5. Cardinality(Current) <= PerWindow
          BY <3>2 DEF LimiterInv
        <4> QED BY <1>1, <1>10, <4>4, <4>5
      <3> QED BY <1>1, <1>12, <3>1, <3>2
    <2> QED BY <1>3, <1>8, <1>9, <2>1, <2>3, <2>4 DEF LimiterInv
  <1> QED BY <1>1, <1>11, <1>12

LEMMA LimiterStep == LimiterInv /\ [UploadsNext]_allVars => LimiterInv'
  <1> SUFFICES ASSUME LimiterInv, [UploadsNext]_allVars PROVE LimiterInv'
    OBVIOUS
  <1>1. CASE UNCHANGED <<hits, recent>>
    BY <1>1 DEF LimiterInv, Current, Past, JustNow
  <1>2. CASE Stop
    <2>1. hits' = [count |-> 0, left |-> 0] /\ recent' = {}
      BY <1>2 DEF Stop, NoEntry
    <2>2. Past' = {} /\ JustNow' = {}
      BY <2>1 DEF Past, JustNow
    <2> QED BY <2>1, <2>2, FS_EmptySet, UploadsAssumption DEF LimiterInv
  <1>3. CASE Prune
    <2>1. hits.left = 0 /\ hits' = [count |-> 0, left |-> 0] /\ recent' = recent
      BY <1>3 DEF Prune, NoEntry
    <2>2. Past' = Past /\ JustNow' = JustNow
      BY <2>1 DEF Past, JustNow
    <2> QED BY <2>1, <2>2, UploadsAssumption DEF LimiterInv
  <1>4. ASSUME \/ \E s \in Slots : Upload(s) /\ ~Receive(s)
               \/ Worker \/ UNCHANGED allVars
               \/ \E m \in Mints : Launch(m) \/ Resolve(m)
        PROVE  UNCHANGED <<hits, recent>>
    BY <1>4 DEF Upload, Reject, StoreImage, Written, StoreJson, Respond, Worker, Launch,
                Resolve, uploadVars, allVars
  <1> QED BY <1>1, <1>2, <1>3, <1>4, ReceiveCounts, ElapseCounts DEF UploadsNext

\* rate-limit.ts:10-20: in any span of a window's length the fixed window lets
\* through less than twice its limit, and who is refused has had the full limit
\* within one window, for every limit and window.
THEOREM LimitHolds == UploadsSpec => []UploadsBounded
  <1>1. ASSUME LimiterInv PROVE UploadsBounded
    <2>1. /\ IsFiniteSet(Current) /\ Cardinality(Current) \in Nat
          /\ IsFiniteSet(Past) /\ Cardinality(Past) \in Nat
      BY <1>1, PartsFinite DEF LimiterInv
    <2>2. recent = Current \cup Past /\ Current \cap Past = {}
      BY DEF Current, Past
    <2>3. Cardinality(recent) = Cardinality(Current) + Cardinality(Past)
      <3>1. Cardinality({}) = 0
        BY FS_EmptySet
      <3>2. Cardinality(Current \cup Past)
              = Cardinality(Current) + Cardinality(Past) - Cardinality(Current \cap Past)
        BY <2>1, FS_Union
      <3>3. /\ Cardinality(Current \cup Past) = Cardinality(recent)
            /\ Cardinality(Current \cap Past) = 0
        BY <2>2, <3>1, Zenon
      <3> QED BY <2>1, <3>2, <3>3
    <2>4. Cardinality(Past) < PerWindow /\ PerWindow \in Nat
      BY <1>1, UploadsAssumption DEF LimiterInv
    <2>5. Cardinality(Current) <= PerWindow
      <3>1. CASE hits.left > 0
        BY <1>1, <3>1 DEF LimiterInv
      <3>2. CASE ~(hits.left > 0)
        <4>1. Current = {}
          BY <3>2 DEF Current
        <4> QED BY <2>4, <4>1, FS_EmptySet
      <3> QED BY <3>1, <3>2
    <2>6. Full => Cardinality(Current) >= PerWindow
      BY <1>1 DEF LimiterInv, Full
    <2> QED BY <2>1, <2>3, <2>4, <2>5, <2>6 DEF UploadsBounded
  <1> QED BY <1>1, LimiterAtFirst, LimiterStep, PTL DEF UploadsSpec

-----------------------------------------------------------------------------
(***************************************************************************)
(* The live feed.                                                          *)
(***************************************************************************)

Events == [mint : StreamMints, place : Nat]

StreamTypes ==
  feed \in Seq(StreamMints) /\ queue \in Seq(Events) /\ sent \in Seq(Events)

\* What the loop or the listener has taken, in the order of the client.
Taken == sent \o queue

Due == {p \in DOMAIN feed : Wanted(feed[p])}

\* The parts of NothingSkipped.
OnlyDue ==
  \A i \in DOMAIN Taken : Taken[i].place \in Due /\ Taken[i].mint = feed[Taken[i].place]
Ascending ==
  \A i, j \in DOMAIN Taken : i < j => Taken[i].place < Taken[j].place
AllDue ==
  \A p \in Due :
    \/ \E i \in DOMAIN Taken : Taken[i].place = p
    \/ closed /\ \A i \in DOMAIN Taken : Taken[i].place < p

StreamInv == StreamTypes /\ OnlyDue /\ Ascending /\ AllDue

LEMMA SkippedParts == NothingSkipped <=> OnlyDue /\ Ascending /\ AllDue
  BY DEF NothingSkipped, OnlyDue, Ascending, AllDue, Taken, Due

\* Appending at the end of the queue appends to what is taken; shifting the
\* first of the queue to the end of what was sent leaves it as it is.
LEMMA QueueAppends ==
  ASSUME NEW E, NEW s \in Seq(E), NEW q \in Seq(E), NEW e \in E
  PROVE  s \o Append(q, e) = Append(s \o q, e)
  OBVIOUS

LEMMA QueueShifts ==
  ASSUME NEW E, NEW s \in Seq(E), NEW q \in Seq(E), q # <<>>
  PROVE  /\ Append(s, Head(q)) \in Seq(E) /\ Tail(q) \in Seq(E)
         /\ Append(s, Head(q)) \o Tail(q) = s \o q
  OBVIOUS

\* A step that leaves the feed and what is taken alone.
LEMMA StreamKept ==
  ASSUME StreamInv, StreamTypes', UNCHANGED <<mint, feed>>, Taken' = Taken,
         closed => closed'
  PROVE  StreamInv'
  <1>1. Due' = Due
    BY DEF Due, Wanted
  <1> QED BY <1>1 DEF StreamInv, OnlyDue, Ascending, AllDue

\* A step of the loop takes from the queue, or leaves it.
LEMMA LoopKeeps ==
  ASSUME StreamInv, Loop
  PROVE  StreamInv'
  <1>1. UNCHANGED <<mint, feed, closed>>
    BY DEF Loop, Greeted, WriteEnds, Ping, Resume
  <1>2. CASE Take
    <2>1. queue # <<>> /\ sent' = Append(sent, Head(queue)) /\ queue' = Tail(queue)
      BY <1>2 DEF Take
    <2>2. sent \in Seq(Events) /\ queue \in Seq(Events)
      BY DEF StreamInv, StreamTypes
    <2>3. sent' \in Seq(Events) /\ queue' \in Seq(Events) /\ Taken' = Taken
      BY <2>1, <2>2, QueueShifts DEF Taken
    <2>4. StreamTypes'
      BY <1>1, <2>3 DEF StreamInv, StreamTypes
    <2> QED BY <1>1, <2>3, <2>4, StreamKept
  <1>3. CASE UNCHANGED <<queue, sent>>
    <2>1. StreamTypes' /\ Taken' = Taken
      BY <1>1, <1>3 DEF StreamInv, StreamTypes, Taken
    <2> QED BY <1>1, <2>1, StreamKept
  <1> QED BY <1>2, <1>3 DEF Loop, Greeted, WriteEnds, Ping, Resume, Turn, Drain, Doze

LEMMA PublishKeeps ==
  ASSUME StreamInv, NEW m \in StreamMints, Publish(m)
  PROVE  StreamInv'
  <1> DEFINE last == Len(feed) + 1
             event == [mint |-> m, place |-> last]
  <1>1. /\ feed \in Seq(StreamMints) /\ queue \in Seq(Events) /\ sent \in Seq(Events)
        /\ Taken \in Seq(Events) /\ last \in Nat /\ last = Len(feed) + 1
    BY DEF StreamInv, StreamTypes, Taken
  <1>2. feed' = Append(feed, m) /\ UNCHANGED <<mint, sent, closed>>
    BY DEF Publish
  <1>3. event \in Events /\ event.place = last /\ event.mint = m
    BY <1>1 DEF Events
  <1> HIDE DEF last, event
  <1>4. /\ feed' \in Seq(StreamMints) /\ DOMAIN feed' = DOMAIN feed \cup {last}
        /\ DOMAIN feed = 1 .. last - 1 /\ feed'[last] = m
        /\ \A p \in DOMAIN feed : feed'[p] = feed[p]
    BY <1>1, <1>2
  <1>5. Due' = IF Wanted(m) THEN Due \cup {last} ELSE Due
    <2>1. \A p \in DOMAIN feed : Wanted(feed[p])' <=> Wanted(feed[p])
      BY <1>2, <1>4 DEF Wanted
    <2>2. Wanted(m)' <=> Wanted(m)
      BY <1>2 DEF Wanted
    <2>3. ASSUME NEW p \in DOMAIN feed'
          PROVE  Wanted(feed[p])' <=> IF p = last THEN Wanted(m) ELSE Wanted(feed[p])
      <3>1. CASE p = last
        BY <1>4, <2>2, <3>1 DEF Wanted
      <3>2. CASE p # last
        BY <1>4, <2>1, <2>3, <3>2
      <3> QED BY <3>1, <3>2
    <2>4. last \notin DOMAIN feed
      BY <1>1, <1>4
    <2> HIDE DEF last
    <2> QED BY <1>4, <2>3, <2>4 DEF Due
  <1>6. \A p \in Due : p \in DOMAIN feed /\ p \in Nat /\ p < last /\ feed'[p] = feed[p]
    BY <1>1, <1>4 DEF Due
  <1>7. \A i \in DOMAIN Taken :
          Taken[i].place \in Due /\ Taken[i].place < last
          /\ Taken[i].mint = feed[Taken[i].place]
    BY <1>6 DEF StreamInv, OnlyDue
  <1>8. CASE Heard(m)
    <2>1. Wanted(m) /\ ~closed /\ ~closed'
      BY <1>2, <1>8 DEF Heard
    <2>2. queue' = Append(queue, event)
      BY <1>8 DEF Publish, event, last
    <2>3. Taken' = Append(Taken, event)
      BY <1>1, <1>2, <1>3, <2>2, QueueAppends DEF Taken
    <2> DEFINE n == Len(Taken)
    <2>4. /\ n \in Nat /\ DOMAIN Taken = 1 .. n /\ DOMAIN Taken' = 1 .. n + 1
          /\ Taken'[n + 1] = event /\ \A i \in 1 .. n : Taken'[i] = Taken[i]
      BY <1>1, <1>3, <2>3
    <2> HIDE DEF n
    <2>5. \A i \in 1 .. n + 1 : i \in 1 .. n \/ i = n + 1
      BY <2>4
    <2>6. StreamTypes'
      BY <1>1, <1>2, <1>3, <1>4, <2>2 DEF StreamTypes
    <2>7. OnlyDue'
      <3>1. ASSUME NEW i \in 1 .. n + 1
            PROVE  Taken'[i].place \in Due' /\ Taken'[i].mint = feed'[Taken'[i].place]
        <4>1. CASE i \in 1 .. n
          BY <1>5, <1>6, <1>7, <2>4, <4>1
        <4>2. CASE i = n + 1
          BY <1>3, <1>4, <1>5, <2>1, <2>4, <4>2
        <4> QED BY <2>5, <4>1, <4>2
      <3> QED BY <2>4, <3>1 DEF OnlyDue
    <2>8. Ascending'
      <3>1. ASSUME NEW i \in 1 .. n + 1, NEW j \in 1 .. n + 1, i < j
            PROVE  Taken'[i].place < Taken'[j].place
        <4>1. i \in 1 .. n /\ Taken'[i] = Taken[i]
          BY <2>4, <2>5, <3>1
        <4>2. CASE j \in 1 .. n
          BY <2>4, <3>1, <4>1, <4>2 DEF StreamInv, Ascending
        <4>3. CASE j = n + 1
          BY <1>3, <1>7, <2>4, <4>1, <4>3
        <4> QED BY <2>5, <4>2, <4>3
      <3> QED BY <2>4, <3>1 DEF Ascending
    <2>9. AllDue'
      <3>1. ASSUME NEW p \in Due' PROVE \E i \in 1 .. n + 1 : Taken'[i].place = p
        <4>1. CASE p \in Due
          <5>1. PICK i \in 1 .. n : Taken[i].place = p
            BY <2>1, <2>4, <4>1 DEF StreamInv, AllDue
          <5> QED BY <2>4, <5>1
        <4>2. CASE p = last
          BY <1>3, <2>4, <4>2
        <4> QED BY <1>5, <4>1, <4>2
      <3> QED BY <2>4, <3>1 DEF AllDue
    <2> QED BY <2>6, <2>7, <2>8, <2>9 DEF StreamInv
  <1>9. CASE ~Heard(m)
    <2>1. queue' = queue
      BY <1>9 DEF Publish
    <2>2. Taken' = Taken
      BY <1>2, <2>1 DEF Taken
    <2>3. StreamTypes' /\ Ascending'
      BY <1>1, <1>2, <1>4, <2>1, <2>2 DEF StreamInv, StreamTypes, Ascending
    <2>4. OnlyDue'
      BY <1>5, <1>6, <1>7, <2>2 DEF OnlyDue
    <2>5. AllDue'
      <3>1. ASSUME NEW p \in Due'
            PROVE  \/ \E i \in DOMAIN Taken : Taken[i].place = p
                   \/ closed /\ \A i \in DOMAIN Taken : Taken[i].place < p
        <4>1. CASE p \in Due
          BY <4>1 DEF StreamInv, AllDue
        <4>2. CASE p = last /\ Wanted(m)
          BY <1>7, <1>9, <4>2 DEF Heard
        <4> QED BY <1>5, <4>1, <4>2
      <3> QED BY <1>2, <2>2, <3>1 DEF AllDue
    <2> QED BY <2>3, <2>4, <2>5 DEF StreamInv
  <1> QED BY <1>8, <1>9

LEMMA StreamStep == StreamInv /\ [StreamNext]_streamVars => StreamInv'
  <1> SUFFICES ASSUME StreamInv, [StreamNext]_streamVars PROVE StreamInv'
    OBVIOUS
  <1>1. CASE Abort \/ TimeOut \/ UNCHANGED streamVars
    <2>1. UNCHANGED <<mint, feed, queue, sent>>
      BY <1>1 DEF Abort, TimeOut, streamVars
    <2>2. closed => closed'
      BY <1>1, Zenon DEF Abort, TimeOut, streamVars
    <2>3. StreamTypes' /\ Taken' = Taken
      BY <2>1 DEF StreamInv, StreamTypes, Taken
    <2> QED BY <2>1, <2>2, <2>3, StreamKept
  <1> QED BY <1>1, LoopKeeps, PublishKeeps DEF StreamNext

\* app.ts:182-197: whatever is published and whenever the client leaves, it
\* has been sent or has waiting exactly the events of its mint, in order, from
\* its subscription to the end of the connection.
THEOREM NoEventIsSkipped == StreamSpec => []NothingSkipped
  <1>1. StreamInit => StreamInv
    BY DEF StreamInit, StreamInv, StreamTypes, OnlyDue, Ascending, AllDue, Taken, Due
  <1>2. StreamInv => NothingSkipped
    BY SkippedParts DEF StreamInv
  <1> QED BY <1>1, <1>2, StreamStep, PTL DEF StreamSpec

\* app.ts:194-204: between the last look at the queue and the moment wake is
\* set nothing can come in, so an event never waits for a ping.
THEOREM NeverAsleepOnWork == StreamSpec => []AwakeForWork
  <1>1. StreamInit => AwakeForWork
    BY DEF StreamInit, AwakeForWork
  <1>2. AwakeForWork /\ [StreamNext]_streamVars => AwakeForWork'
    <2> SUFFICES ASSUME AwakeForWork, [StreamNext]_streamVars PROVE AwakeForWork'
      OBVIOUS
    <2>1. ASSUME NEW m \in StreamMints, Publish(m) PROVE AwakeForWork'
      BY <2>1 DEF AwakeForWork, Publish, Rouse
    <2>2. CASE Abort \/ TimeOut \/ UNCHANGED streamVars
      BY <2>2 DEF AwakeForWork, Abort, TimeOut, Rouse, streamVars
    <2>3. CASE Loop
      BY <2>3 DEF AwakeForWork, Loop, Greeted, WriteEnds, Ping, Resume, Turn,
                  Drain, Doze, Take
    <2> QED BY <2>1, <2>2, <2>3 DEF StreamNext
  <1> QED BY <1>1, <1>2, PTL DEF StreamSpec

=============================================================================
