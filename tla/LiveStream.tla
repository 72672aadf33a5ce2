----------------------------- MODULE LiveStream -----------------------------
(***************************************************************************)
(* One client of GET /api/stream (backend/src/api/app.ts): a listener on   *)
(* the bus fills a queue, and a loop writes it out as server-sent events,  *)
(* sleeping until the listener, the end of the connection or a timer of    *)
(* fifteen seconds wakes it.  Indexer models who publishes.                *)
(*                                                                         *)
(* Node runs one callback at a time, so a step is what lies between two    *)
(* awaits of the loop, or one callback.  The loop goes on right after the   *)
(* callback that wakes it; here other callbacks may come in between, which *)
(* only adds behaviours.                                                   *)
(***************************************************************************)
EXTENDS Naturals, Sequences

CONSTANTS
  StreamMints,
  AnyMint,     \* no mint in the query
  MaxEvents    \* bound: events published while the client is connected

ASSUME LiveStreamAssumption ==
  /\ AnyMint \notin StreamMints
  /\ MaxEvents \in Nat

VARIABLES
  mint,      \* the query: a mint, or AnyMint
  feed,      \* history: the mints of the events published since it subscribed
  queue,     \* events the listener took and the loop has not: [mint, place]
  sent,      \* history: events the loop took, in its order
  pc,        \* the await the loop is in
  woke,      \* what the promise of the sleep resolved to
  closed     \* the connection is gone and the listener removed

streamVars == <<mint, feed, queue, sent, pc, woke, closed>>

-----------------------------------------------------------------------------
(***************************************************************************)
(* The callbacks.                                                          *)
(***************************************************************************)

Wanted(m) == mint \in {AnyMint, m}

\* Mutation: an event is handed to a sleeping loop only.
HeardAsleep(m) == ~closed /\ pc = "asleep" /\ Wanted(m)

\* The listener is still there and pushes an event of m.
Heard(m) == ~closed /\ Wanted(m)

\* Resolves the promise of the sleep, if there is one not resolved yet.
Rouse(answer) ==
  IF pc = "asleep"
  THEN pc' = "roused" /\ woke' = answer
  ELSE UNCHANGED <<pc, woke>>

\* emit calls the listener once per event.  What a transaction committed is
\* published without an await; here other steps may come in between as well.
Publish(m) ==
  /\ Len(feed) < MaxEvents
  /\ feed' = Append(feed, m)
  /\ \/ /\ Heard(m)
        /\ queue' = Append(queue, [mint |-> m, place |-> Len(feed) + 1])
        /\ Rouse(TRUE)
     \/ ~Heard(m) /\ UNCHANGED <<queue, pc, woke>>
  /\ UNCHANGED <<mint, sent, closed>>

\* The client goes away.
Abort ==
  /\ ~closed
  /\ closed' = TRUE
  /\ Rouse(TRUE)
  /\ UNCHANGED <<mint, feed, queue, sent>>

\* Mutation: a sleep without a timer.
NoTimeOut == FALSE

TimeOut ==
  /\ pc = "asleep"
  /\ Rouse(FALSE)
  /\ UNCHANGED <<mint, feed, queue, sent, closed>>

-----------------------------------------------------------------------------
(***************************************************************************)
(* The loop.                                                               *)
(***************************************************************************)

\* Shifts the next event and writes it.
Take ==
  /\ queue # <<>>
  /\ sent' = Append(sent, Head(queue))
  /\ queue' = Tail(queue)
  /\ pc' = "writing"

Doze ==
  /\ pc' = "asleep"
  /\ UNCHANGED <<queue, sent>>

\* Mutation: one event per turn of the outer loop, an if for a while.
DrainOne == (pc # "writing" /\ Take) \/ ((pc = "writing" \/ queue = <<>>) /\ Doze)

\* The inner loop, which writes on even after the client has gone.
Drain == Take \/ (queue = <<>> /\ Doze)

\* The condition of the outer loop.
Turn ==
  \/ closed /\ pc' = "ended" /\ UNCHANGED <<queue, sent>>
  \/ ~closed /\ Drain

\* The write of "ready" or of a ping is over.
Greeted ==
  /\ pc \in {"greeting", "pinging"}
  /\ Turn
  /\ UNCHANGED <<mint, feed, woke, closed>>

WriteEnds ==
  /\ pc = "writing"
  /\ Drain
  /\ UNCHANGED <<mint, feed, woke, closed>>

Ping ==
  /\ pc = "roused" /\ ~woke /\ ~closed
  /\ pc' = "pinging"
  /\ UNCHANGED <<mint, feed, queue, sent, woke, closed>>

Resume ==
  /\ pc = "roused" /\ (woke \/ closed)
  /\ Turn
  /\ UNCHANGED <<mint, feed, woke, closed>>

-----------------------------------------------------------------------------

\* The listener is there before "ready" is written.
StreamInit ==
  /\ mint \in StreamMints \cup {AnyMint}
  /\ feed = <<>> /\ queue = <<>> /\ sent = <<>>
  /\ pc = "greeting"
  /\ woke = FALSE
  /\ closed = FALSE

Loop == Greeted \/ WriteEnds \/ Ping \/ Resume

StreamNext ==
  \/ \E m \in StreamMints : Publish(m)
  \/ Abort
  \/ TimeOut
  \/ Loop

\* A write ends when the client reads or goes away, and timers fire.
StreamSpec ==
  /\ StreamInit /\ [][StreamNext]_streamVars
  /\ WF_streamVars(Loop) /\ WF_streamVars(TimeOut)

-----------------------------------------------------------------------------
(***************************************************************************)
(* Properties.                                                             *)
(***************************************************************************)

\* What was written and what is queued is the feed of the client's mint, in
\* order, without a gap or a repetition, from the subscription to the end of
\* the connection (app.ts:182-197): also for events that are published while
\* a write or a ping is under way.
NothingSkipped ==
  LET taken == sent \o queue
      due == {p \in DOMAIN feed : Wanted(feed[p])}
  IN /\ \A i \in DOMAIN taken :
          taken[i].place \in due /\ taken[i].mint = feed[taken[i].place]
     /\ \A i, j \in DOMAIN taken : i < j => taken[i].place < taken[j].place
     /\ \A p \in due :
          \/ \E i \in DOMAIN taken : taken[i].place = p
          \/ closed /\ \A i \in DOMAIN taken : taken[i].place < p

\* The loop never sleeps while an event waits: no event is held back until
\* the next ping (app.ts:194-204, between the last look at the queue and the
\* moment wake is set).
AwakeForWork == pc = "asleep" => queue = <<>>

\* The handler ends once the client has gone, even if it goes during a write,
\* when there is nothing for wake to resolve (app.ts:187-207).
AbortEnds == closed ~> pc = "ended"
=============================================================================
