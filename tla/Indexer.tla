------------------------------ MODULE Indexer ------------------------------
(***************************************************************************)
(* The chain indexer (backend/src/indexer/indexer.ts) with its database    *)
(* (db.ts) and the live feed it publishes (bus.ts): one ingestion loop     *)
(* reads the signatures newer than a cursor page by page, fetches the      *)
(* transactions in batches and applies each in a database transaction of   *)
(* its own, with the cursor, before it publishes the events.               *)
(*                                                                         *)
(* A signature is the position of its transaction in the chain.  Between   *)
(* two awaits the code runs alone (Node runs one callback at a time), so   *)
(* the steps are: a page, a batch, and for every transaction the commit    *)
(* and the publication.  The process may die between any two of them.      *)
(***************************************************************************)
EXTENDS ChainEvents, FiniteSets, SequencesExt

CONSTANTS
  PAGE,                \* signatures per page (1000 in the source)
  FETCH_CONCURRENCY,   \* transactions fetched together (8 in the source)
  Starts,              \* startSignature: how many transactions precede it
  MaxTxs,              \* bound: transactions on the chain
  MaxFaults,           \* bound: failed requests, late transactions, crashes
  MayLosePower         \* the machine may lose power, not just the process

ASSUME IndexerAssumption ==
  /\ PAGE \in Nat \ {0}
  /\ FETCH_CONCURRENCY \in Nat \ {0}
  /\ Starts \subseteq 0 .. MaxTxs
  /\ MaxTxs \in Nat
  /\ MaxFaults \in Nat
  /\ MayLosePower \in BOOLEAN

VARIABLES
  chain,    \* the program's transactions, in chain order
  start,    \* startSignature
  db,       \* the database
  disk,     \* the database as of the last write that reached the disk
  pc,       \* where the loop is
  listed,   \* signatures of this sync not fetched yet (while listing: so far)
  batch,    \* signatures fetched and not processed yet
  got,      \* those of the batch whose transaction was returned
  live,     \* notifications of the transaction just committed
  feed,     \* history: what was published
  faults,   \* bound: faults so far
  crashed   \* history: "never", "process" or "power", the worst crash so far

world == <<chain, start>>
loop == <<pc, listed, batch, got, live>>
vars == <<world, db, disk, loop, feed, faults, crashed>>

Tokens == IF chain = <<>> THEN [m \in Mints |-> NoToken] ELSE Last(chain).after

NoRow == [status |-> "none", left |-> 0, count |-> 0, volume |-> 0]

\* cursor stands for the meta row; 0 while there is none.
EmptyDb ==
  [cursor |-> 0, tokens |-> [m \in Mints |-> NoRow], trades |-> <<>>,
   graduations |-> {}]

-----------------------------------------------------------------------------
(***************************************************************************)
(* The writes of db.ts.  A trade row keeps its key and its mint.           *)
(***************************************************************************)

Known(d, m) == d.tokens[m].status # "none"

InsertToken(d, e) ==
  IF Known(d, e.mint) THEN d
  ELSE [d EXCEPT !.tokens[e.mint] =
          [NoRow EXCEPT !.status = "trading", !.left = e.left]]

HasTrade(d, key) == \E i \in DOMAIN d.trades : d.trades[i].key = key

InsertTrade(d, e, key) ==
  LET row == d.tokens[e.mint]
      recorded == [d EXCEPT !.trades = Append(@, [key |-> key, mint |-> e.mint])]
  IN IF HasTrade(d, key) THEN d
     ELSE IF ~Known(d, e.mint) THEN recorded
     ELSE [recorded EXCEPT !.tokens[e.mint] =
             [row EXCEPT !.left = e.left, !.count = @ + 1, !.volume = @ + e.amount]]

SetStatus(d, m, from, to) ==
  IF d.tokens[m].status \in from THEN [d EXCEPT !.tokens[m].status = to] ELSE d

MarkCompleted(d, e) == SetStatus(d, e.mint, {"trading"}, "complete")

\* Mutation: reopening leaves the status of the row alone.
MarkReopenedForgotten(d, e) == d

MarkReopened(d, e) == SetStatus(d, e.mint, {"complete"}, "trading")

InsertGraduation(d, e) ==
  [SetStatus(d, e.mint, {"trading", "complete"}, "migrated")
     EXCEPT !.graduations = @ \cup {e.mint}]

\* listTrades({mint, limit: 1}): the row of the mint with the greatest id.
LatestTrade(d, m) ==
  LET rows == d.trades
      last == CHOOSE i \in DOMAIN rows :
                rows[i].mint = m /\ \A j \in i + 1 .. Len(rows) : rows[j].mint # m
  IN rows[last].key

ApplyEvent(d, e, key) ==
  CASE e.name = "tokenCreated"   -> InsertToken(d, e)
    [] e.name = "trade"          -> InsertTrade(d, e, key)
    [] e.name = "curveCompleted" -> MarkCompleted(d, e)
    [] e.name = "curveReopened"  -> MarkReopened(d, e)
    [] e.name = "migrated"       -> InsertGraduation(d, e)

\* A token or a trade that was there already is not announced.
Announced(d, e, key) ==
  CASE e.name = "tokenCreated" -> ~Known(d, e.mint)
    [] e.name = "trade"        -> ~HasTrade(d, key)
    [] OTHER                   -> TRUE

\* The notification shows the trade, or the token (its graduation) as it is
\* now.
Notification(d, e, key) ==
  [key |-> key, name |-> e.name,
   shows |-> IF e.name = "trade" THEN LatestTrade(d, e.mint)
                                 ELSE d.tokens[e.mint]]

\* applyTransaction: the database and the notifications after the events of s.
Applied(d, s) ==
  LET events == IF s \in got THEN chain[s].events ELSE <<>>
      rows[i \in 0 .. Len(events)] ==
        IF i = 0 THEN d
        ELSE LET before == rows[i - 1] IN ApplyEvent(before, events[i], <<s, i>>)
      notes[i \in 0 .. Len(events)] ==
        IF i = 0 THEN <<>>
        ELSE LET before == rows[i - 1]
                 after  == rows[i]
             IN IF Announced(before, events[i], <<s, i>>)
                  THEN Append(notes[i - 1], Notification(after, events[i], <<s, i>>))
                  ELSE notes[i - 1]
  IN [db |-> rows[Len(events)], live |-> notes[Len(events)]]

-----------------------------------------------------------------------------
(***************************************************************************)
(* The chain.                                                              *)
(***************************************************************************)

\* A transaction is confirmed.
Confirm ==
  /\ Len(chain) < MaxTxs
  /\ \E tx \in Transactions(Tokens) : chain' = Append(chain, tx)
  /\ UNCHANGED <<start, db, disk, loop, feed, faults, crashed>>

-----------------------------------------------------------------------------
(***************************************************************************)
(* The loop.                                                               *)
(***************************************************************************)

Rest == /\ pc' = "waiting"
        /\ listed' = <<>> /\ batch' = <<>> /\ got' = {} /\ live' = <<>>

Cursor == IF db.cursor = 0 THEN start ELSE db.cursor

\* start(): the loop begins with a sync.
Start ==
  /\ pc = "down"
  /\ Len(chain) >= start
  /\ pc' = "listing"
  /\ UNCHANGED <<world, db, disk, listed, batch, got, live, feed, faults,
                 crashed>>

\* The timer fires, or a log notification wakes the loop: notifications that
\* come while it is not waiting are lost (wakeUp is null).
Wake ==
  /\ pc = "waiting"
  /\ pc' = "listing"
  /\ UNCHANGED <<world, db, disk, listed, batch, got, live, feed, faults,
                 crashed>>

\* getSignaturesForAddress: the newest PAGE signatures after the cursor and
\* before the last one listed, newest first.
Page ==
  LET top  == IF listed = <<>> THEN Len(chain) ELSE Last(listed) - 1
      size == IF top - Cursor > PAGE THEN PAGE ELSE top - Cursor
  IN [i \in 1 .. size |-> top - i + 1]

List ==
  /\ pc = "listing"
  /\ LET all == listed \o Page
         done == Len(Page) < PAGE
     IN IF ~done
          THEN listed' = all /\ UNCHANGED pc
          ELSE /\ listed' = Reverse(all)
               /\ pc' = IF all = <<>> THEN "waiting" ELSE "fetching"
  /\ UNCHANGED <<world, db, disk, batch, got, live, feed, faults, crashed>>

\* fetchEvents asks for the transactions that succeeded.
Wanted(signatures) == {s \in Range(signatures) : ~chain[s].failed}

\* getTransaction may lag behind getSignaturesForAddress: any of the
\* transactions may not be there yet.
Fetch ==
  LET n == IF Len(listed) > FETCH_CONCURRENCY THEN FETCH_CONCURRENCY
                                              ELSE Len(listed)
  IN /\ pc = "fetching"
     /\ batch' = SubSeq(listed, 1, n)
     /\ listed' = SubSeq(listed, n + 1, Len(listed))
     /\ pc' = "applying"
     /\ \E late \in SUBSET Wanted(batch') :
          /\ faults + Cardinality(late) <= MaxFaults
          /\ faults' = faults + Cardinality(late)
          /\ got' = Wanted(batch') \ late
     /\ UNCHANGED <<world, db, disk, live, feed, crashed>>

\* Mutation: the loop goes on without it.
MissingIgnored(s) == FALSE

\* A transaction that succeeded and that the node does not have yet.
Missing(s) == ~chain[s].failed /\ s \notin got

\* The sync ends early; the next one resumes from the cursor.
GiveUp ==
  /\ pc = "applying"
  /\ Missing(Head(batch))
  /\ Rest
  /\ UNCHANGED <<world, db, disk, feed, faults, crashed>>

\* The row of the cursor is written with the events.
WithCursor(written, s) ==
  LET d == written.db
  IN [db |-> [cursor |-> s, tokens |-> d.tokens, trades |-> d.trades,
              graduations |-> d.graduations],
      live |-> written.live]

\* Mutation: the cursor moves with the last transaction of a batch only.
CommittedByBatch(s) ==
  IF Len(batch) = 1 THEN WithCursor(Applied(db, s), s) ELSE Applied(db, s)

\* Mutation: the cursor moves with the transactions that succeeded only.
CommittedIfSucceeded(s) ==
  IF chain[s].failed THEN [db |-> db, live |-> <<>>]
  ELSE WithCursor(Applied(db, s), s)

\* The events of a transaction and the cursor, in one database transaction.
Committed(s) == WithCursor(Applied(db, s), s)

Commit ==
  /\ pc = "applying"
  /\ ~Missing(Head(batch))
  /\ \E written \in {Committed(Head(batch))} :
       /\ db' = written.db
       /\ live' = written.live
  /\ pc' = "publishing"
  /\ UNCHANGED <<world, disk, listed, batch, got, feed, faults, crashed>>

Publish ==
  /\ pc = "publishing"
  /\ feed' = feed \o live
  /\ live' = <<>>
  /\ batch' = Tail(batch)
  /\ pc' = IF batch' # <<>> THEN "applying"
           ELSE IF listed # <<>> THEN "fetching" ELSE "waiting"
  /\ got' = IF batch' # <<>> THEN got ELSE {}
  /\ UNCHANGED <<world, db, disk, listed, faults, crashed>>

-----------------------------------------------------------------------------
(***************************************************************************)
(* Faults.                                                                 *)
(***************************************************************************)

\* A request throws: the sync ends, the loop logs it and waits.
RequestFails ==
  /\ pc \in {"listing", "fetching"}
  /\ faults < MaxFaults
  /\ faults' = faults + 1
  /\ Rest
  /\ UNCHANGED <<world, db, disk, feed, crashed>>

\* SQLite writes the log back to the disk at moments of its own.
Checkpoint ==
  /\ MayLosePower
  /\ disk # db
  /\ disk' = db
  /\ UNCHANGED <<world, db, loop, feed, faults, crashed>>

Down == /\ pc' = "down"
        /\ listed' = <<>> /\ batch' = <<>> /\ got' = {} /\ live' = <<>>

\* The process ends: what was committed stays.
Crash ==
  /\ pc # "down"
  /\ faults < MaxFaults
  /\ faults' = faults + 1
  /\ crashed' = IF crashed = "never" THEN "process" ELSE crashed
  /\ Down
  /\ UNCHANGED <<world, db, disk, feed>>

\* The machine loses power: with synchronous = NORMAL a write-ahead log keeps
\* transactions whole but may lose the last ones.
LosePower ==
  /\ MayLosePower
  /\ pc # "down"
  /\ faults < MaxFaults
  /\ faults' = faults + 1
  /\ crashed' = "power"
  /\ db' = disk
  /\ Down
  /\ UNCHANGED <<world, disk, feed>>

-----------------------------------------------------------------------------

Init ==
  /\ chain = <<>>
  /\ start \in Starts
  /\ db = EmptyDb
  /\ disk = EmptyDb
  /\ pc = "down"
  /\ listed = <<>> /\ batch = <<>> /\ got = {} /\ live = <<>>
  /\ feed = <<>>
  /\ faults = 0
  /\ crashed = "never"

Sync == List \/ Fetch \/ GiveUp \/ Commit \/ Publish

Next ==
  \/ Confirm
  \/ Start \/ Wake \/ Sync
  \/ RequestFails \/ Checkpoint \/ Crash \/ LosePower

\* The process is restarted, the timer of the loop fires and every request is
\* answered or fails.  That in the end the node has every transaction it lists
\* and stops failing is in the bound on faults.
Fairness ==
  /\ WF_vars(Start)
  /\ WF_vars(Wake)
  /\ WF_vars(Sync)

Spec == Init /\ [][Next]_vars /\ Fairness

-----------------------------------------------------------------------------
(***************************************************************************)
(* Properties.                                                             *)
(***************************************************************************)

\* Positions of the events of the transactions after start, up to s.
KeysUpTo(s) ==
  {k \in (start + 1 .. s) \X (1 .. 4) : k[2] \in DOMAIN chain[k[1]].events}

Earlier(a, b) == a[1] < b[1] \/ (a[1] = b[1] /\ a[2] < b[2])

Increasing(keys) ==
  \A i, j \in DOMAIN keys : i < j => Earlier(keys[i], keys[j])

EventAt(key) == chain[key[1]].events[key[2]]

LaunchedAfterStart(m) ==
  \A s \in 1 .. start : chain[s].after[m].status = "none"

\* indexer.ts: "rows are always written in chain order and a restart resumes
\* where it stopped".  At any moment, through missing transactions, failed
\* requests and crashes, the row of a token is what the chain knew of it at
\* the cursor: its status, what it has left to sell, its trades and volume.
RowsFollowChain ==
  \A m \in Mints :
    LET row == db.tokens[m]
        t   == IF Cursor = 0 THEN NoToken ELSE chain[Cursor].after[m]
    IN IF Cursor = start THEN row = NoRow
       ELSE LaunchedAfterStart(m) =>
              /\ row.status = t.status
              /\ row.left = t.left
              /\ row.count = t.trades
              /\ row.volume = t.volume
              /\ m \in db.graduations <=> t.status = "migrated"

\* schema.ts: "Rows are inserted in chain order, so id gives a total order of
\* trades": every trade after start is there exactly once, in that order.
TradesInChainOrder ==
  LET keys == [i \in DOMAIN db.trades |-> db.trades[i].key]
  IN /\ Increasing(keys)
     /\ Range(keys) = {k \in KeysUpTo(Cursor) : EventAt(k).name = "trade"}

\* What clients are told is committed, told once and in chain order, every
\* notification shows its own trade, and nothing is left out unless the
\* process died; only a loss of power can take back what was told.
FeedFollowsRows ==
  LET keys == [i \in DOMAIN feed |-> feed[i].key]
  IN crashed # "power" =>
       /\ Increasing(keys)
       /\ Range(keys) \subseteq KeysUpTo(Cursor)
       /\ crashed = "never" /\ pc # "publishing" =>
            Range(keys) = KeysUpTo(Cursor)
       /\ \A i \in DOMAIN feed :
            feed[i].name = "trade" => feed[i].shows = feed[i].key

\* The cursor only moves forward, one transaction at a time, unless power is
\* lost.
CursorAdvances ==
  [][db' # db => Cursor' = Cursor + 1 \/ crashed' = "power"]_vars

\* Whatever was missed, failed or crashed, the database catches up with the
\* chain: no notification is needed for it.
CatchesUp == []<>(Cursor >= Len(chain))

-----------------------------------------------------------------------------
(***************************************************************************)
(* The indexer implements Mirror.  Tokens launched before startSignature   *)
(* are not followed and count as never launched.                           *)
(***************************************************************************)

Line(status, left, trades, volume, graduated) ==
  [status |-> status, left |-> left, trades |-> trades, volume |-> volume,
   graduated |-> graduated]

LineOf(t) == Line(t.status, t.left, t.trades, t.volume, t.status = "migrated")

pastBar ==
  [n \in 1 .. (IF Len(chain) > start THEN Len(chain) - start ELSE 0) |->
     [m \in Mints |-> LineOf(IF LaunchedAfterStart(m)
                             THEN chain[start + n].after[m] ELSE NoToken)]]

copyBar ==
  [m \in Mints |->
     IF Cursor = start \/ LaunchedAfterStart(m)
     THEN LET row == db.tokens[m]
          IN Line(row.status, row.left, row.count, row.volume,
                  m \in db.graduations)
     ELSE LineOf(NoToken)]

Mirrored == INSTANCE Mirror
              WITH Blank <- [m \in Mints |-> LineOf(NoToken)],
                   past <- pastBar, position <- Cursor - start,
                   copy <- copyBar, outage <- crashed = "power"

\* Whoever reads the rows between two steps sees all the tokens as they were
\* after one and the same transaction (indexer.ts:6-7, db.ts:92-101): commits
\* follow the chain one by one, and a restart goes on from the last of them.
MirrorsChain == Mirrored!Spec

=============================================================================
