---------------------------- MODULE IndexerProofs ----------------------------
(***************************************************************************)
(* The indexer, for every chain, page size and batch size: whatever fails  *)
(* or ends, the transaction that is committed next is the one right after  *)
(* the cursor, the rows are what the chain was there, the feed tells what  *)
(* was committed, and to a reader the database is a mirror of the chain.   *)
(* The first part follows the signatures from the pages, where they run    *)
(* down from the newest to the cursor, through the reversed list and the   *)
(* batches, where they run up from it.                                     *)
(***************************************************************************)
EXTENDS Indexer, SequenceTheorems, TLAPS

\* The signatures that come right after position p, oldest first.
RunsUp(signatures, p) ==
  \A i \in 1 .. Len(signatures) : signatures[i] = p + i

\* Newest first, on the chain and after the cursor.
RunsDown(signatures) ==
  \A i \in 1 .. Len(signatures) :
    /\ signatures[i] + i = signatures[1] + 1
    /\ signatures[i] > Cursor /\ signatures[i] <= Len(chain)

\* The last transaction that is committed and published.
Reached == IF pc = "publishing" THEN Cursor - 1 ELSE Cursor

ChainInv ==
  /\ \E S : chain \in Seq(S)
  /\ start \in Nat /\ db.cursor \in Nat /\ disk.cursor \in Nat
  /\ db.cursor <= Len(chain) /\ disk.cursor <= Len(chain)
  /\ pc # "down" => start <= Len(chain)

LoopInv ==
  /\ listed \in Seq(Nat) /\ batch \in Seq(Nat)
  /\ pc \in {"down", "waiting"} => listed = <<>>
  /\ pc = "listing" => RunsDown(listed)
  /\ pc = "fetching" =>
       /\ listed # <<>>
       /\ RunsUp(listed, Cursor) /\ Cursor + Len(listed) <= Len(chain)
  /\ pc \in {"applying", "publishing"} =>
       /\ batch # <<>>
       /\ RunsUp(batch, Reached) /\ RunsUp(listed, Reached + Len(batch))
       /\ Reached + Len(batch) + Len(listed) <= Len(chain)

CursorInv == ChainInv /\ LoopInv

-----------------------------------------------------------------------------

LEMMA CursorIsNat == ChainInv => Cursor \in Nat /\ Len(chain) \in Nat
  <1> SUFFICES ASSUME ChainInv PROVE Cursor \in Nat /\ Len(chain) \in Nat
    OBVIOUS
  <1>1. PICK S : chain \in Seq(S)
    BY DEF ChainInv
  <1> QED BY <1>1 DEF ChainInv, Cursor

LEMMA CursorOnChain == ChainInv /\ pc # "down" => Cursor <= Len(chain)
  BY CursorIsNat DEF ChainInv, Cursor

LEMMA CursorAtFirst == Init => CursorInv
  <1> SUFFICES ASSUME Init PROVE CursorInv
    OBVIOUS
  <1>1. chain \in Seq(Nat) /\ Len(chain) = 0 /\ listed \in Seq(Nat) /\ batch \in Seq(Nat)
    BY DEF Init
  <1>2. start \in Nat
    BY IndexerAssumption DEF Init
  <1>3. db.cursor = 0 /\ disk.cursor = 0
    BY DEF Init, EmptyDb
  <1> QED BY <1>1, <1>2, <1>3 DEF Init, CursorInv, ChainInv, LoopInv

\* The chain grows at its end.
LEMMA ConfirmKeeps == CursorInv /\ Confirm => CursorInv'
  <1> SUFFICES ASSUME CursorInv, Confirm PROVE CursorInv'
    OBVIOUS
  <1> USE DEF CursorInv
  <1>1. PICK S : chain \in Seq(S)
    BY DEF ChainInv
  <1>2. PICK tx \in Transactions(Tokens) : chain' = Append(chain, tx)
    BY DEF Confirm
  <1>3. Len(chain) \in Nat /\ chain' \in Seq(S \cup {tx}) /\ Len(chain') = Len(chain) + 1
    <2>1. chain \in Seq(S \cup {tx})
      BY <1>1
    <2> QED BY <1>1, <1>2, <2>1
  <1>4. UNCHANGED <<start, db, disk, pc, listed, batch>>
    BY DEF Confirm, loop
  <1>5. Cursor' = Cursor /\ Reached' = Reached /\ Cursor \in Nat /\ Reached \in Int
    BY <1>4, CursorIsNat DEF Cursor, Reached
  <1>6. ChainInv'
    BY <1>3, <1>4 DEF ChainInv
  <1>7. LoopInv'
    <2>1. RunsDown(listed) => RunsDown(listed)'
      BY <1>3, <1>4, <1>5 DEF RunsDown, LoopInv
    <2>2. /\ RunsUp(listed, Cursor)' = RunsUp(listed, Cursor)
          /\ RunsUp(batch, Reached)' = RunsUp(batch, Reached)
          /\ RunsUp(listed, Reached + Len(batch))' = RunsUp(listed, Reached + Len(batch))
      BY <1>4, <1>5 DEF RunsUp
    <2> QED BY <1>3, <1>4, <1>5, <2>1, <2>2 DEF LoopInv
  <1> QED BY <1>6, <1>7

\* A sync that ends early, and a process that ends.
LEMMA RestKeeps ==
  ASSUME CursorInv, UNCHANGED <<chain, start, disk>>,
         listed' = <<>>, batch' = <<>>,
         \/ pc' = "waiting" /\ pc # "down" /\ db' = db
         \/ pc' = "down" /\ db' \in {db, disk}
  PROVE  CursorInv'
  <1>1. ChainInv'
    BY DEF CursorInv, ChainInv
  <1>2. LoopInv'
    BY DEF LoopInv
  <1> QED BY <1>1, <1>2 DEF CursorInv

LEMMA BeginKeeps == CursorInv /\ (Start \/ Wake) => CursorInv'
  <1> SUFFICES ASSUME CursorInv, Start \/ Wake PROVE CursorInv'
    OBVIOUS
  <1>1. /\ UNCHANGED <<chain, start, db, disk, listed, batch>>
        /\ listed = <<>> /\ pc' = "listing"
    BY DEF Start, Wake, world, CursorInv, LoopInv
  <1>2. ChainInv'
    BY <1>1, CursorIsNat DEF Start, Wake, CursorInv, ChainInv
  <1>3. LoopInv'
    BY <1>1 DEF CursorInv, LoopInv, RunsDown
  <1> QED BY <1>2, <1>3 DEF CursorInv

\* A page goes on where the list ended; the last one ends at the cursor.
LEMMA ListKeeps == CursorInv /\ List => CursorInv'
  <1> SUFFICES ASSUME CursorInv, List PROVE CursorInv'
    OBVIOUS
  <1> DEFINE top == IF listed = <<>> THEN Len(chain) ELSE Last(listed) - 1
             size == IF top - Cursor > PAGE THEN PAGE ELSE top - Cursor
             all == listed \o Page
  <1>1. Cursor \in Nat /\ Len(chain) \in Nat /\ Cursor <= Len(chain)
    BY CursorIsNat, CursorOnChain DEF CursorInv, List
  <1>2. listed \in Seq(Nat) /\ Len(listed) \in Nat /\ RunsDown(listed)
    BY DEF CursorInv, LoopInv, List
  <1>3. top \in Nat /\ top >= Cursor /\ top <= Len(chain)
    <2>1. CASE listed = <<>>
      BY <1>1, <2>1
    <2>2. CASE listed # <<>>
      <3>1. Len(listed) >= 1
        BY <1>2, <2>2
      <3>2. listed[Len(listed)] \in Nat
        BY <1>2, <3>1
      <3> QED BY <1>1, <1>2, <2>2, <3>1, <3>2 DEF RunsDown, Last
    <2> QED BY <2>1, <2>2
  <1>4. size \in Nat /\ size <= PAGE /\ size <= top - Cursor
        /\ (size < PAGE => size = top - Cursor)
    BY <1>1, <1>3, IndexerAssumption
  <1>5. Page = [i \in 1 .. size |-> top - i + 1]
    BY DEF Page
  <1> HIDE DEF size, top
  <1>6. Page \in Seq(Nat) /\ Len(Page) = size
    <2>1. \A i \in 1 .. size : top - i + 1 \in Nat
      BY <1>1, <1>3, <1>4
    <2> QED BY <1>4, <1>5, <2>1
  <1>7. /\ all \in Seq(Nat) /\ Len(all) = Len(listed) + size
        /\ \A i \in 1 .. Len(all) :
             all[i] = IF i <= Len(listed) THEN listed[i] ELSE Page[i - Len(listed)]
    BY <1>2, <1>4, <1>6
  <1> HIDE DEF all
  <1>8. \A i \in 1 .. Len(all) : all[i] = top + Len(listed) - i + 1
    <2> TAKE i \in 1 .. Len(all)
    <2>1. CASE i > Len(listed)
      <3>1. i - Len(listed) \in 1 .. size
        BY <1>2, <1>4, <1>7, <2>1
      <3>2. Page[i - Len(listed)] = top - (i - Len(listed)) + 1
        BY <1>5, <3>1
      <3> QED BY <1>2, <1>3, <1>4, <1>7, <2>1, <3>1, <3>2
    <2>2. CASE i <= Len(listed)
      <3>1. i \in 1 .. Len(listed) /\ Len(listed) \in 1 .. Len(listed) /\ listed # <<>>
        BY <1>2, <1>7, <2>2
      <3>2. /\ listed[i] + i = listed[1] + 1
            /\ listed[Len(listed)] + Len(listed) = listed[1] + 1
        BY <1>2, <3>1 DEF RunsDown
      <3>3. top = listed[Len(listed)] - 1
        BY <3>1 DEF top, Last
      <3>4. listed[i] \in Nat /\ listed[1] \in Nat /\ listed[Len(listed)] \in Nat
        BY <1>2, <3>1
      <3>5. all[i] = listed[i] /\ i \in Nat
        BY <1>2, <1>4, <1>7, <2>2
      <3>6. listed[i] + i = listed[Len(listed)] + Len(listed)
        BY <3>2
      <3>7. listed[i] + i = (top + 1) + Len(listed)
        BY <3>3, <3>4, <3>6, <1>3
      <3> QED BY <1>2, <1>3, <3>4, <3>5, <3>7
    <2> QED BY <2>1, <2>2, <1>2, <1>7
  <1>9. top + Len(listed) <= Len(chain)
    <2>1. CASE listed = <<>>
      BY <2>1, <1>1, <1>3
    <2>2. CASE listed # <<>>
      <3>1. 1 \in 1 .. Len(listed) /\ Len(listed) \in 1 .. Len(listed)
        BY <1>2, <2>2
      <3>2. listed[1] \in Nat /\ listed[Len(listed)] \in Nat
        BY <1>2, <3>1
      <3>3. top = listed[Len(listed)] - 1
        BY <2>2 DEF top, Last
      <3>4. listed[Len(listed)] + Len(listed) = listed[1] + 1 /\ listed[1] <= Len(chain)
        BY <1>2, <3>1 DEF RunsDown
      <3>5. top + Len(listed) = listed[1]
        <4> DEFINE last == listed[Len(listed)]
                   count == Len(listed)
                   first == listed[1]
        <4>1. /\ last \in Nat /\ first \in Nat /\ count \in Nat
              /\ top = last - 1 /\ last + count = first + 1
          BY <1>2, <3>2, <3>3, <3>4
        <4> HIDE DEF last, count, first
        <4>2. top + count = first
          BY ONLY <4>1
        <4> QED BY <4>2 DEF count, first
      <3> QED BY <3>4, <3>5
    <2> QED BY <2>1, <2>2
  <1>10. UNCHANGED <<chain, start, db, disk, batch>> /\ pc = "listing"
    BY DEF List, world
  <1>11. Cursor' = Cursor
    BY <1>10 DEF Cursor
  <1>12. CASE ~(Len(Page) < PAGE)
    <2>1. listed' = all /\ pc' = "listing"
      BY <1>12, <1>10 DEF List, all
    <2>2. ChainInv'
      BY <1>10, <2>1 DEF CursorInv, ChainInv
    <2>3. RunsDown(listed)'
      <3> SUFFICES ASSUME NEW i \in 1 .. Len(all)
                   PROVE  /\ all[i] + i = all[1] + 1
                          /\ all[i] > Cursor /\ all[i] <= Len(chain)
        BY <2>1, <1>10, <1>11 DEF RunsDown
      <3>1. 1 \in 1 .. Len(all)
        BY <1>7
      <3>2. /\ all[i] = top + Len(listed) - i + 1
            /\ all[1] = top + Len(listed) - 1 + 1
        BY <1>8, <3>1
      <3>3. i \in Nat /\ i >= 1 /\ i <= Len(listed) + size
        BY <1>7
      <3> QED BY <1>1, <1>2, <1>3, <1>4, <1>9, <3>2, <3>3
    <2> QED BY <2>1, <2>2, <2>3, <1>7, <1>10 DEF CursorInv, LoopInv
  <1>13. CASE Len(Page) < PAGE
    <2>1. /\ listed' = Reverse(all)
          /\ pc' = IF all = <<>> THEN "waiting" ELSE "fetching"
      BY <1>13 DEF List, all
    <2>2. Len(all) = top + Len(listed) - Cursor
      <3>1. size = top - Cursor
        BY <1>13, <1>4, <1>6
      <3>2. Len(all) = Len(listed) + size
        BY <1>7
      <3> QED BY <1>1, <1>2, <1>3, <3>1, <3>2
    <2>3. Reverse(all) = [i \in 1 .. Len(all) |-> all[Len(all) - i + 1]]
      BY DEF Reverse
    <2>4. \A i \in 1 .. Len(all) : all[Len(all) - i + 1] = Cursor + i
      <3> TAKE i \in 1 .. Len(all)
      <3>1. Len(all) - i + 1 \in 1 .. Len(all) /\ Len(all) \in Nat
        BY <1>7
      <3>2. all[Len(all) - i + 1] = top + Len(listed) - (Len(all) - i + 1) + 1
        BY <1>8, <3>1
      <3> QED BY <1>1, <1>2, <1>3, <2>2, <3>1, <3>2
    <2>5. Len(all) \in Nat
      BY <1>7
    <2>6. listed' \in Seq(Nat) /\ Len(listed') = Len(all)
      <3>1. \A i \in 1 .. Len(all) : all[Len(all) - i + 1] \in Nat
        BY <2>4, <1>1
      <3> QED BY <2>1, <2>3, <2>5, <3>1
    <2>7. RunsUp(listed, Cursor)'
      BY <1>11, <2>1, <2>3, <2>4, <2>6 DEF RunsUp
    <2>8. (Cursor + Len(listed))' <= Len(chain)
      BY <1>1, <1>2, <1>3, <1>9, <1>11, <2>2, <2>6
    <2>9. all = <<>> <=> listed' = <<>>
      BY <1>7, <2>6
    <2>10. ChainInv'
      BY <1>10, <2>1 DEF CursorInv, ChainInv
    <2>11. LoopInv'
      BY <1>10, <2>1, <2>6, <2>7, <2>8, <2>9 DEF CursorInv, LoopInv
    <2> QED BY <2>10, <2>11 DEF CursorInv
  <1> QED BY <1>12, <1>13

\* A batch is the beginning of the list.
LEMMA FetchKeeps == CursorInv /\ Fetch => CursorInv'
  <1> SUFFICES ASSUME CursorInv, Fetch PROVE CursorInv'
    OBVIOUS
  <1> DEFINE n == IF Len(listed) > FETCH_CONCURRENCY THEN FETCH_CONCURRENCY
                                                     ELSE Len(listed)
  <1>1. /\ pc = "fetching" /\ pc' = "applying"
        /\ batch' = SubSeq(listed, 1, n)
        /\ listed' = SubSeq(listed, n + 1, Len(listed))
        /\ UNCHANGED <<chain, start, db, disk>>
    BY DEF Fetch, world
  <1>2. Cursor' = Cursor /\ Reached' = Cursor
    BY <1>1 DEF Cursor, Reached
  <1>3. Cursor \in Nat /\ Len(chain) \in Nat
    BY CursorIsNat DEF CursorInv
  <1>4. /\ listed \in Seq(Nat) /\ listed # <<>>
        /\ RunsUp(listed, Cursor) /\ Cursor + Len(listed) <= Len(chain)
    BY <1>1 DEF CursorInv, LoopInv
  <1>5. n \in 1 .. Len(listed) /\ Len(listed) \in Nat
    BY <1>4, IndexerAssumption
  <1> HIDE DEF n
  <1>6. /\ batch' \in Seq(Nat) /\ Len(batch') = n
        /\ \A i \in 1 .. n : batch'[i] = listed[i]
    BY <1>1, <1>4, <1>5
  <1>7. /\ listed' \in Seq(Nat) /\ Len(listed') = Len(listed) - n
        /\ \A i \in 1 .. Len(listed) - n : listed'[i] = listed[n + i]
    BY <1>1, <1>4, <1>5
  <1>8. RunsUp(batch, Reached)'
    <2>1. ASSUME NEW i \in 1 .. n
          PROVE  batch'[i] = Cursor + i
      <3>1. i \in 1 .. Len(listed)
        BY <1>5
      <3> QED BY <1>4, <1>6, <3>1 DEF RunsUp
    <2> QED BY <2>1, <1>2, <1>6 DEF RunsUp
  <1>9. RunsUp(listed, Reached + Len(batch))'
    <2>1. ASSUME NEW i \in 1 .. Len(listed) - n
          PROVE  listed'[i] = Cursor + n + i
      <3>1. n + i \in 1 .. Len(listed)
        BY <1>5
      <3>2. listed[n + i] = Cursor + (n + i)
        BY <1>4, <3>1 DEF RunsUp
      <3> QED BY <1>3, <1>5, <1>7, <3>2
    <2> QED BY <2>1, <1>2, <1>6, <1>7 DEF RunsUp
  <1>10. (Reached + Len(batch) + Len(listed))' <= Len(chain')
    <2>1. Len(chain') = Len(chain) /\ Len(batch') = n /\ Len(listed') = Len(listed) - n
      BY <1>1, <1>6, <1>7
    <2>2. Cursor + n + (Len(listed) - n) <= Len(chain)
      BY <1>3, <1>4, <1>5
    <2> QED BY <1>2, <2>1, <2>2
  <1>11. ChainInv'
    BY <1>1 DEF CursorInv, ChainInv
  <1>12. LoopInv'
    <2>1. batch' # <<>>
      <3>1. Len(batch') # 0
        BY <1>5, <1>6
      <3> QED BY <3>1
    <2> QED BY <1>1, <1>6, <1>7, <1>8, <1>9, <1>10, <2>1 DEF LoopInv
  <1> QED BY <1>11, <1>12 DEF CursorInv

\* What is committed is the transaction right after the cursor.
LEMMA CommitNext ==
  ASSUME CursorInv, Commit
  PROVE  /\ Head(batch) = Cursor + 1
         /\ db'.cursor = Cursor + 1
         /\ Cursor' = Cursor + 1
  <1>1. Cursor \in Nat
    BY CursorIsNat DEF CursorInv
  <1>2. batch \in Seq(Nat) /\ batch # <<>> /\ RunsUp(batch, Cursor)
    BY DEF CursorInv, LoopInv, Commit, Reached
  <1>3. Head(batch) = Cursor + 1
    BY <1>1, <1>2 DEF RunsUp
  <1>4. db' = Committed(Head(batch)).db
    BY DEF Commit
  <1>5. db'.cursor = Head(batch)
    BY <1>4 DEF Committed, WithCursor
  <1> QED BY <1>1, <1>3, <1>5 DEF Cursor

LEMMA CommitKeeps == CursorInv /\ Commit => CursorInv'
  <1> SUFFICES ASSUME CursorInv, Commit PROVE CursorInv'
    OBVIOUS
  <1>1. /\ pc = "applying" /\ pc' = "publishing"
        /\ UNCHANGED <<chain, start, disk, listed, batch>>
    BY DEF Commit, world
  <1>2. Cursor \in Nat /\ Len(chain) \in Nat
    BY CursorIsNat DEF CursorInv
  <1>3. db'.cursor = Cursor + 1 /\ Cursor' = Cursor + 1
    BY CommitNext
  <1>4. Reached = Cursor /\ Reached' = Cursor
    BY <1>1, <1>2, <1>3 DEF Reached
  <1>5. /\ batch \in Seq(Nat) /\ batch # <<>> /\ listed \in Seq(Nat)
        /\ RunsUp(batch, Cursor) /\ RunsUp(listed, Cursor + Len(batch))
        /\ Cursor + Len(batch) + Len(listed) <= Len(chain)
    BY <1>1, <1>4 DEF CursorInv, LoopInv
  <1>6. Cursor + 1 <= Len(chain)
    <2>1. Len(batch) \in Nat /\ Len(batch) >= 1 /\ Len(listed) \in Nat
      BY <1>5
    <2> QED BY <2>1, <1>2, <1>5
  <1>7. ChainInv'
    BY <1>1, <1>2, <1>3, <1>6 DEF CursorInv, ChainInv
  <1>8. LoopInv'
    BY <1>1, <1>4, <1>5 DEF LoopInv, RunsUp
  <1> QED BY <1>7, <1>8 DEF CursorInv

LEMMA PublishKeeps == CursorInv /\ Publish => CursorInv'
  <1> SUFFICES ASSUME CursorInv, Publish PROVE CursorInv'
    OBVIOUS
  <1>1. /\ pc = "publishing" /\ batch' = Tail(batch)
        /\ pc' = IF batch' # <<>> THEN "applying"
                 ELSE IF listed # <<>> THEN "fetching" ELSE "waiting"
        /\ UNCHANGED <<chain, start, db, disk, listed>>
    BY DEF Publish, world
  <1>2. Cursor \in Nat /\ Len(chain) \in Nat /\ Cursor' = Cursor
    BY <1>1, CursorIsNat DEF CursorInv, Cursor
  <1>3. Reached = Cursor - 1 /\ Reached' = Cursor
    BY <1>1, <1>2 DEF Reached
  <1>4. /\ batch \in Seq(Nat) /\ batch # <<>> /\ listed \in Seq(Nat)
        /\ RunsUp(batch, Cursor - 1) /\ RunsUp(listed, Cursor - 1 + Len(batch))
        /\ Cursor - 1 + Len(batch) + Len(listed) <= Len(chain)
    BY <1>1, <1>3 DEF CursorInv, LoopInv
  <1>5. /\ batch' \in Seq(Nat) /\ Len(batch') = Len(batch) - 1
        /\ Len(batch) \in Nat /\ Len(batch) >= 1 /\ Len(listed) \in Nat
        /\ \A i \in 1 .. Len(batch) - 1 : batch'[i] = batch[i + 1]
    BY <1>1, <1>4
  <1>6. RunsUp(batch, Cursor)'
    <2>1. ASSUME NEW i \in 1 .. Len(batch) - 1
          PROVE  batch'[i] = Cursor + i
      <3>1. i + 1 \in 1 .. Len(batch)
        BY <1>5
      <3>2. batch[i + 1] = Cursor - 1 + (i + 1)
        BY <1>4, <3>1 DEF RunsUp
      <3> QED BY <1>2, <1>5, <3>2
    <2> QED BY <2>1, <1>2, <1>5 DEF RunsUp
  <1>7. RunsUp(listed, Cursor + Len(batch'))
    <2>1. Cursor + Len(batch') = Cursor - 1 + Len(batch)
      BY <1>2, <1>5
    <2> QED BY <2>1, <1>4
  <1>8. Cursor + Len(batch') + Len(listed) <= Len(chain)
    BY <1>2, <1>4, <1>5
  <1>9. ChainInv'
    BY <1>1 DEF CursorInv, ChainInv
  <1>10. LoopInv'
    <2>1. CASE batch' # <<>>
      <3>1. pc' = "applying"
        BY <1>1, <2>1
      <3> QED BY <1>1, <1>2, <1>3, <1>4, <1>5, <1>6, <1>7, <1>8, <2>1, <3>1
              DEF LoopInv, RunsUp
    <2>2. CASE batch' = <<>>
      <3>1. Len(batch') = 0
        BY <2>2
      <3>2. RunsUp(listed, Cursor) /\ Cursor + Len(listed) <= Len(chain)
        BY <1>2, <1>7, <1>8, <3>1
      <3>3. pc' = IF listed # <<>> THEN "fetching" ELSE "waiting"
        BY <1>1, <2>2
      <3> QED BY <1>1, <1>2, <1>4, <1>5, <3>2, <3>3 DEF LoopInv, RunsUp
    <2> QED BY <2>1, <2>2
  <1> QED BY <1>9, <1>10 DEF CursorInv

LEMMA CursorStep == CursorInv /\ [Next]_vars => CursorInv'
  <1> SUFFICES ASSUME CursorInv, [Next]_vars PROVE CursorInv'
    OBVIOUS
  <1>1. CASE UNCHANGED vars
    <2>1. UNCHANGED <<chain, start, db, disk, pc, listed, batch>>
      BY <1>1 DEF vars, world, loop
    <2> QED BY <2>1 DEF CursorInv, ChainInv, LoopInv, RunsUp, RunsDown, Cursor, Reached
  <1>2. CASE GiveUp
    BY <1>2, RestKeeps DEF GiveUp, Rest, world
  <1>3. CASE RequestFails
    BY <1>3, RestKeeps DEF RequestFails, Rest, world
  <1>4. CASE Crash
    BY <1>4, RestKeeps DEF Crash, Down, world
  <1>5. CASE LosePower
    BY <1>5, RestKeeps DEF LosePower, Down, world
  <1>6. CASE Checkpoint
    <2>1. UNCHANGED <<chain, start, db, pc, listed, batch>> /\ disk' = db
      BY <1>6 DEF Checkpoint, world, loop
    <2>2. Cursor' = Cursor /\ Reached' = Reached
      BY <2>1 DEF Cursor, Reached
    <2>3. ChainInv'
      BY <2>1 DEF CursorInv, ChainInv
    <2> QED BY <2>1, <2>2, <2>3 DEF CursorInv, LoopInv, RunsUp, RunsDown
  <1> QED BY <1>1, <1>2, <1>3, <1>4, <1>5, <1>6, ConfirmKeeps, BeginKeeps, ListKeeps,
             FetchKeeps, CommitKeeps, PublishKeeps DEF Next, Sync

-----------------------------------------------------------------------------

\* "A restart resumes where it stopped" (indexer.ts:6-7): the cursor moves
\* over one transaction at a time and only forward, unless power is lost, for
\* every chain, page size, batch size and number of faults.
THEOREM CursorMovesByOne == Spec => CursorAdvances
  <1>1. ASSUME CursorInv, [Next]_vars
        PROVE  [db' # db => Cursor' = Cursor + 1 \/ crashed' = "power"]_vars
    <2> SUFFICES ASSUME db' # db, crashed' # "power" PROVE Cursor' = Cursor + 1
      OBVIOUS
    <2>1. Commit
      BY <1>1 DEF vars, world, loop, Next, Sync, Confirm, Start, Wake, List, Fetch, GiveUp,
                  Publish, RequestFails, Checkpoint, Crash, LosePower
    <2> QED BY <1>1, <2>1, CommitNext
  <1> QED BY <1>1, CursorAtFirst, CursorStep, PTL DEF Spec, CursorAdvances

-----------------------------------------------------------------------------
(***************************************************************************)
(* The rows.  A token's row agrees with what the chain knew of the token   *)
(* at the cursor: an invariant of the database in memory and of the one on *)
(* the disk, each at its own cursor, since a loss of power brings the      *)
(* second back.                                                            *)
(***************************************************************************)

\* A token on chain; one that is not launched has no reserves and no trades.
ChainToken ==
  {t \in [status : TokenStatus, left : Int, trades : Int, volume : Int] :
     t.status = "none" => t = NoToken}

Row == [status : TokenStatus, left : Int, count : Int, volume : Int]

Database ==
  [cursor : Nat, tokens : [Mints -> Row],
   trades : Seq([key : Nat \X Nat, mint : Mints]), graduations : SUBSET Mints]

ChainEvent ==
  [name : {"tokenCreated", "trade", "curveCompleted", "curveReopened", "migrated"},
   mint : Mints, left : Int, amount : Int]

\* The tokens before transaction s.
Before(s) == IF s = 1 THEN [m \in Mints |-> NoToken] ELSE chain[s - 1].after

\* Not launched by any of the first s transactions.
NoneUntil(m, s) == \A k \in 1 .. s : chain[k].after[m].status = "none"

\* Every transaction starts from the tokens its predecessor left, and a token
\* that was launched stays so.
ChainOk ==
  \A s \in 1 .. Len(chain) :
    /\ chain[s] \in Transactions(Before(s))
    /\ chain[s].after \in [Mints -> ChainToken]
    /\ \A m \in Mints : chain[s].after[m].status = "none" => NoneUntil(m, s)

Agrees(d, m, t) ==
  /\ d.tokens[m].status = t.status
  /\ d.tokens[m].left = t.left
  /\ d.tokens[m].count = t.trades
  /\ d.tokens[m].volume = t.volume
  /\ m \in d.graduations <=> t.status = "migrated"

\* The keys of the trades up to event i of transaction s.
TradeKeys(s, i) ==
  {k \in KeysUpTo(s) : EventAt(k).name = "trade" /\ (k[1] < s \/ k[2] <= i)}

TradesAre(d, keys) ==
  /\ \A i, j \in 1 .. Len(d.trades) :
       i < j => Earlier(d.trades[i].key, d.trades[j].key)
  /\ {d.trades[i].key : i \in 1 .. Len(d.trades)} = keys

\* Four events at most: the key of an event has its index among 1 .. 4.
DatabaseInv(d) ==
  /\ d \in Database
  /\ d.cursor = 0 => d = EmptyDb
  /\ d.cursor # 0 =>
       /\ start < d.cursor /\ d.cursor <= Len(chain)
       /\ \A m \in Mints :
            LaunchedAfterStart(m) => Agrees(d, m, chain[d.cursor].after[m])
       /\ TradesAre(d, TradeKeys(d.cursor, 4))

\* The inductive invariant, with CursorInv.
RowsInv == ChainOk /\ DatabaseInv(db) /\ DatabaseInv(disk)

-----------------------------------------------------------------------------
(***************************************************************************)
(* One event.                                                              *)
(***************************************************************************)

\* What an event says of its token: the meaning of the five kinds of rows.
EventStep(t, e, u) ==
  \/ /\ e.name = "tokenCreated" /\ t.status = "none"
     /\ u.status = "trading" /\ u.left = e.left
     /\ u.trades = 0 /\ u.volume = 0
  \/ /\ e.name = "trade" /\ t.status # "none"
     /\ u.status = t.status /\ u.left = e.left
     /\ u.trades = t.trades + 1 /\ u.volume = t.volume + e.amount
  \/ /\ \/ e.name = "curveCompleted" /\ t.status = "trading" /\ u.status = "complete"
        \/ e.name = "curveReopened" /\ t.status = "complete" /\ u.status = "trading"
        \/ e.name = "migrated" /\ t.status = "complete" /\ u.status = "migrated"
     /\ u.left = t.left /\ u.trades = t.trades /\ u.volume = t.volume

\* What the writes of an event change: the row of its mint, and a trade.
LEMMA EventWrites ==
  ASSUME NEW d \in Database, NEW e \in ChainEvent, NEW key \in Nat \X Nat
  PROVE  LET w == ApplyEvent(d, e, key)
         IN  /\ w \in Database
             /\ w.cursor = d.cursor
             /\ \A m \in Mints \ {e.mint} :
                  /\ w.tokens[m] = d.tokens[m]
                  /\ m \in w.graduations <=> m \in d.graduations
             /\ w.trades = IF e.name = "trade" /\ ~HasTrade(d, key)
                           THEN Append(d.trades, [key |-> key, mint |-> e.mint])
                           ELSE d.trades
  <1> DEFINE w == ApplyEvent(d, e, key)
             m == e.mint
             Changes(x) == /\ x \in Database /\ x.cursor = d.cursor
                           /\ \A n \in Mints \ {m} :
                                /\ x.tokens[n] = d.tokens[n]
                                /\ n \in x.graduations <=> n \in d.graduations
  <1>1. m \in Mints /\ d.tokens[m] \in Row /\ e.left \in Int /\ e.amount \in Int
    BY DEF ChainEvent, Database
  <1>2. ASSUME NEW r \in Row
        PROVE  /\ Changes([d EXCEPT !.tokens[m] = r])
               /\ [d EXCEPT !.tokens[m] = r].trades = d.trades
    BY <1>1, <1>2 DEF Database
  <1>3. Changes(d)
    OBVIOUS
  <1>4. ASSUME NEW from, NEW to \in TokenStatus
        PROVE  /\ Changes(SetStatus(d, m, from, to))
               /\ SetStatus(d, m, from, to).trades = d.trades
    BY <1>1, <1>4 DEF SetStatus, Database, Row
  <1>5. CASE e.name = "tokenCreated"
    <2>1. w = InsertToken(d, e)
      BY <1>5 DEF ApplyEvent
    <2>2. [NoRow EXCEPT !.status = "trading", !.left = e.left] \in Row
      <3>1. NoRow \in Row
        BY DEF NoRow, Row, TokenStatus
      <3> QED BY <1>1, <3>1 DEF Row, TokenStatus
    <2> QED BY <1>2, <1>3, <1>5, <2>1, <2>2 DEF InsertToken
  <1>6. CASE e.name = "trade"
    <2> DEFINE trade == [key |-> key, mint |-> m]
               recorded == [d EXCEPT !.trades = Append(@, trade)]
               row == d.tokens[m]
               count == row.count + 1
               volume == row.volume + e.amount
               new == [row EXCEPT !.left = e.left, !.count = count,
                                  !.volume = volume]
    <2>1. w = IF HasTrade(d, key) THEN d
              ELSE IF ~Known(d, m) THEN recorded
              ELSE [recorded EXCEPT !.tokens[m] = new]
      BY <1>6 DEF ApplyEvent, InsertTrade
    <2>2. new \in Row
      <3>1. count \in Int /\ volume \in Int
        BY <1>1 DEF Row
      <3> HIDE DEF count, volume, row
      <3> QED BY <1>1, <3>1 DEF Row, row
    <2>3. trade \in [key : Nat \X Nat, mint : Mints]
      BY <1>1
    <2> HIDE DEF trade, new
    <2>4. /\ recorded \in Database /\ Changes(recorded)
          /\ recorded.trades = Append(d.trades, trade)
      <3> DEFINE trades == Append(d.trades, trade)
      <3>1. trades \in Seq([key : Nat \X Nat, mint : Mints])
        BY <2>3 DEF Database
      <3>2. recorded = [d EXCEPT !.trades = trades]
        BY DEF Database
      <3> HIDE DEF trades, recorded
      <3>3. /\ recorded \in Database /\ recorded.trades = trades
            /\ recorded.tokens = d.tokens /\ recorded.cursor = d.cursor
            /\ recorded.graduations = d.graduations
        BY <3>1, <3>2 DEF Database
      <3> QED BY <3>3 DEF trades
    <2> HIDE DEF recorded
    <2>5. /\ Changes([recorded EXCEPT !.tokens[m] = new])
          /\ [recorded EXCEPT !.tokens[m] = new].trades = recorded.trades
      BY <1>1, <2>2, <2>4 DEF Database
    <2> QED BY <1>3, <1>6, <2>1, <2>4, <2>5 DEF trade
  <1>7. CASE e.name = "curveCompleted"
    BY <1>4, <1>7 DEF ApplyEvent, MarkCompleted, TokenStatus
  <1>8. CASE e.name = "curveReopened"
    BY <1>4, <1>8 DEF ApplyEvent, MarkReopened, TokenStatus
  <1>9. CASE e.name = "migrated"
    <2> DEFINE x == SetStatus(d, m, {"trading", "complete"}, "migrated")
    <2>1. w = [x EXCEPT !.graduations = @ \cup {m}]
      BY <1>9 DEF ApplyEvent, InsertGraduation
    <2>2. Changes(x) /\ x.trades = d.trades
      BY <1>4 DEF TokenStatus
    <2> HIDE DEF x
    <2>3. Changes(w) /\ w.trades = d.trades
      BY <1>1, <2>1, <2>2 DEF Database
    <2> QED BY <1>9, <2>3
  <1> QED BY <1>5, <1>6, <1>7, <1>8, <1>9 DEF ChainEvent

\* The row follows the event, when the event's trade is not there yet.
LEMMA RowFollowsEvent ==
  ASSUME NEW d \in Database, NEW e \in ChainEvent, NEW key \in Nat \X Nat,
         NEW t \in ChainToken, NEW u \in ChainToken, EventStep(t, e, u),
         Agrees(d, e.mint, t), ~HasTrade(d, key)
  PROVE  Agrees(ApplyEvent(d, e, key), e.mint, u)
  <1> DEFINE w == ApplyEvent(d, e, key)
             m == e.mint
             row == d.tokens[m]
  <1>1. m \in Mints /\ row \in Row /\ e.left \in Int /\ e.amount \in Int
    BY DEF ChainEvent, Database
  <1>2. /\ row.status = t.status /\ row.left = t.left /\ row.count = t.trades
        /\ row.volume = t.volume /\ (m \in d.graduations <=> t.status = "migrated")
    BY DEF Agrees
  <1>3. t \in [status : TokenStatus, left : Int, trades : Int, volume : Int]
    BY DEF ChainToken
  <1>4. ASSUME NEW from, NEW to, t.status \in from
        PROVE  /\ SetStatus(d, m, from, to).tokens[m] = [row EXCEPT !.status = to]
               /\ SetStatus(d, m, from, to).graduations = d.graduations
    BY <1>1, <1>2, <1>4 DEF SetStatus, Database
  <1>5. CASE e.name = "tokenCreated"
    <2>1. /\ t.status = "none" /\ u.status = "trading" /\ u.left = e.left
          /\ u.trades = 0 /\ u.volume = 0
      BY <1>5 DEF EventStep
    <2>2. w = [d EXCEPT !.tokens[m] = [NoRow EXCEPT !.status = "trading",
                                                    !.left = e.left]]
      BY <1>2, <1>5, <2>1 DEF ApplyEvent, InsertToken, Known
    <2>3. w.tokens[m] = [NoRow EXCEPT !.status = "trading", !.left = e.left]
          /\ w.graduations = d.graduations
      BY <1>1, <2>2 DEF Database
    <2> QED BY <1>2, <2>1, <2>3 DEF Agrees, NoRow
  <1>6. CASE e.name = "trade"
    <2>1. /\ t.status # "none" /\ u.status = t.status /\ u.left = e.left
          /\ u.trades = t.trades + 1 /\ u.volume = t.volume + e.amount
      BY <1>6 DEF EventStep
    <2> DEFINE new == [row EXCEPT !.left = e.left, !.count = @ + 1,
                                  !.volume = @ + e.amount]
               recorded == [d EXCEPT !.trades = Append(@, [key |-> key, mint |-> m])]
    <2>2. w = [recorded EXCEPT !.tokens[m] = new]
      BY <1>2, <1>6, <2>1 DEF ApplyEvent, InsertTrade, Known
    <2>3. /\ new.status = row.status /\ new.left = e.left
          /\ new.count = row.count + 1 /\ new.volume = row.volume + e.amount
      BY <1>1 DEF Row
    <2> HIDE DEF new
    <2>4. w.tokens[m] = new /\ w.graduations = d.graduations
      BY <1>1, <2>2 DEF Database
    <2> QED BY <1>2, <2>1, <2>3, <2>4 DEF Agrees
  <1>7. CASE e.name = "curveCompleted"
    <2>1. /\ t.status = "trading" /\ u.status = "complete" /\ u.left = t.left
          /\ u.trades = t.trades /\ u.volume = t.volume
      BY <1>7 DEF EventStep
    <2>2. w = SetStatus(d, m, {"trading"}, "complete")
      BY <1>7 DEF ApplyEvent, MarkCompleted
    <2>3. /\ w.tokens[m] = [row EXCEPT !.status = "complete"]
          /\ w.graduations = d.graduations
      BY <1>4, <2>1, <2>2
    <2>4. ~(m \in w.graduations) /\ u.status # "migrated"
      BY <1>2, <1>3, <2>1, <2>3
    <2> HIDE DEF row
    <2> QED BY <1>1, <1>2, <1>3, <2>1, <2>3, <2>4 DEF Agrees, Row
  <1>8. CASE e.name = "curveReopened"
    <2>1. /\ t.status = "complete" /\ u.status = "trading" /\ u.left = t.left
          /\ u.trades = t.trades /\ u.volume = t.volume
      BY <1>8 DEF EventStep
    <2>2. w = SetStatus(d, m, {"complete"}, "trading")
      BY <1>8 DEF ApplyEvent, MarkReopened
    <2>3. /\ w.tokens[m] = [row EXCEPT !.status = "trading"]
          /\ w.graduations = d.graduations
      BY <1>4, <2>1, <2>2
    <2>4. ~(m \in w.graduations) /\ u.status # "migrated"
      BY <1>2, <1>3, <2>1, <2>3
    <2> HIDE DEF row
    <2> QED BY <1>1, <1>2, <1>3, <2>1, <2>3, <2>4 DEF Agrees, Row
  <1>9. CASE e.name = "migrated"
    <2>1. /\ t.status = "complete" /\ u.status = "migrated" /\ u.left = t.left
          /\ u.trades = t.trades /\ u.volume = t.volume
      BY <1>9 DEF EventStep
    <2> DEFINE x == SetStatus(d, m, {"trading", "complete"}, "migrated")
    <2>2. w = [x EXCEPT !.graduations = @ \cup {m}]
      BY <1>9 DEF ApplyEvent, InsertGraduation
    <2>3. x.tokens[m] = [row EXCEPT !.status = "migrated"]
      BY <1>4, <2>1
    <2>4. x \in Database
      BY <1>1 DEF SetStatus, Database, Row, TokenStatus
    <2> HIDE DEF x
    <2>5. w.tokens[m] = [row EXCEPT !.status = "migrated"] /\ m \in w.graduations
      BY <1>1, <2>2, <2>3, <2>4 DEF Database
    <2> QED BY <1>1, <1>2, <1>3, <2>1, <2>5 DEF Agrees, Row
  <1> QED BY <1>5, <1>6, <1>7, <1>8, <1>9 DEF ChainEvent

-----------------------------------------------------------------------------
(***************************************************************************)
(* The events of a transaction, one after the other.                       *)
(***************************************************************************)

\* f is the token before the first event, after the first one, and so on.
TokenPath(events, m, f) ==
  /\ \A i \in 0 .. Len(events) : f[i] \in ChainToken
  /\ \A i \in 1 .. Len(events) :
       events[i].mint = m /\ EventStep(f[i - 1], events[i], f[i])

\* tx turns the tokens t into tx.after by events of m alone, at most n of them.
Steps(t, m, tx, n) ==
  /\ tx.events \in Seq(ChainEvent) /\ Len(tx.events) <= n
  /\ tx.after \in [Mints -> ChainToken]
  /\ \A x \in Mints \ {m} : tx.after[x] = t[x]
  /\ \E f : /\ f[0] = t[m] /\ f[Len(tx.events)] = tx.after[m]
            /\ TokenPath(tx.events, m, f)

LEMMA EffectFields ==
  ASSUME NEW t \in [Mints -> ChainToken], NEW m \in Mints, NEW u \in ChainToken,
         NEW events
  PROVE  LET e == Effect(t, m, u, events)
         IN  /\ e.events = events
             /\ e.after \in [Mints -> ChainToken]
             /\ e.after[m] = u
             /\ \A x \in Mints \ {m} : e.after[x] = t[x]
  BY DEF Effect

LEMMA OneEvent ==
  ASSUME NEW t \in [Mints -> ChainToken], NEW m \in Mints, NEW u \in ChainToken,
         NEW a \in ChainEvent, a.mint = m, EventStep(t[m], a, u)
  PROVE  Steps(t, m, Effect(t, m, u, <<a>>), 2)
  <1> DEFINE e == Effect(t, m, u, <<a>>)
             f == [i \in 0 .. 1 |-> IF i = 0 THEN t[m] ELSE u]
  <1>1. /\ e.events = <<a>> /\ e.after \in [Mints -> ChainToken] /\ e.after[m] = u
        /\ \A x \in Mints \ {m} : e.after[x] = t[x]
    BY EffectFields
  <1> HIDE DEF e
  <1>2. e.events \in Seq(ChainEvent) /\ Len(e.events) = 1 /\ e.events[1] = a
    BY <1>1
  <1>3. f[0] = t[m] /\ f[1] = u
    OBVIOUS
  <1> HIDE DEF f
  <1>4. TokenPath(e.events, m, f)
    <2>1. ASSUME NEW i \in 0 .. 1 PROVE f[i] \in ChainToken
      <3>1. i = 0 \/ i = 1
        BY <2>1
      <3> QED BY <1>3, <3>1
    <2>2. ASSUME NEW i \in 1 .. 1
          PROVE  e.events[i].mint = m /\ EventStep(f[i - 1], e.events[i], f[i])
      <3>1. i = 1 /\ i - 1 = 0
        BY <2>2
      <3> QED BY <1>2, <1>3, <3>1
    <2> QED BY <1>2, <2>1, <2>2 DEF TokenPath
  <1>5. f[0] = t[m] /\ f[Len(e.events)] = e.after[m] /\ TokenPath(e.events, m, f)
    BY <1>1, <1>2, <1>3, <1>4
  <1>6. Steps(t, m, e, 2)
    BY <1>1, <1>2, <1>5 DEF Steps
  <1> QED BY <1>6 DEF e

LEMMA TwoEvents ==
  ASSUME NEW t \in [Mints -> ChainToken], NEW m \in Mints, NEW u \in ChainToken,
         NEW v \in ChainToken, NEW a \in ChainEvent, NEW b \in ChainEvent,
         a.mint = m, b.mint = m, EventStep(t[m], a, v), EventStep(v, b, u)
  PROVE  Steps(t, m, Effect(t, m, u, <<a, b>>), 2)
  <1> DEFINE e == Effect(t, m, u, <<a, b>>)
             f == [i \in 0 .. 2 |-> IF i = 0 THEN t[m] ELSE IF i = 1 THEN v ELSE u]
  <1>1. /\ e.events = <<a, b>> /\ e.after \in [Mints -> ChainToken] /\ e.after[m] = u
        /\ \A x \in Mints \ {m} : e.after[x] = t[x]
    BY EffectFields, SMTT(30)
  <1> HIDE DEF e
  <1>2. /\ e.events \in Seq(ChainEvent) /\ Len(e.events) = 2
        /\ e.events[1] = a /\ e.events[2] = b
    BY <1>1
  <1>3. f[0] = t[m] /\ f[1] = v /\ f[2] = u
    OBVIOUS
  <1> HIDE DEF f
  <1>4. TokenPath(e.events, m, f)
    <2>1. ASSUME NEW i \in 0 .. 2 PROVE f[i] \in ChainToken
      <3>1. i = 0 \/ i = 1 \/ i = 2
        BY <2>1
      <3> QED BY <1>3, <3>1
    <2>2. ASSUME NEW i \in 1 .. 2
          PROVE  e.events[i].mint = m /\ EventStep(f[i - 1], e.events[i], f[i])
      <3>1. (i = 1 /\ i - 1 = 0) \/ (i = 2 /\ i - 1 = 1)
        BY <2>2
      <3> QED BY <1>2, <1>3, <3>1
    <2> QED BY <1>2, <2>1, <2>2 DEF TokenPath
  <1>5. f[0] = t[m] /\ f[Len(e.events)] = e.after[m] /\ TokenPath(e.events, m, f)
    BY <1>1, <1>2, <1>3, <1>4
  <1>6. Steps(t, m, e, 2)
    BY <1>1, <1>2, <1>5 DEF Steps
  <1> QED BY <1>6 DEF e

\* The events of every instruction tell what it did to its token.
LEMMA CreationSteps ==
  ASSUME NEW t \in [Mints -> ChainToken], NEW m \in Mints, t[m].status = "none"
  PROVE  Steps(t, m, Creation(t, m), 2)
  <1> DEFINE a == Event("tokenCreated", m, Stock, 0)
             u == [NoToken EXCEPT !.status = "trading", !.left = Stock]
  <1>1. /\ u.status = "trading" /\ u.left = Stock /\ u.trades = 0 /\ u.volume = 0
        /\ u \in ChainToken
    <2>1. /\ NoToken \in [status : TokenStatus, left : Int, trades : Int, volume : Int]
          /\ NoToken.trades = 0 /\ NoToken.volume = 0
      BY DEF NoToken, TokenStatus
    <2>2. u \in [status : TokenStatus, left : Int, trades : Int, volume : Int]
      <3>1. Stock \in Int /\ "trading" \in TokenStatus
        BY ChainEventsAssumption DEF TokenStatus
      <3> QED BY <2>1, <3>1
    <2>3. u.status = "trading" /\ u.left = Stock /\ u.trades = 0 /\ u.volume = 0
      BY <2>1
    <2> QED BY <2>2, <2>3 DEF ChainToken
  <1>2. a \in ChainEvent /\ a.mint = m /\ a.name = "tokenCreated" /\ a.left = Stock
    BY ChainEventsAssumption DEF Event, ChainEvent
  <1>3. EventStep(t[m], a, u)
    <2> HIDE DEF a, u
    <2> QED BY <1>1, <1>2 DEF EventStep
  <1>4. Creation(t, m) = Effect(t, m, u, <<a>>)
    BY DEF Creation
  <1> HIDE DEF a, u
  <1> QED BY <1>1, <1>2, <1>3, <1>4, OneEvent

LEMMA GraduationSteps ==
  ASSUME NEW t \in [Mints -> ChainToken], NEW m \in Mints, t[m].status = "complete"
  PROVE  Steps(t, m, Graduation(t, m), 2)
  <1> DEFINE a == Event("migrated", m, 0, 0)
             u == [t[m] EXCEPT !.status = "migrated"]
  <1>0. t[m] \in ChainToken
    OBVIOUS
  <1>1. /\ u.status = "migrated" /\ u.left = t[m].left /\ u.trades = t[m].trades
        /\ u.volume = t[m].volume /\ u \in ChainToken
    BY <1>0 DEF ChainToken, TokenStatus
  <1>2. a \in ChainEvent /\ a.mint = m /\ a.name = "migrated"
    BY DEF Event, ChainEvent
  <1>3. EventStep(t[m], a, u)
    <2> HIDE DEF a, u
    <2> QED BY <1>1, <1>2 DEF EventStep
  <1>4. Graduation(t, m) = Effect(t, m, u, <<a>>)
    BY DEF Graduation
  <1> HIDE DEF a, u
  <1> QED BY <1>1, <1>2, <1>3, <1>4, OneEvent

LEMMA ConcatOne ==
  ASSUME NEW a, NEW b
  PROVE  <<a>> \o <<>> = <<a>> /\ <<>> \o <<a>> = <<a>> /\ <<a>> \o <<b>> = <<a, b>>
  <1> DEFINE S == {a, b}
             x == <<a>>  y == <<b>>  z == <<a, b>>
  <1>1. x \in Seq(S) /\ y \in Seq(S) /\ z \in Seq(S)
    OBVIOUS
  <1>2. x \o <<>> = x /\ <<>> \o x = x
    <2> HIDE DEF x, S
    <2> QED BY <1>1, ConcatEmptySeq
  <1>3. x \o y = z
    <2>1. Len(x) = 1 /\ Len(y) = 1 /\ Len(z) = 2 /\ x[1] = a /\ y[1] = b
          /\ z[1] = a /\ z[2] = b
      OBVIOUS
    <2> HIDE DEF S, x, y, z
    <2>2. /\ x \o y \in Seq(S) /\ Len(x \o y) = 2
          /\ (x \o y)[1] = a /\ (x \o y)[2] = b
      <3>1. /\ x \o y \in Seq(S) /\ Len(x \o y) = Len(x) + Len(y)
            /\ \A i \in 1 .. Len(x) + Len(y) :
                 (x \o y)[i] = IF i <= Len(x) THEN x[i] ELSE y[i - Len(x)]
        BY <1>1, ConcatProperties
      <3>2. 1 \in 1 .. Len(x) + Len(y) /\ 2 \in 1 .. Len(x) + Len(y)
        BY <2>1
      <3>3. (x \o y)[1] = x[1] /\ (x \o y)[2] = y[2 - 1]
        BY <2>1, <3>1, <3>2
      <3> QED BY <2>1, <3>1, <3>3
    <2>3. \A i \in 1 .. 2 : (x \o y)[i] = z[i]
      <3>1. \A i \in 1 .. 2 : i = 1 \/ i = 2
        OBVIOUS
      <3> QED BY <2>1, <2>2, <3>1
    <2> QED BY <1>1, <2>1, <2>2, <2>3, SeqEqual
  <1> QED BY <1>2, <1>3

\* The tokens of a trade: the new rest, one more trade and its volume.
Traded(t, left, n, status) ==
  [t EXCEPT !.left = left, !.trades = @ + 1, !.volume = @ + n, !.status = status]

LEMMA TradedToken ==
  ASSUME NEW t \in ChainToken, NEW left \in Int, NEW n \in Int,
         NEW status \in TokenStatus, status # "none"
  PROVE  LET u == Traded(t, left, n, status)
         IN  /\ u \in ChainToken
             /\ u.status = status /\ u.left = left
             /\ u.trades = t.trades + 1 /\ u.volume = t.volume + n
  <1> DEFINE trades == t.trades + 1
             volume == t.volume + n
             u == [t EXCEPT !.left = left, !.trades = trades, !.volume = volume,
                            !.status = status]
  <1>1. t \in [status : TokenStatus, left : Int, trades : Int, volume : Int]
    BY DEF ChainToken
  <1>2. trades \in Int /\ volume \in Int
    BY <1>1
  <1>3. /\ u \in [status : TokenStatus, left : Int, trades : Int, volume : Int]
        /\ u.status = status /\ u.left = left /\ u.trades = trades /\ u.volume = volume
    <2> HIDE DEF trades, volume
    <2> QED BY <1>1, <1>2
  <1>4. u \in ChainToken
    BY <1>3 DEF ChainToken
  <1> QED BY <1>3, <1>4 DEF Traded

LEMMA PurchaseSteps ==
  ASSUME NEW t \in [Mints -> ChainToken], NEW m \in Mints, t[m].status = "trading",
         NEW n \in Int
  PROVE  Steps(t, m, Purchase(t, m, n), 2)
  <1> DEFINE k == t[m]
             left == k.left - n
             last == left = 0
             a == Event("trade", m, left, n)
             b == Event("curveCompleted", m, 0, 0)
             status == IF last THEN "complete" ELSE k.status
             u == Traded(k, left, n, status)
             v == Traded(k, left, n, "trading")
  <1>1. k \in ChainToken /\ k.left \in Int /\ left \in Int
    BY DEF ChainToken
  <1>2. status \in TokenStatus /\ status # "none" /\ "trading" \in TokenStatus
        /\ (last => status = "complete") /\ (~last => status = "trading")
    BY DEF TokenStatus
  <1>3. /\ u \in ChainToken /\ u.status = status /\ u.left = left
        /\ u.trades = k.trades + 1 /\ u.volume = k.volume + n
        /\ v \in ChainToken /\ v.status = "trading" /\ v.left = left
        /\ v.trades = k.trades + 1 /\ v.volume = k.volume + n
    <2> HIDE DEF k, left, status
    <2> QED BY <1>1, <1>2, TradedToken
  <1>4. /\ a \in ChainEvent /\ a.mint = m /\ a.name = "trade" /\ a.left = left
        /\ a.amount = n
        /\ b \in ChainEvent /\ b.mint = m /\ b.name = "curveCompleted"
    <2> HIDE DEF left
    <2> QED BY <1>1 DEF Event, ChainEvent
  <1>5. Purchase(t, m, n) =
          Effect(t, m, u, <<a>> \o IF last THEN <<b>> ELSE <<>>)
    BY DEF Purchase, Traded
  <1>6. k.status = "trading"
    OBVIOUS
  <1> HIDE DEF u, v, a, b, status, left
  <1>7. CASE last
    <2>1. EventStep(k, a, v) /\ EventStep(v, b, u)
      BY <1>2, <1>3, <1>4, <1>6, <1>7 DEF EventStep
    <2>2. Purchase(t, m, n) = Effect(t, m, u, <<a, b>>)
      BY <1>5, <1>7, ConcatOne
    <2> QED BY <1>3, <1>4, <2>1, <2>2, TwoEvents
  <1>8. CASE ~last
    <2>1. EventStep(k, a, u)
      BY <1>2, <1>3, <1>4, <1>6, <1>8 DEF EventStep
    <2>2. Purchase(t, m, n) = Effect(t, m, u, <<a>>)
      BY <1>5, <1>8, ConcatOne
    <2> QED BY <1>3, <1>4, <2>1, <2>2, OneEvent
  <1> QED BY <1>7, <1>8

LEMMA SaleSteps ==
  ASSUME NEW t \in [Mints -> ChainToken], NEW m \in Mints,
         t[m].status \in {"trading", "complete"}, NEW n \in Int
  PROVE  Steps(t, m, Sale(t, m, n), 2)
  <1> DEFINE k == t[m]
             left == k.left + n
             reopened == k.status = "complete"
             a == Event("trade", m, left, n)
             b == Event("curveReopened", m, 0, 0)
             u == Traded(k, left, n, "trading")
             v == [k EXCEPT !.status = "trading"]
  <1>1. k \in ChainToken /\ k.left \in Int /\ left \in Int
    BY DEF ChainToken
  <1>2. "trading" \in TokenStatus
    BY DEF TokenStatus
  <1>3. /\ u \in ChainToken /\ u.status = "trading" /\ u.left = left
        /\ u.trades = k.trades + 1 /\ u.volume = k.volume + n
    <2> HIDE DEF k, left
    <2> QED BY <1>1, <1>2, TradedToken
  <1>4. /\ v \in ChainToken /\ v.status = "trading" /\ v.left = k.left
        /\ v.trades = k.trades /\ v.volume = k.volume
    <2> HIDE DEF k
    <2> QED BY <1>1, <1>2 DEF ChainToken
  <1>5. /\ a \in ChainEvent /\ a.mint = m /\ a.name = "trade" /\ a.left = left
        /\ a.amount = n
        /\ b \in ChainEvent /\ b.mint = m /\ b.name = "curveReopened"
    <2> HIDE DEF left
    <2> QED BY <1>1 DEF Event, ChainEvent
  <1>6. Sale(t, m, n) =
          Effect(t, m, u, (IF reopened THEN <<b>> ELSE <<>>) \o <<a>>)
    BY DEF Sale, Traded
  <1> HIDE DEF u, v, a, b, left
  <1>7. CASE reopened
    <2>1. EventStep(k, b, v) /\ EventStep(v, a, u)
      BY <1>3, <1>4, <1>5, <1>7 DEF EventStep
    <2>2. Sale(t, m, n) = Effect(t, m, u, <<b, a>>)
      BY <1>6, <1>7, ConcatOne
    <2> QED BY <1>3, <1>4, <1>5, <2>1, <2>2, TwoEvents
  <1>8. CASE ~reopened
    <2>1. EventStep(k, a, u)
      BY <1>3, <1>5, <1>8 DEF EventStep
    <2>2. Sale(t, m, n) = Effect(t, m, u, <<a>>)
      BY <1>6, <1>8, ConcatOne
    <2> QED BY <1>3, <1>5, <2>1, <2>2, OneEvent
  <1> QED BY <1>7, <1>8

LEMMA InstructionSteps ==
  ASSUME NEW t \in [Mints -> ChainToken], NEW m \in Mints, NEW e \in Instructions(t, m)
  PROVE  Steps(t, m, e, 2)
  <1>1. t[m] \in ChainToken /\ t[m].left \in Int
    BY DEF ChainToken
  <1>2. CASE t[m].status = "none"
    BY <1>2, CreationSteps DEF Instructions
  <1>3. CASE t[m].status = "trading"
    <2>1. \/ \E n \in 1 .. t[m].left : e = Purchase(t, m, n)
          \/ \E n \in 1 .. Stock - t[m].left : e = Sale(t, m, n)
      BY <1>3 DEF Instructions
    <2>2. \A n \in 1 .. t[m].left : n \in Int
      OBVIOUS
    <2>3. \A n \in 1 .. Stock - t[m].left : n \in Int
      OBVIOUS
    <2> QED BY <1>3, <2>1, <2>2, <2>3, PurchaseSteps, SaleSteps
  <1>4. CASE t[m].status = "complete"
    <2>1. e = Graduation(t, m) \/ \E n \in 1 .. Stock : e = Sale(t, m, n)
      BY <1>4 DEF Instructions
    <2> QED BY <1>4, <2>1, GraduationSteps, SaleSteps
  <1>5. CASE t[m].status = "migrated"
    BY <1>5 DEF Instructions
  <1> QED BY <1>1, <1>2, <1>3, <1>4, <1>5 DEF ChainToken, TokenStatus

\* Two instructions on the same token: the paths join at the token between.
LEMMA PairSteps ==
  ASSUME NEW t \in [Mints -> ChainToken], NEW m \in Mints,
         NEW first \in Instructions(t, m),
         NEW second \in Instructions(first.after, m),
         NEW e, e.events = first.events \o second.events, e.after = second.after
  PROVE  Steps(t, m, e, 4)
  <1> DEFINE x == first.events  y == second.events  z == first.events \o second.events
  <1>1. Steps(t, m, first, 2)
    BY InstructionSteps
  <1>2. first.after \in [Mints -> ChainToken]
    BY <1>1 DEF Steps
  <1>3. Steps(first.after, m, second, 2)
    BY <1>2, InstructionSteps
  <1>4. PICK f : f[0] = t[m] /\ f[Len(x)] = first.after[m] /\ TokenPath(x, m, f)
    BY <1>1 DEF Steps
  <1>5. PICK g : /\ g[0] = first.after[m] /\ g[Len(y)] = second.after[m]
                 /\ TokenPath(y, m, g)
    BY <1>3 DEF Steps
  <1>6. x \in Seq(ChainEvent) /\ y \in Seq(ChainEvent) /\ Len(x) <= 2 /\ Len(y) <= 2
    BY <1>1, <1>3 DEF Steps
  <1>7. /\ second.after \in [Mints -> ChainToken]
        /\ \A n \in Mints \ {m} : second.after[n] = t[n]
    BY <1>1, <1>3 DEF Steps
  <1> DEFINE p == Len(x)  q == Len(y)
             h == [i \in 0 .. p + q |-> IF i <= p THEN f[i] ELSE g[i - p]]
  <1>8. p \in Nat /\ q \in Nat /\ p + q <= 4
    <2> HIDE DEF x, y
    <2>1. p \in Nat /\ q \in Nat /\ p <= 2 /\ q <= 2
      BY <1>6
    <2> HIDE DEF p, q
    <2> QED BY <2>1
  <1>9. /\ z \in Seq(ChainEvent) /\ Len(z) = p + q
        /\ \A i \in 1 .. p + q : z[i] = IF i <= p THEN x[i] ELSE y[i - p]
    <2> HIDE DEF x, y
    <2> QED BY <1>6, ConcatProperties DEF x, y
  <1>10. \A i \in 0 .. p + q : h[i] = IF i <= p THEN f[i] ELSE g[i - p]
    BY DEF h
  <1>11. /\ \A i \in 0 .. p : f[i] \in ChainToken
         /\ \A i \in 1 .. p : x[i].mint = m /\ EventStep(f[i - 1], x[i], f[i])
    BY <1>4 DEF TokenPath
  <1>12. /\ \A i \in 0 .. q : g[i] \in ChainToken
         /\ \A i \in 1 .. q : y[i].mint = m /\ EventStep(g[i - 1], y[i], g[i])
    BY <1>5 DEF TokenPath
  <1>13. f[p] = g[0]
    BY <1>4, <1>5
  <1>14. e.events = z
    OBVIOUS
  <1> HIDE DEF x, y, z, p, q, h
  <1>15. ASSUME NEW i \in 0 .. p + q PROVE h[i] \in ChainToken
    <2>1. CASE i <= p
      BY <1>8, <1>10, <1>11, <2>1
    <2>2. CASE ~(i <= p)
      <3>1. i - p \in 0 .. q
        BY <1>8, <2>2
      <3> QED BY <1>10, <1>12, <2>2, <3>1
    <2> QED BY <2>1, <2>2
  <1>16. ASSUME NEW i \in 1 .. p + q
         PROVE  z[i].mint = m /\ EventStep(h[i - 1], z[i], h[i])
    <2>1. i \in Nat /\ i - 1 \in 0 .. p + q /\ i \in 0 .. p + q
      BY <1>8
    <2>2. CASE i <= p
      <3>1. h[i - 1] = f[i - 1] /\ h[i] = f[i] /\ z[i] = x[i] /\ i \in 1 .. p
        BY <1>8, <1>9, <1>10, <2>1, <2>2
      <3> QED BY <1>11, <3>1
    <2>3. CASE ~(i <= p)
      <3> DEFINE j == i - p
      <3>1. j \in 1 .. q /\ (i - 1) - p = j - 1
        BY <1>8, <2>3
      <3>2. h[i] = g[j] /\ z[i] = y[j]
        BY <1>8, <1>9, <1>10, <2>1, <2>3
      <3>3. h[i - 1] = g[j - 1]
        <4>1. CASE i - 1 <= p
          <5>1. i - 1 = p /\ j = 1
            BY <1>8, <2>1, <2>3, <4>1
          <5> QED BY <1>8, <1>10, <1>13, <2>1, <5>1
        <4>2. CASE ~(i - 1 <= p)
          BY <1>10, <2>1, <3>1, <4>2
        <4> QED BY <4>1, <4>2
      <3> QED BY <1>12, <3>1, <3>2, <3>3
    <2> QED BY <2>2, <2>3
  <1>17. TokenPath(z, m, h)
    BY <1>9, <1>15, <1>16 DEF TokenPath
  <1>18. h[0] = t[m] /\ h[Len(z)] = second.after[m]
    <2>1. 0 \in 0 .. p + q /\ p + q \in 0 .. p + q /\ 0 <= p
      BY <1>8
    <2>2. h[0] = f[0]
      BY <1>10, <2>1
    <2>3. CASE q = 0
      BY <1>4, <1>5, <1>8, <1>9, <1>10, <1>13, <2>1, <2>2, <2>3 DEF q
    <2>4. CASE q # 0
      <3>1. ~(p + q <= p) /\ (p + q) - p = q
        BY <1>8, <2>4
      <3>2. h[p + q] = g[q]
        BY <1>10, <2>1, <3>1
      <3> QED BY <1>4, <1>5, <1>9, <2>2, <3>2 DEF q
    <2> QED BY <2>3, <2>4
  <1>19. Len(z) <= 4
    BY <1>8, <1>9
  <1> QED BY <1>7, <1>9, <1>14, <1>17, <1>18, <1>19 DEF Steps

\* A transaction either has no event and changes no token, or tells of one.
LEMMA TransactionSteps ==
  ASSUME NEW t \in [Mints -> ChainToken], NEW tx \in Transactions(t)
  PROVE  /\ tx.failed => tx.events = <<>>
         /\ \/ tx.events = <<>> /\ tx.after = t
            \/ \E m \in Mints : Steps(t, m, tx, 4)
  <1>1. CASE tx = Failing(t) \/ tx = Unrelated(t)
    BY <1>1 DEF Failing, Unrelated
  <1>2. CASE tx \in Succeeding(t)
    <2>1. PICK e \in UNION {Instructions(t, m) \cup Pairs(t, m) : m \in Mints} :
            tx = [failed |-> FALSE, events |-> e.events, after |-> e.after]
      BY <1>2 DEF Succeeding
    <2>2. PICK m \in Mints : e \in Instructions(t, m) \cup Pairs(t, m)
      BY <2>1
    <2>3. ~tx.failed /\ tx.events = e.events /\ tx.after = e.after
      BY <2>1
    <2>4. CASE e \in Instructions(t, m)
      <3>1. Steps(t, m, e, 2)
        BY <2>4, InstructionSteps
      <3>2. Steps(t, m, tx, 4)
        BY <2>3, <3>1 DEF Steps
      <3> QED BY <2>3, <3>2
    <2>5. CASE e \in Pairs(t, m)
      <3>0. PICK first \in Instructions(t, m) :
              \E x \in Instructions(first.after, m) :
                e = [x EXCEPT !.events = first.events \o @]
        BY <2>5 DEF Pairs
      <3>1. PICK second \in Instructions(first.after, m) :
              e = [second EXCEPT !.events = first.events \o @]
        BY <3>0
      <3>2. tx.events = first.events \o second.events /\ tx.after = second.after
        <4>1. DOMAIN second = {"events", "after"}
          <5> DEFINE Shaped(x) == DOMAIN x = {"events", "after"}
          <5>1. \A s, n, u, events : Shaped(Effect(s, n, u, events))
            BY DEF Effect
          <5>2. /\ Shaped(Creation(first.after, m)) /\ Shaped(Graduation(first.after, m))
                /\ \A n : Shaped(Purchase(first.after, m, n))
                /\ \A n : Shaped(Sale(first.after, m, n))
            BY <5>1, Zenon DEF Creation, Graduation, Purchase, Sale
          <5> HIDE DEF Shaped
          <5>3. Shaped(second)
            BY <5>2 DEF Instructions
          <5> QED BY <5>3 DEF Shaped
        <4> QED BY <2>3, <3>1, <4>1
      <3> QED BY <2>3, <3>2, PairSteps
    <2> QED BY <2>2, <2>4, <2>5
  <1> QED BY <1>1, <1>2 DEF Transactions

\* No event takes a token back to where it was not launched.
LEMMA OnceLaunched ==
  ASSUME NEW t \in [Mints -> ChainToken], NEW tx \in Transactions(t), NEW m \in Mints,
         tx.after[m].status = "none"
  PROVE  t[m].status = "none"
  <1>1. CASE tx.after = t
    BY <1>1
  <1>2. ASSUME NEW x \in Mints, Steps(t, x, tx, 4) PROVE t[m].status = "none"
    <2>1. CASE x # m
      BY <1>2, <2>1 DEF Steps
    <2>2. CASE x = m
      <3> DEFINE n == Len(tx.events)
      <3>1. PICK f : f[0] = t[m] /\ f[n] = tx.after[m] /\ TokenPath(tx.events, m, f)
        BY <1>2, <2>2 DEF Steps
      <3>2. n \in Nat
        BY <1>2 DEF Steps
      <3>3. \A i \in 1 .. n : EventStep(f[i - 1], tx.events[i], f[i])
        BY <3>1 DEF TokenPath
      <3> HIDE DEF n
      <3>4. CASE n = 0
        BY <3>1, <3>4
      <3>5. CASE n # 0
        <4>1. n \in 1 .. n
          BY <3>2, <3>5
        <4>2. EventStep(f[n - 1], tx.events[n], f[n])
          BY <3>3, <4>1
        <4>3. f[n].status # "none"
          BY <4>2 DEF EventStep
        <4> QED BY <3>1, <4>3
      <3> QED BY <3>4, <3>5
    <2> QED BY <2>1, <2>2
  <1> QED BY <1>1, <1>2, TransactionSteps

-----------------------------------------------------------------------------
(***************************************************************************)
(* A transaction of the database.                                          *)
(***************************************************************************)

EventsOf(s) == IF s \in got THEN chain[s].events ELSE <<>>

\* r is the database before the first event, after the first one, and so on.
DatabasePath(d, s, r) ==
  /\ r[0] = d
  /\ \A i \in 1 .. Len(EventsOf(s)) :
       r[i] = ApplyEvent(r[i - 1], EventsOf(s)[i], <<s, i>>)

\* l is what is announced of the first event, of the first two, and so on.
NotesPath(s, r, l) ==
  /\ l[0] = <<>>
  /\ \A i \in 1 .. Len(EventsOf(s)) :
       l[i] = IF Announced(r[i - 1], EventsOf(s)[i], <<s, i>>)
              THEN Append(l[i - 1], Notification(r[i], EventsOf(s)[i], <<s, i>>))
              ELSE l[i - 1]

\* The rows and the notes of Applied exist: for at most four events they can
\* be written down.
LEMMA AppliedPath ==
  ASSUME NEW d, NEW s, Len(EventsOf(s)) \in 0 .. 4
  PROVE  \E r, l : /\ DatabasePath(d, s, r) /\ NotesPath(s, r, l)
                   /\ Applied(d, s).db = r[Len(EventsOf(s))]
                   /\ Applied(d, s).live = l[Len(EventsOf(s))]
  <1> DEFINE events == EventsOf(s)
             n == Len(events)
             Body(r, i) == IF i = 0 THEN d
                           ELSE ApplyEvent(r[i - 1], events[i], <<s, i>>)
             rows[i \in 0 .. Len(events)] ==
               IF i = 0 THEN d
               ELSE LET before == rows[i - 1]
                    IN ApplyEvent(before, events[i], <<s, i>>)
             r1 == ApplyEvent(d, events[1], <<s, 1>>)
             r2 == ApplyEvent(r1, events[2], <<s, 2>>)
             r3 == ApplyEvent(r2, events[3], <<s, 3>>)
             r4 == ApplyEvent(r3, events[4], <<s, 4>>)
             f == [i \in 0 .. n |-> IF i = 0 THEN d ELSE IF i = 1 THEN r1
                                    ELSE IF i = 2 THEN r2 ELSE IF i = 3 THEN r3
                                    ELSE r4]
             Noted(l, i) == IF Announced(rows[i - 1], events[i], <<s, i>>)
                            THEN Append(l, Notification(rows[i], events[i], <<s, i>>))
                            ELSE l
             Note(l, i) == IF i = 0 THEN <<>> ELSE Noted(l[i - 1], i)
             notes[i \in 0 .. Len(events)] ==
               IF i = 0 THEN <<>>
               ELSE LET before == rows[i - 1]
                        after  == rows[i]
                    IN IF Announced(before, events[i], <<s, i>>)
                         THEN Append(notes[i - 1],
                                     Notification(after, events[i], <<s, i>>))
                         ELSE notes[i - 1]
             l1 == Noted(<<>>, 1)
             l2 == Noted(l1, 2)
             l3 == Noted(l2, 3)
             l4 == Noted(l3, 4)
             g == [i \in 0 .. n |-> IF i = 0 THEN <<>> ELSE IF i = 1 THEN l1
                                    ELSE IF i = 2 THEN l2 ELSE IF i = 3 THEN l3
                                    ELSE l4]
  <1>1. n \in 0 .. 4
    OBVIOUS
  <1>2. ASSUME NEW i \in 0 .. n
        PROVE  /\ i = 0 \/ i = 1 \/ i = 2 \/ i = 3 \/ i = 4
               /\ i # 0 => i - 1 \in 0 .. n
    <2> HIDE DEF n, events
    <2> QED BY <1>1
  <1>3. f = [i \in 0 .. n |-> Body(f, i)]
    <2>1. ASSUME NEW i \in 0 .. n PROVE f[i] = Body(f, i)
      <3>1. \A j \in 0 .. n : f[j] = IF j = 0 THEN d ELSE IF j = 1 THEN r1
                                     ELSE IF j = 2 THEN r2 ELSE IF j = 3 THEN r3
                                     ELSE r4
        OBVIOUS
      <3> HIDE DEF f, n, events
      <3> QED BY <1>2, <3>1
    <2>2. f = [i \in 0 .. n |-> f[i]]
      OBVIOUS
    <2> HIDE DEF f, Body, n
    <2> QED BY <2>1, <2>2
  <1>4. rows = [i \in 0 .. n |-> Body(rows, i)]
    <2>1. \E x : x = [i \in 0 .. n |-> Body(x, i)]
      BY <1>3
    <2>2. rows = CHOOSE x : x = [i \in 0 .. n |-> Body(x, i)]
      BY DEF rows
    <2> HIDE DEF rows, Body, f, n, events
    <2> QED BY <2>1, <2>2
  <1>5. g = [i \in 0 .. n |-> Note(g, i)]
    <2>1. ASSUME NEW i \in 0 .. n PROVE g[i] = Note(g, i)
      <3>1. \A j \in 0 .. n : g[j] = IF j = 0 THEN <<>> ELSE IF j = 1 THEN l1
                                     ELSE IF j = 2 THEN l2 ELSE IF j = 3 THEN l3
                                     ELSE l4
        OBVIOUS
      <3> HIDE DEF g, n, events, Noted
      <3> QED BY <1>2, <3>1
    <2>2. g = [i \in 0 .. n |-> g[i]]
      OBVIOUS
    <2> HIDE DEF g, Note, n
    <2> QED BY <2>1, <2>2
  <1>6. notes = [i \in 0 .. n |-> Note(notes, i)]
    <2>1. \E x : x = [i \in 0 .. n |-> Note(x, i)]
      BY <1>5
    <2>2. notes = CHOOSE x : x = [i \in 0 .. n |-> Note(x, i)]
      <3> HIDE DEF rows
      <3> QED BY DEF notes
    <2> HIDE DEF notes, rows, Note, g, n, events
    <2> QED BY <2>1, <2>2
  <1>7. Applied(d, s).db = rows[n] /\ Applied(d, s).live = notes[n]
    BY DEF Applied, EventsOf
  <1> HIDE DEF rows, notes
  <1>8. \A i \in 0 .. n : rows[i] = Body(rows, i) /\ notes[i] = Note(notes, i)
    <2>1. \A i \in 0 .. n : rows[i] = Body(rows, i)
      BY <1>4
    <2>2. \A i \in 0 .. n : notes[i] = Note(notes, i)
      <3> HIDE DEF Note, n
      <3> QED BY <1>6
    <2> QED BY <2>1, <2>2
  <1>9. rows[0] = d /\ notes[0] = <<>>
    <2>1. 0 \in 0 .. n
      <3> HIDE DEF n
      <3> QED BY <1>1
    <2> HIDE DEF Noted
    <2> QED BY <1>8, <2>1
  <1>10. ASSUME NEW i \in 1 .. n
        PROVE  /\ rows[i] = ApplyEvent(rows[i - 1], events[i], <<s, i>>)
               /\ notes[i] = Noted(notes[i - 1], i)
    <2>1. i \in 0 .. n /\ i # 0
      <3> HIDE DEF n
      <3> QED BY <1>1
    <2> HIDE DEF Noted
    <2> QED BY <1>8, <2>1
  <1>11. DatabasePath(d, s, rows) /\ NotesPath(s, rows, notes)
    BY <1>9, <1>10 DEF DatabasePath, NotesPath
  <1> QED BY <1>7, <1>11

-----------------------------------------------------------------------------
(***************************************************************************)
(* The trades: every event has a key of its own, later than all before.    *)
(***************************************************************************)

\* The shape the chain gives a transaction.
Shaped(s) ==
  /\ s \in 1 .. Len(chain) /\ start < s
  /\ chain[s].events \in Seq(ChainEvent) /\ Len(chain[s].events) <= 4

LEMMA KeysOfEvent ==
  ASSUME start \in Nat, NEW s \in Nat, Shaped(s), NEW i \in 1 .. Len(chain[s].events)
  PROVE  LET e == chain[s].events[i]
         IN  /\ <<s, i>> \in Nat \X Nat
             /\ \A k \in TradeKeys(s, i - 1) : Earlier(k, <<s, i>>)
             /\ TradeKeys(s, i) = TradeKeys(s, i - 1) \cup
                                    (IF e.name = "trade" THEN {<<s, i>>} ELSE {})
  <1> DEFINE events == chain[s].events
             e == events[i]
             key == <<s, i>>
  <1>1. Len(events) \in Nat /\ Len(events) <= 4 /\ DOMAIN events = 1 .. Len(events)
    BY DEF Shaped
  <1>2. i \in Nat /\ i \in 1 .. 4 /\ s \in start + 1 .. s
    <2>1. start < s /\ i \in 1 .. Len(events)
      BY DEF Shaped
    <2> HIDE DEF events
    <2> QED BY <1>1, <2>1
  <1>3. key \in KeysUpTo(s) /\ EventAt(key) = e /\ key[1] = s /\ key[2] = i
    BY <1>1, <1>2 DEF KeysUpTo, EventAt
  <1>4. ASSUME NEW k \in KeysUpTo(s)
        PROVE  /\ k[1] \in start + 1 .. s /\ k[2] \in 1 .. 4 /\ k = <<k[1], k[2]>>
    BY DEF KeysUpTo
  <1>5. ASSUME NEW k \in TradeKeys(s, i - 1) PROVE Earlier(k, key)
    <2>1. k \in KeysUpTo(s) /\ (k[1] < s \/ k[2] <= i - 1)
      BY DEF TradeKeys
    <2>2. k[1] \in start + 1 .. s /\ k[2] \in 1 .. 4
      BY <1>4, <2>1
    <2> QED BY <1>2, <1>3, <2>1, <2>2 DEF Earlier
  <1>6. ASSUME NEW k \in KeysUpTo(s)
        PROVE  (k[1] < s \/ k[2] <= i) <=> (k[1] < s \/ k[2] <= i - 1) \/ k = key
    <2>1. /\ k[1] \in start + 1 .. s /\ k[2] \in 1 .. 4 /\ k = <<k[1], k[2]>>
      BY <1>4
    <2>2. k = key <=> k[1] = s /\ k[2] = i
      BY <2>1
    <2> HIDE DEF key
    <2> QED BY <1>2, <2>1, <2>2
  <1>7. TradeKeys(s, i) = TradeKeys(s, i - 1) \cup
                           (IF e.name = "trade" THEN {key} ELSE {})
    <2>1. ~(key[1] < s) /\ key[2] <= i
      BY <1>2, <1>3
    <2> HIDE DEF key, e
    <2> QED BY <1>3, <1>6, <2>1 DEF TradeKeys
  <1>8. key \in Nat \X Nat
    BY <1>2
  <1> QED BY <1>5, <1>7, <1>8

\* The trade rows after an event.
LEMMA TradesFollowEvent ==
  ASSUME start \in Nat, NEW s \in Nat, Shaped(s), NEW i \in 1 .. Len(chain[s].events),
         NEW d \in Database, TradesAre(d, TradeKeys(s, i - 1))
  PROVE  LET e == chain[s].events[i]
         IN  /\ ~HasTrade(d, <<s, i>>)
             /\ TradesAre(ApplyEvent(d, e, <<s, i>>), TradeKeys(s, i))
  <1> DEFINE e == chain[s].events[i]
             key == <<s, i>>
             w == ApplyEvent(d, e, key)
             n == Len(d.trades)
             row == [key |-> key, mint |-> e.mint]
             Shape == [key : Nat \X Nat, mint : Mints]
  <1>1. e \in ChainEvent
    BY DEF Shaped
  <1>2. /\ key \in Nat \X Nat
        /\ \A k \in TradeKeys(s, i - 1) : Earlier(k, key)
        /\ TradeKeys(s, i) = TradeKeys(s, i - 1) \cup
                               (IF e.name = "trade" THEN {key} ELSE {})
    BY KeysOfEvent
  <1>3. d.trades \in Seq(Shape) /\ n \in Nat /\ DOMAIN d.trades = 1 .. n
    BY DEF Database
  <1>4. ~Earlier(key, key)
    BY <1>2 DEF Earlier
  <1>5. \A j \in 1 .. n : d.trades[j].key \in TradeKeys(s, i - 1)
    BY DEF TradesAre
  <1> HIDE DEF key
  <1>6. ~HasTrade(d, key)
    BY <1>2, <1>3, <1>4, <1>5 DEF HasTrade
  <1>7. w.trades = IF e.name = "trade" THEN Append(d.trades, row) ELSE d.trades
    BY <1>1, <1>2, <1>6, EventWrites
  <1> HIDE DEF w, e
  <1>8. ASSUME e.name # "trade" PROVE TradesAre(w, TradeKeys(s, i))
    <2>1. w.trades = d.trades /\ TradeKeys(s, i) = TradeKeys(s, i - 1)
      BY <1>2, <1>7, <1>8
    <2> QED BY <2>1 DEF TradesAre
  <1>9. ASSUME e.name = "trade" PROVE TradesAre(w, TradeKeys(s, i))
    <2> DEFINE trades == Append(d.trades, row)
    <2>1. row \in Shape /\ row.key = key
      BY <1>1, <1>2 DEF ChainEvent
    <2>2. /\ Len(trades) = n + 1
          /\ \A j \in 1 .. n : trades[j] = d.trades[j]
          /\ trades[n + 1] = row
      BY <1>3, <2>1
    <2>3. w.trades = trades
      BY <1>7, <1>9
    <2> HIDE DEF trades, row, n
    <2>4. ASSUME NEW a \in 1 .. n + 1, NEW b \in 1 .. n + 1, a < b
          PROVE  Earlier(trades[a].key, trades[b].key)
      <3>1. a \in 1 .. n
        BY <1>3, <2>4
      <3>2. CASE b = n + 1
        BY <1>2, <1>5, <2>1, <2>2, <3>1, <3>2
      <3>3. CASE b # n + 1
        <4>1. b \in 1 .. n
          BY <1>3, <3>3
        <4> QED BY <2>2, <2>4, <3>1, <4>1 DEF TradesAre, n
      <3> QED BY <3>2, <3>3
    <2>5. {trades[j].key : j \in 1 .. n + 1} = TradeKeys(s, i - 1) \cup {key}
      <3>1. {trades[j].key : j \in 1 .. n + 1}
              = {trades[j].key : j \in 1 .. n} \cup {trades[n + 1].key}
        <4>1. \A j : j \in 1 .. n + 1 <=> j \in 1 .. n \/ j = n + 1
          BY <1>3 DEF n
        <4> QED BY <4>1
      <3>2. {trades[j].key : j \in 1 .. n} = {d.trades[j].key : j \in 1 .. n}
        BY <2>2
      <3>3. {d.trades[j].key : j \in 1 .. n} = TradeKeys(s, i - 1)
        BY DEF TradesAre, n
      <3> QED BY <2>1, <2>2, <3>1, <3>2, <3>3
    <2>6. TradeKeys(s, i) = TradeKeys(s, i - 1) \cup {key} /\ Len(w.trades) = n + 1
      BY <1>2, <1>9, <2>2, <2>3
    <2> QED BY <2>3, <2>4, <2>5, <2>6 DEF TradesAre
  <1> QED BY <1>6, <1>8, <1>9 DEF w, e, key

-----------------------------------------------------------------------------
(***************************************************************************)
(* The commit: the rows go from the transaction at the cursor to the next  *)
(* one, event by event.                                                    *)
(***************************************************************************)

\* The database d holds what the chain said up to event i of transaction s,
\* after which the tokens are t.
Holds(d, s, i, t) ==
  /\ d \in Database
  /\ \A m \in Mints : LaunchedAfterStart(m) => Agrees(d, m, t[m])
  /\ TradesAre(d, TradeKeys(s, i))

\* What the loop is about to commit.
LEMMA CommitContext ==
  ASSUME CursorInv, RowsInv, Commit
  PROVE  LET s == Cursor + 1
         IN  /\ start \in Nat /\ s \in Nat /\ Shaped(s)
             /\ EventsOf(s) = chain[s].events
             /\ Before(s) \in [Mints -> ChainToken]
             /\ \/ EventsOf(s) = <<>> /\ chain[s].after = Before(s)
                \/ \E m \in Mints : Steps(Before(s), m, chain[s], 4)
             /\ chain[s].after \in [Mints -> ChainToken]
             /\ \A m \in Mints : Before(s)[m].status = "none" => LaunchedAfterStart(m)
             /\ db' = WithCursor(Applied(db, s), s).db
             /\ live' = Applied(db, s).live
             /\ UNCHANGED <<chain, start, disk>>
  <1> DEFINE s == Cursor + 1
  <1>1. /\ Cursor \in Nat /\ Len(chain) \in Nat /\ start \in Nat /\ db.cursor \in Nat
        /\ start <= Len(chain)
    BY CursorIsNat DEF CursorInv, ChainInv, Commit
  <1>2. Head(batch) = s
    BY CommitNext
  <1>3. s <= Len(chain)
    <2>1. db'.cursor <= Len(chain') /\ chain' = chain
      BY CommitKeeps DEF CursorInv, ChainInv, Commit, world
    <2>2. db'.cursor = s
      BY CommitNext
    <2> QED BY <2>1, <2>2
  <1>4. start < s
    BY <1>1 DEF RowsInv, DatabaseInv, Cursor
  <1> HIDE DEF s
  <1>5. s \in 1 .. Len(chain) /\ s \in Nat
    BY <1>1, <1>3 DEF s
  <1>6. chain[s] \in Transactions(Before(s)) /\ chain[s].after \in [Mints -> ChainToken]
    BY <1>5 DEF RowsInv, ChainOk
  <1>7. Before(s) \in [Mints -> ChainToken]
    <2>1. CASE s = 1
      <3>1. NoToken \in ChainToken
        BY DEF NoToken, ChainToken, TokenStatus
      <3> QED BY <2>1, <3>1 DEF Before
    <2>2. CASE s # 1
      <3>1. s - 1 \in 1 .. Len(chain)
        BY <1>1, <1>5, <2>2
      <3> QED BY <2>2, <3>1 DEF RowsInv, ChainOk, Before
    <2> QED BY <2>1, <2>2
  <1>8. /\ chain[s].failed => chain[s].events = <<>>
        /\ \/ chain[s].events = <<>> /\ chain[s].after = Before(s)
           \/ \E m \in Mints : Steps(Before(s), m, chain[s], 4)
    BY <1>6, <1>7, TransactionSteps
  <1>9. EventsOf(s) = chain[s].events
    <2>1. chain[s].failed \/ s \in got
      BY <1>2 DEF Commit, Missing
    <2> QED BY <1>8, <2>1 DEF EventsOf
  <1>10. Shaped(s)
    <2>1. chain[s].events \in Seq(ChainEvent) /\ Len(chain[s].events) <= 4
      <3>1. CASE chain[s].events = <<>>
        <4>1. <<>> \in Seq(ChainEvent) /\ Len(<<>>) <= 4
          OBVIOUS
        <4> QED BY <3>1, <4>1
      <3>2. CASE \E m \in Mints : Steps(Before(s), m, chain[s], 4)
        BY <3>2 DEF Steps
      <3> QED BY <1>8, <3>1, <3>2
    <2> QED BY <1>4, <1>5, <2>1 DEF Shaped, s
  <1>11. db' = WithCursor(Applied(db, s), s).db /\ UNCHANGED <<chain, start, disk>>
    BY <1>2 DEF Commit, Committed, world
  <1>12. live' = Applied(db, s).live
    BY <1>2 DEF Commit, Committed, WithCursor
  <1>13. ASSUME NEW m \in Mints, Before(s)[m].status = "none"
         PROVE  LaunchedAfterStart(m)
    <2>1. CASE s = 1
      <3>1. 1 .. start = {}
        BY <1>1, <1>4, <2>1
      <3> QED BY <3>1 DEF LaunchedAfterStart
    <2>2. CASE s # 1
      <3>1. s - 1 \in 1 .. Len(chain) /\ \A k \in 1 .. start : k \in 1 .. s - 1
        BY <1>1, <1>4, <1>5, <2>2
      <3>2. chain[s - 1].after[m].status = "none"
        BY <1>13, <2>2 DEF Before
      <3>3. NoneUntil(m, s - 1)
        BY <3>1, <3>2 DEF RowsInv, ChainOk
      <3> QED BY <3>1, <3>3 DEF NoneUntil, LaunchedAfterStart
    <2> QED BY <2>1, <2>2
  <1> QED BY <1>1, <1>5, <1>6, <1>7, <1>8, <1>9, <1>10, <1>11, <1>12, <1>13 DEF s

\* Before its first event: the rows as the transaction at the cursor left
\* them, or an empty database that begins after start.
LEMMA CommitBegins ==
  ASSUME CursorInv, RowsInv, Commit
  PROVE  LET s == Cursor + 1
         IN  Holds(db, s, 0, Before(s))
  <1> DEFINE s == Cursor + 1
  <1>1. start \in Nat /\ s \in Nat /\ Shaped(s) /\ Cursor \in Nat /\ Len(chain) \in Nat
    BY CommitContext, CursorIsNat DEF CursorInv
  <1>2. db \in Database /\ DatabaseInv(db)
    BY DEF RowsInv, DatabaseInv
  <1>3. CASE db.cursor = 0
    <2>1. db = EmptyDb /\ Cursor = start /\ s = start + 1
      BY <1>2, <1>3 DEF DatabaseInv, Cursor
    <2>2. ASSUME NEW m \in Mints, LaunchedAfterStart(m)
          PROVE  Before(s)[m] = NoToken
      <3>1. CASE s = 1
        BY <3>1 DEF Before
      <3>2. CASE s # 1
        <4>1. s - 1 = start /\ start \in 1 .. start /\ start \in 1 .. Len(chain)
          BY <1>1, <2>1, <3>2 DEF Shaped
        <4>2. chain[start].after[m].status = "none"
          BY <2>2, <4>1 DEF LaunchedAfterStart
        <4>3. chain[start].after[m] \in ChainToken
          BY <4>1 DEF RowsInv, ChainOk
        <4> QED BY <3>2, <4>1, <4>2, <4>3 DEF Before, ChainToken
      <3> QED BY <3>1, <3>2
    <2>3. ASSUME NEW m \in Mints PROVE Agrees(db, m, NoToken)
      BY <2>1 DEF Agrees, EmptyDb, NoRow, NoToken
    <2>4. TradeKeys(s, 0) = {}
      <3>1. ASSUME NEW k \in TradeKeys(s, 0) PROVE FALSE
        <4>1. k[1] \in start + 1 .. s /\ k[2] \in 1 .. 4 /\ (k[1] < s \/ k[2] <= 0)
          BY DEF TradeKeys, KeysUpTo
        <4> QED BY <1>1, <2>1, <4>1
      <3> QED BY <3>1
    <2>5. TradesAre(db, {})
      <3>1. db.trades = <<>> /\ Len(db.trades) = 0
        BY <2>1 DEF EmptyDb
      <3> QED BY <3>1 DEF TradesAre
    <2> QED BY <1>2, <2>2, <2>3, <2>4, <2>5 DEF Holds
  <1>4. CASE db.cursor # 0
    <2>1. Cursor = db.cursor /\ s # 1 /\ s - 1 = db.cursor
      BY <1>1, <1>4 DEF Cursor
    <2>2. Before(s) = chain[db.cursor].after
      BY <2>1 DEF Before
    <2>3. TradeKeys(db.cursor, 4) = TradeKeys(s, 0)
      <3> DEFINE c == db.cursor
      <3>1. c \in Nat /\ s = c + 1
        BY <1>1, <2>1
      <3> HIDE DEF c, s
      <3>2. ASSUME NEW k
            PROVE  k \in KeysUpTo(c) /\ (k[1] < c \/ k[2] <= 4)
                     <=> k \in KeysUpTo(s) /\ (k[1] < s \/ k[2] <= 0)
        <4>1. \A j \in 1 .. 4 : j <= 4 /\ ~(j <= 0)
          OBVIOUS
        <4>2. \A j : (j \in start + 1 .. s /\ j < s) <=> j \in start + 1 .. c
          BY <1>1, <3>1
        <4>3. k \in KeysUpTo(s) /\ k[1] < s <=> k \in KeysUpTo(c)
          BY <4>2, <3>1, <1>1 DEF KeysUpTo
        <4>4. k \in KeysUpTo(c) \/ k \in KeysUpTo(s) => k[2] \in 1 .. 4
          BY DEF KeysUpTo
        <4> QED BY <4>1, <4>3, <4>4
      <3>3. TradeKeys(c, 4) = TradeKeys(s, 0)
        BY <3>2 DEF TradeKeys
      <3> QED BY <3>3 DEF c
    <2> QED BY <1>2, <1>4, <2>2, <2>3 DEF Holds, DatabaseInv
  <1> QED BY <1>3, <1>4

\* One event further.
LEMMA EventKeeps ==
  ASSUME start \in Nat, NEW s \in Nat, Shaped(s), NEW i \in 1 .. Len(chain[s].events),
         NEW m \in Mints, NEW t \in [Mints -> ChainToken], NEW u \in [Mints -> ChainToken],
         chain[s].events[i].mint = m, EventStep(t[m], chain[s].events[i], u[m]),
         \A n \in Mints \ {m} : u[n] = t[n],
         NEW d, Holds(d, s, i - 1, t)
  PROVE  Holds(ApplyEvent(d, chain[s].events[i], <<s, i>>), s, i, u)
  <1> DEFINE e == chain[s].events[i]
             key == <<s, i>>
             w == ApplyEvent(d, e, key)
  <1>1. e \in ChainEvent
    BY DEF Shaped
  <1>2. key \in Nat \X Nat
    BY KeysOfEvent
  <1>3. d \in Database /\ TradesAre(d, TradeKeys(s, i - 1))
    BY DEF Holds
  <1>4. ~HasTrade(d, key) /\ TradesAre(w, TradeKeys(s, i))
    BY <1>3, TradesFollowEvent
  <1>5. e.mint = m /\ EventStep(t[m], e, u[m])
    OBVIOUS
  <1> HIDE DEF e, key
  <1>6. /\ w \in Database
        /\ \A n \in Mints \ {m} : /\ w.tokens[n] = d.tokens[n]
                                  /\ n \in w.graduations <=> n \in d.graduations
    BY <1>1, <1>2, <1>3, <1>5, EventWrites
  <1>7. ASSUME NEW n \in Mints, LaunchedAfterStart(n) PROVE Agrees(w, n, u[n])
    <2>1. Agrees(d, n, t[n])
      BY <1>7 DEF Holds
    <2>2. CASE n = m
      BY <1>1, <1>2, <1>3, <1>4, <1>5, <2>1, <2>2, RowFollowsEvent
    <2>3. CASE n # m
      <3> HIDE DEF w
      <3> QED BY <1>6, <2>1, <2>3 DEF Agrees
    <2> QED BY <2>2, <2>3
  <1> HIDE DEF w
  <1>8. Holds(w, s, i, u)
    BY <1>4, <1>6, <1>7 DEF Holds
  <1> QED BY <1>8 DEF w, e, key

\* The notes l tell of the first i events of transaction s, one after the
\* other, and a trade shows itself.
Told(l, s, i) ==
  /\ \E S : l \in Seq(S)
  /\ Len(l) = i
  /\ \A j \in 1 .. i :
       /\ l[j].key = <<s, j>>
       /\ l[j].name = "trade" => l[j].shows = l[j].key

\* An event that the rows do not hold yet is announced.
LEMMA EventAnnounced ==
  ASSUME start \in Nat, NEW s \in Nat, Shaped(s), NEW i \in 1 .. Len(chain[s].events),
         NEW t \in [Mints -> ChainToken], NEW u,
         EventStep(t[chain[s].events[i].mint], chain[s].events[i], u),
         t[chain[s].events[i].mint].status = "none" =>
           LaunchedAfterStart(chain[s].events[i].mint),
         NEW d, Holds(d, s, i - 1, t)
  PROVE  /\ Announced(d, chain[s].events[i], <<s, i>>)
         /\ chain[s].events[i].name = "trade" =>
              LatestTrade(ApplyEvent(d, chain[s].events[i], <<s, i>>),
                          chain[s].events[i].mint) = <<s, i>>
  <1> DEFINE e == chain[s].events[i]
             m == e.mint
             key == <<s, i>>
             w == ApplyEvent(d, e, key)
             row == [key |-> key, mint |-> m]
             Shape == [key : Nat \X Nat, mint : Mints]
  <1>1. e \in ChainEvent /\ m \in Mints
    <2>1. e \in ChainEvent
      BY DEF Shaped
    <2> HIDE DEF e
    <2> QED BY <2>1 DEF ChainEvent
  <1>2. key \in Nat \X Nat
    BY KeysOfEvent
  <1>3. d \in Database /\ TradesAre(d, TradeKeys(s, i - 1))
    BY DEF Holds
  <1>4. ~HasTrade(d, key)
    BY <1>3, TradesFollowEvent
  <1>5. EventStep(t[m], e, u) /\ (t[m].status = "none" => LaunchedAfterStart(m))
    OBVIOUS
  <1>6. w.trades = IF e.name = "trade" THEN Append(d.trades, row) ELSE d.trades
    <2> HIDE DEF e, key
    <2> QED BY <1>1, <1>2, <1>3, <1>4, EventWrites
  <1> HIDE DEF e, key, w
  <1>7. Announced(d, e, key)
    <2>1. ASSUME e.name = "tokenCreated" PROVE ~Known(d, m)
      <3>1. t[m].status = "none"
        BY <1>5, <2>1 DEF EventStep
      <3> QED BY <1>1, <1>5, <3>1 DEF Holds, Agrees, Known
    <2> QED BY <1>4, <2>1 DEF Announced
  <1>8. ASSUME e.name = "trade" PROVE LatestTrade(w, m) = key
    <2> DEFINE trades == w.trades
               n == Len(d.trades)
    <2>1. d.trades \in Seq(Shape) /\ row \in Shape /\ n \in Nat
      BY <1>1, <1>2, <1>3 DEF Database
    <2>2. trades = Append(d.trades, row)
      BY <1>6, <1>8
    <2>3. /\ Len(trades) = n + 1 /\ DOMAIN trades = 1 .. n + 1
          /\ trades[n + 1].mint = m /\ trades[n + 1].key = key
      <3> HIDE DEF row, Shape, trades
      <3>1. Len(trades) = n + 1 /\ DOMAIN trades = 1 .. n + 1 /\ trades[n + 1] = row
        BY <2>1, <2>2
      <3> QED BY <3>1 DEF row
    <2> DEFINE Latest(j) == trades[j].mint = m /\ \A k \in j + 1 .. Len(trades) :
                                                    trades[k].mint # m
               last == CHOOSE j \in DOMAIN trades : Latest(j)
    <2> HIDE DEF trades, n
    <2>4. n + 1 \in DOMAIN trades /\ Latest(n + 1)
      BY <2>1, <2>3
    <2>5. last \in DOMAIN trades /\ Latest(last)
      <3> HIDE DEF Latest
      <3> QED BY <2>4
    <2> HIDE DEF last
    <2>6. last = n + 1
      <3>1. last \in 1 .. n + 1
        BY <2>3, <2>5
      <3>2. last # n + 1 => n + 1 \in last + 1 .. Len(trades)
        BY <2>1, <2>3, <3>1
      <3> QED BY <2>3, <2>5, <3>2
    <2>7. LatestTrade(w, m) = trades[last].key
      BY DEF LatestTrade, trades, last
    <2> QED BY <2>3, <2>6, <2>7
  <1> QED BY <1>7, <1>8 DEF e, key, w

LEMMA OneMoreTold ==
  ASSUME NEW l, NEW s, NEW i \in Nat \ {0}, Told(l, s, i - 1),
         NEW x, x.key = <<s, i>>, x.name = "trade" => x.shows = x.key
  PROVE  Told(Append(l, x), s, i)
  <1>1. PICK S : l \in Seq(S)
    BY DEF Told
  <1> DEFINE more == Append(l, x)
  <1>2. l \in Seq(S \cup {x}) /\ Len(l) = i - 1
    BY <1>1 DEF Told
  <1>3. /\ more \in Seq(S \cup {x}) /\ Len(more) = i
        /\ \A j \in 1 .. i - 1 : more[j] = l[j]
        /\ more[i] = x
    BY <1>2
  <1> HIDE DEF more
  <1>4. \A j \in 1 .. i : j \in 1 .. i - 1 \/ j = i
    OBVIOUS
  <1>5. Told(more, s, i)
    BY <1>3, <1>4 DEF Told
  <1> QED BY <1>5 DEF more

LEMMA ShapedLength ==
  ASSUME NEW s, Shaped(s)
  PROVE  LET n == Len(chain[s].events)
         IN  n \in 0 .. 4 /\ DOMAIN chain[s].events = 1 .. n
  <1> DEFINE events == chain[s].events
  <1>1. events \in Seq(ChainEvent) /\ Len(events) <= 4
    BY DEF Shaped
  <1> HIDE DEF events
  <1>2. Len(events) \in Nat /\ DOMAIN events = 1 .. Len(events)
    BY <1>1
  <1>3. Len(events) \in 0 .. 4
    BY <1>1, <1>2
  <1> QED BY <1>2, <1>3 DEF events

\* From the first event to the last, at most four of them.
LEMMA CommitEnds ==
  ASSUME CursorInv, RowsInv, Commit
  PROVE  LET s == Cursor + 1
         IN  /\ Holds(Applied(db, s).db, s, Len(chain[s].events), chain[s].after)
             /\ Told(Applied(db, s).live, s, Len(chain[s].events))
  <1> DEFINE s == Cursor + 1
             events == chain[s].events
             n == Len(events)
             b == Before(s)
  <1>1. /\ start \in Nat /\ s \in Nat /\ Shaped(s) /\ EventsOf(s) = events
        /\ b \in [Mints -> ChainToken] /\ chain[s].after \in [Mints -> ChainToken]
        /\ \/ events = <<>> /\ chain[s].after = b
           \/ \E m \in Mints : Steps(b, m, chain[s], 4)
        /\ \A m \in Mints : b[m].status = "none" => LaunchedAfterStart(m)
    BY CommitContext
  <1>2. n \in 0 .. 4
    BY <1>1, ShapedLength
  <1>3. Holds(db, s, 0, b)
    BY CommitBegins
  <1> HIDE DEF s, b
  <1>4. PICK r, l : /\ DatabasePath(db, s, r) /\ NotesPath(s, r, l)
                    /\ Applied(db, s).db = r[n] /\ Applied(db, s).live = l[n]
    <2>1. Len(EventsOf(s)) = n
      BY <1>1
    <2> HIDE DEF n
    <2> QED BY <1>2, <2>1, AppliedPath, ZenonT(40)
  <1>5. /\ r[0] = db /\ l[0] = <<>>
        /\ \A i \in 1 .. n :
             /\ r[i] = ApplyEvent(r[i - 1], events[i], <<s, i>>)
             /\ l[i] = IF Announced(r[i - 1], events[i], <<s, i>>)
                       THEN Append(l[i - 1], Notification(r[i], events[i], <<s, i>>))
                       ELSE l[i - 1]
    BY <1>1, <1>4 DEF DatabasePath, NotesPath
  <1>6. Told(l[0], s, 0)
    <2>1. <<>> \in Seq({}) /\ Len(<<>>) = 0
      OBVIOUS
    <2> QED BY <1>5, <2>1 DEF Told
  <1>7. ASSUME events = <<>>, chain[s].after = b
        PROVE  Holds(r[n], s, n, chain[s].after) /\ Told(l[n], s, n)
    <2>1. n = 0
      BY <1>7
    <2> QED BY <1>3, <1>5, <1>6, <1>7, <2>1
  <1>8. ASSUME NEW m \in Mints, Steps(b, m, chain[s], 4)
        PROVE  Holds(r[n], s, n, chain[s].after) /\ Told(l[n], s, n)
    <2>1. PICK f : /\ f[0] = b[m] /\ f[n] = chain[s].after[m]
                   /\ TokenPath(events, m, f)
      BY <1>8 DEF Steps
    <2> DEFINE t(i) == [x \in Mints |-> IF x = m THEN f[i] ELSE b[x]]
    <2>2. \A i \in 0 .. n : f[i] \in ChainToken
      BY <2>1 DEF TokenPath
    <2>3. \A i \in 1 .. n : events[i].mint = m /\ EventStep(f[i - 1], events[i], f[i])
      BY <2>1 DEF TokenPath
    <2>4. t(0) = b /\ t(n) = chain[s].after
      <3>1. \A x \in Mints \ {m} : chain[s].after[x] = b[x]
        BY <1>8 DEF Steps
      <3> HIDE DEF n
      <3> QED BY <1>1, <2>1, <3>1
    <2>5. ASSUME NEW i \in 0 .. n PROVE t(i) \in [Mints -> ChainToken]
      BY <1>1, <2>2
    <2>6. ASSUME NEW i \in 1 .. n, Holds(r[i - 1], s, i - 1, t(i - 1))
          PROVE  Holds(r[i], s, i, t(i))
      <3>1. i \in 0 .. n /\ i - 1 \in 0 .. n
        <4> HIDE DEF n
        <4> QED BY <1>2
      <3>2. t(i - 1) \in [Mints -> ChainToken] /\ t(i) \in [Mints -> ChainToken]
        BY <2>5, <3>1
      <3>3. /\ t(i - 1)[m] = f[i - 1] /\ t(i)[m] = f[i]
            /\ \A x \in Mints \ {m} : t(i)[x] = t(i - 1)[x]
        OBVIOUS
      <3>4. events[i].mint = m /\ EventStep(f[i - 1], events[i], f[i])
        BY <2>3
      <3>5. r[i] = ApplyEvent(r[i - 1], events[i], <<s, i>>)
        BY <1>5
      <3> HIDE DEF t
      <3> DEFINE v == t(i - 1)
                 w == t(i)
                 e == events[i]
      <3>6. /\ m \in Mints /\ start \in Nat /\ s \in Nat /\ Shaped(s)
            /\ i \in 1 .. Len(chain[s].events) /\ chain[s].events[i] = e
            /\ v \in [Mints -> ChainToken] /\ w \in [Mints -> ChainToken]
            /\ Holds(r[i - 1], s, i - 1, v)
        BY <1>1, <2>6, <3>2
      <3>7. /\ e.mint = m /\ EventStep(v[m], e, w[m])
            /\ \A x \in Mints \ {m} : w[x] = v[x]
            /\ r[i] = ApplyEvent(r[i - 1], e, <<s, i>>)
        BY <3>3, <3>4, <3>5
      <3> HIDE DEF v, w, e
      <3>8. Holds(r[i], s, i, w)
        BY ONLY <3>6, <3>7, EventKeeps
      <3> QED BY <3>8 DEF w
    <2>7. ASSUME NEW i \in 1 .. n, Holds(r[i - 1], s, i - 1, t(i - 1)),
                 Told(l[i - 1], s, i - 1)
          PROVE  Told(l[i], s, i)
      <3> DEFINE note == Notification(r[i], events[i], <<s, i>>)
      <3>1. i \in Nat \ {0} /\ i - 1 \in 0 .. n /\ (i # 1 => i - 1 \in 1 .. n)
        <4> HIDE DEF n
        <4> QED BY <1>2
      <3>2. events[i].mint = m /\ EventStep(t(i - 1)[m], events[i], f[i])
        BY <2>3
      <3>3. t(i - 1)[m].status = "none" => LaunchedAfterStart(m)
        <4>1. CASE i = 1
          BY <1>1, <2>1, <4>1
        <4>2. CASE i # 1
          <5>1. EventStep(f[(i - 1) - 1], events[i - 1], f[i - 1])
            BY <2>3, <3>1, <4>2
          <5>2. f[i - 1].status # "none"
            <6> HIDE DEF events, n
            <6> QED BY <5>1 DEF EventStep
          <5> QED BY <5>2
        <4> QED BY <4>1, <4>2
      <3>4. t(i - 1) \in [Mints -> ChainToken]
        BY <2>5, <3>1
      <3>5. r[i] = ApplyEvent(r[i - 1], events[i], <<s, i>>)
        BY <1>5
      <3> HIDE DEF t
      <3>6. /\ Announced(r[i - 1], events[i], <<s, i>>)
            /\ events[i].name = "trade" => LatestTrade(r[i], events[i].mint) = <<s, i>>
        BY <1>1, <2>7, <3>2, <3>3, <3>4, <3>5, EventAnnounced
      <3>7. l[i] = Append(l[i - 1], note)
        BY <1>5, <3>6
      <3>8. note.key = <<s, i>> /\ (note.name = "trade" => note.shows = note.key)
        <4> HIDE DEF events, n
        <4> QED BY <3>6 DEF Notification
      <3> HIDE DEF note
      <3> QED BY <2>7, <3>1, <3>7, <3>8, OneMoreTold
    <2> DEFINE H(i) == Holds(r[i], s, i, t(i)) /\ Told(l[i], s, i)
    <2>8. H(0)
      BY <1>3, <1>5, <1>6, <2>4
    <2>9. \A i \in 1 .. n : H(i - 1) => H(i)
      BY <2>6, <2>7
    <2> HIDE DEF H, n
    <2>10. H(n)
      <3>1. n >= 1 => H(1)
        <4> HAVE n >= 1
        <4>1. 1 \in 1 .. n /\ 1 - 1 = 0
          BY <1>2
        <4> QED BY <2>8, <2>9, <4>1
      <3>2. n >= 2 => H(2)
        <4> HAVE n >= 2
        <4>1. 2 \in 1 .. n /\ 2 - 1 = 1
          BY <1>2
        <4> QED BY <1>2, <2>9, <3>1, <4>1
      <3>3. n >= 3 => H(3)
        <4> HAVE n >= 3
        <4>1. 3 \in 1 .. n /\ 3 - 1 = 2
          BY <1>2
        <4> QED BY <1>2, <2>9, <3>2, <4>1
      <3>4. n >= 4 => H(4)
        <4> HAVE n >= 4
        <4>1. 4 \in 1 .. n /\ 4 - 1 = 3
          BY <1>2
        <4> QED BY <1>2, <2>9, <3>3, <4>1
      <3>5. n = 0 \/ n = 1 \/ n = 2 \/ n = 3 \/ n = 4
        BY <1>2
      <3> QED BY <2>8, <3>1, <3>2, <3>3, <3>4, <3>5
    <2> QED BY <2>4, <2>10 DEF H
  <1>9. Holds(r[n], s, n, chain[s].after) /\ Told(l[n], s, n)
    BY <1>1, <1>7, <1>8
  <1> QED BY <1>4, <1>9 DEF s

\* The rows and the cursor are written together.
LEMMA CommitWrites ==
  ASSUME CursorInv, RowsInv, Commit
  PROVE  DatabaseInv(db)'
  <1> DEFINE s == Cursor + 1
             n == Len(chain[s].events)
             d == Applied(db, s).db
             w == WithCursor(Applied(db, s), s).db
  <1>1. /\ start \in Nat /\ s \in Nat /\ Shaped(s)
        /\ db' = w /\ chain' = chain /\ start' = start
    BY CommitContext
  <1>2. Holds(d, s, n, chain[s].after)
    BY CommitEnds
  <1>3. w = [cursor |-> s, tokens |-> d.tokens, trades |-> d.trades,
             graduations |-> d.graduations]
    BY DEF WithCursor
  <1> HIDE DEF s, d, w
  <1>4. TradeKeys(s, n) = TradeKeys(s, 4)
    <2>1. n \in 0 .. 4 /\ DOMAIN chain[s].events = 1 .. n
      BY <1>1, ShapedLength
    <2> HIDE DEF n
    <2>2. ASSUME NEW k \in KeysUpTo(s)
          PROVE  (k[1] < s \/ k[2] <= n) /\ (k[1] < s \/ k[2] <= 4)
      <3>1. /\ k[1] \in start + 1 .. s /\ k[2] \in 1 .. 4
            /\ k[2] \in DOMAIN chain[k[1]].events
        BY DEF KeysUpTo
      <3>2. CASE k[1] = s
        BY <2>1, <3>1, <3>2
      <3>3. CASE k[1] # s
        BY <1>1, <3>1, <3>3
      <3> QED BY <3>2, <3>3
    <2> QED BY <2>2 DEF TradeKeys
  <1>5. /\ w.cursor = s /\ w.tokens = d.tokens /\ w.trades = d.trades
        /\ w.graduations = d.graduations
    BY <1>3
  <1>6. w \in Database
    <2>1. d \in Database
      BY <1>2 DEF Holds
    <2> QED BY <1>1, <1>3, <2>1 DEF Database
  <1>7. start < s /\ s <= Len(chain) /\ s # 0
    BY <1>1 DEF Shaped
  <1>8. ASSUME NEW m \in Mints, LaunchedAfterStart(m)
        PROVE  Agrees(w, m, chain[s].after[m])
    BY <1>2, <1>5, <1>8 DEF Holds, Agrees
  <1>9. TradesAre(w, TradeKeys(s, 4))
    BY <1>2, <1>4, <1>5 DEF Holds, TradesAre
  <1>10. DatabaseInv(w)
    BY <1>5, <1>6, <1>7, <1>8, <1>9 DEF DatabaseInv
  <1> QED BY <1>1, <1>10 DEF DatabaseInv, LaunchedAfterStart, TradeKeys, KeysUpTo, EventAt

LEMMA ChainGrows ==
  ASSUME CursorInv, Confirm
  PROVE  LET n == Len(chain)
         IN  /\ n \in Nat /\ Len(chain') = n + 1
             /\ \A k \in 1 .. n : chain'[k] = chain[k]
             /\ chain'[n + 1] \in Transactions(Tokens)
  <1> DEFINE n == Len(chain)
  <1>1. PICK S : chain \in Seq(S)
    BY DEF CursorInv, ChainInv
  <1>2. PICK tx \in Transactions(Tokens) : chain' = Append(chain, tx)
    BY DEF Confirm
  <1>3. chain \in Seq(S \cup {tx}) /\ tx \in S \cup {tx}
    BY <1>1
  <1>4. /\ n \in Nat /\ Len(chain') = n + 1
        /\ \A k \in 1 .. n : chain'[k] = chain[k]
        /\ chain'[n + 1] = tx
    BY <1>1, <1>2, <1>3
  <1> QED BY <1>2, <1>4

\* The chain grows at its end: what it said up to a cursor stays.
LEMMA ConfirmKeepsRows ==
  ASSUME CursorInv, RowsInv, Confirm
  PROVE  RowsInv'
  <1> DEFINE n == Len(chain)
  <1>1. PICK S : chain \in Seq(S)
    BY DEF CursorInv, ChainInv
  <1>2. PICK tx \in Transactions(Tokens) : chain'[n + 1] = tx
    BY ChainGrows
  <1>3. /\ n \in Nat /\ Len(chain') = n + 1
        /\ \A k \in 1 .. n : chain'[k] = chain[k]
        /\ chain'[n + 1] = tx
    BY <1>2, ChainGrows
  <1>4. UNCHANGED <<start, db, disk>> /\ start \in Nat
    BY DEF Confirm, CursorInv, ChainInv
  <1>5. Tokens = Before(n + 1)
    <2>1. CASE chain = <<>>
      <3>1. n + 1 = 1
        BY <2>1
      <3> QED BY <2>1, <3>1 DEF Tokens, Before
    <2>2. CASE chain # <<>>
      <3>1. n + 1 # 1 /\ (n + 1) - 1 = n
        BY <1>1, <2>2
      <3> QED BY <2>2, <3>1 DEF Tokens, Before, Last
    <2> QED BY <2>1, <2>2
  <1>6. Before(n + 1) \in [Mints -> ChainToken]
    <2>1. NoToken \in ChainToken
      BY DEF NoToken, ChainToken, TokenStatus
    <2>2. CASE n + 1 = 1
      BY <2>1, <2>2 DEF Before
    <2>3. CASE n + 1 # 1
      <3>1. n \in 1 .. n /\ (n + 1) - 1 = n
        BY <1>3, <2>3
      <3> QED BY <2>3, <3>1 DEF RowsInv, ChainOk, Before
    <2> QED BY <2>2, <2>3
  <1>7. tx.after \in [Mints -> ChainToken]
    <2>1. \/ tx.after = Before(n + 1)
          \/ \E m \in Mints : Steps(Before(n + 1), m, tx, 4)
      BY <1>5, <1>6, TransactionSteps
    <2> QED BY <1>6, <2>1 DEF Steps
  <1> HIDE DEF n
  <1>8. \A k \in 1 .. n + 1 : Before(k)' = Before(k)
    <2> TAKE k \in 1 .. n + 1
    <2>1. CASE k = 1
      BY <2>1 DEF Before
    <2>2. CASE k # 1
      <3>1. k - 1 \in 1 .. n
        BY <1>3, <2>2
      <3> QED BY <1>3, <2>2, <3>1 DEF Before
    <2> QED BY <2>1, <2>2
  <1>9. ChainOk'
    <2>1. ASSUME NEW k \in 1 .. n + 1
          PROVE  /\ chain'[k] \in Transactions(Before(k)')
                 /\ chain'[k].after \in [Mints -> ChainToken]
                 /\ \A m \in Mints :
                      chain'[k].after[m].status = "none" => NoneUntil(m, k)'
      <3>1. CASE k = n + 1
        <4>1. ASSUME NEW m \in Mints, tx.after[m].status = "none"
              PROVE  NoneUntil(m, k)'
          <5>1. Before(n + 1)[m].status = "none"
            BY <1>2, <1>5, <1>6, <4>1, OnceLaunched
          <5>2. \A j \in 1 .. n : chain[j].after[m].status = "none"
            <6>1. CASE n = 0
              BY <6>1
            <6>2. CASE n # 0
              <7>1. n \in 1 .. n /\ n + 1 # 1 /\ (n + 1) - 1 = n
                BY <1>3, <6>2
              <7> QED BY <5>1, <7>1 DEF Before, RowsInv, ChainOk, NoneUntil, n
            <6> QED BY <6>1, <6>2
          <5>3. \A j \in 1 .. k : j \in 1 .. n \/ j = n + 1
            BY <1>3, <3>1
          <5> QED BY <1>3, <4>1, <5>2, <5>3 DEF NoneUntil
        <4> QED BY <1>2, <1>3, <1>5, <1>7, <1>8, <3>1, <4>1
      <3>2. CASE k # n + 1
        <4>1. k \in 1 .. n /\ \A j \in 1 .. k : j \in 1 .. n
          BY <1>3, <3>2
        <4>2. \A m \in Mints : NoneUntil(m, k) => NoneUntil(m, k)'
          BY <1>3, <4>1 DEF NoneUntil
        <4> QED BY <1>3, <1>8, <4>1, <4>2 DEF RowsInv, ChainOk, n
      <3> QED BY <3>1, <3>2
    <2> QED BY <1>3, <2>1 DEF ChainOk
  <1>10. ASSUME NEW d, DatabaseInv(d)
         PROVE  /\ d.cursor = 0 => d = EmptyDb
                /\ d.cursor # 0 =>
                     /\ start < d.cursor /\ d.cursor <= n + 1
                     /\ \A m \in Mints :
                          LaunchedAfterStart(m)' => Agrees(d, m, chain'[d.cursor].after[m])
                     /\ TradesAre(d, TradeKeys(d.cursor, 4)')
    <2>1. SUFFICES ASSUME d.cursor # 0
                   PROVE  /\ start < d.cursor /\ d.cursor <= n + 1
                          /\ \A m \in Mints : LaunchedAfterStart(m)' =>
                               Agrees(d, m, chain'[d.cursor].after[m])
                          /\ TradesAre(d, TradeKeys(d.cursor, 4)')
      BY <1>10 DEF DatabaseInv
    <2> DEFINE c == d.cursor
    <2>2. c \in Nat /\ start < c /\ c <= n
      BY <1>10, <2>1 DEF DatabaseInv, Database, n
    <2>3. /\ \A m \in Mints : LaunchedAfterStart(m) => Agrees(d, m, chain[c].after[m])
          /\ TradesAre(d, TradeKeys(c, 4))
      BY <1>10, <2>1 DEF DatabaseInv
    <2> HIDE DEF c
    <2>4. c \in 1 .. n
      BY <1>3, <1>4, <2>2
    <2>5. \A k \in 1 .. start : chain'[k] = chain[k]
      BY <1>3, <1>4, <2>2
    <2>6. \A m \in Mints : LaunchedAfterStart(m)' = LaunchedAfterStart(m)
      BY <1>4, <2>5 DEF LaunchedAfterStart
    <2>7. \A k \in start + 1 .. c : chain'[k] = chain[k]
      BY <1>3, <1>4, <2>2
    <2>8. TradeKeys(c, 4)' = TradeKeys(c, 4)
      <3>1. KeysUpTo(c)' = KeysUpTo(c)
        BY <1>4, <2>7 DEF KeysUpTo
      <3>2. \A k \in KeysUpTo(c) : EventAt(k)' = EventAt(k)
        BY <2>7 DEF KeysUpTo, EventAt
      <3> QED BY <3>1, <3>2 DEF TradeKeys
    <2>9. c <= n + 1 /\ chain'[c] = chain[c]
      BY <1>3, <2>2, <2>4
    <2> QED BY <2>2, <2>3, <2>6, <2>8, <2>9 DEF c
  <1>11. DatabaseInv(db)'
    BY <1>3, <1>4, <1>10 DEF RowsInv, DatabaseInv
  <1>12. DatabaseInv(disk)'
    BY <1>3, <1>4, <1>10 DEF RowsInv, DatabaseInv
  <1> QED BY <1>9, <1>11, <1>12 DEF RowsInv

\* Whatever else happens, the database is what it was or what is on the disk.
LEMMA RowsStay ==
  ASSUME RowsInv, UNCHANGED <<chain, start>>, db' \in {db, disk}, disk' \in {db, disk}
  PROVE  RowsInv'
  <1>1. ChainOk'
    BY DEF RowsInv, ChainOk, Before, NoneUntil
  <1>2. ASSUME NEW d, DatabaseInv(d)
        PROVE  /\ d.cursor = 0 => d = EmptyDb
               /\ d.cursor # 0 =>
                    /\ start' < d.cursor /\ d.cursor <= Len(chain')
                    /\ \A m \in Mints :
                         LaunchedAfterStart(m)' => Agrees(d, m, chain'[d.cursor].after[m])
                    /\ TradesAre(d, TradeKeys(d.cursor, 4)')
    BY <1>2 DEF DatabaseInv, LaunchedAfterStart, TradeKeys, KeysUpTo, EventAt
  <1>3. DatabaseInv(db)'
    BY <1>2 DEF RowsInv, DatabaseInv
  <1>4. DatabaseInv(disk)'
    BY <1>2 DEF RowsInv, DatabaseInv
  <1> QED BY <1>1, <1>3, <1>4 DEF RowsInv

LEMMA RowsAtFirst == Init => RowsInv
  <1> SUFFICES ASSUME Init PROVE RowsInv
    OBVIOUS
  <1>1. chain = <<>> /\ Len(chain) = 0 /\ db = EmptyDb /\ disk = EmptyDb
    BY DEF Init
  <1>2. EmptyDb \in Database /\ EmptyDb.cursor = 0
    BY DEF EmptyDb, Database, NoRow, Row, TokenStatus
  <1> QED BY <1>1, <1>2 DEF RowsInv, ChainOk, DatabaseInv

LEMMA RowsStep == CursorInv /\ RowsInv /\ [Next]_vars => RowsInv'
  <1> SUFFICES ASSUME CursorInv, RowsInv, [Next]_vars PROVE RowsInv'
    OBVIOUS
  <1>1. CASE Confirm
    BY <1>1, ConfirmKeepsRows
  <1>2. CASE Commit
    <2>1. UNCHANGED <<chain, start, disk>>
      BY <1>2 DEF Commit, world
    <2>2. DatabaseInv(db)'
      BY <1>2, CommitWrites
    <2>3. ChainOk' /\ DatabaseInv(disk)'
      BY <2>1 DEF RowsInv, ChainOk, NoneUntil, Before, DatabaseInv, LaunchedAfterStart, TradeKeys,
                  KeysUpTo, EventAt
    <2> QED BY <2>2, <2>3 DEF RowsInv
  <1>3. CASE ~Confirm /\ ~Commit
    <2>1. UNCHANGED <<chain, start>> /\ db' \in {db, disk} /\ disk' \in {db, disk}
      BY <1>3 DEF vars, world, Next, Sync, Start, Wake, List, Fetch, GiveUp, Publish,
                  RequestFails, Checkpoint, Crash, LosePower
    <2> QED BY <2>1, RowsStay
  <1> QED BY <1>1, <1>2, <1>3

LEMMA AlwaysRowsInv == Spec => [](CursorInv /\ RowsInv)
  BY CursorAtFirst, CursorStep, RowsAtFirst, RowsStep, PTL DEF Spec

-----------------------------------------------------------------------------

\* indexer.ts:6-7, "rows are always written in chain order and a restart
\* resumes where it stopped": for every chain the program can produce, page
\* size, batch size and number of faults, and through losses of power, the row
\* of a token says what the chain knew of the token at the cursor.
THEOREM RowsAlwaysFollowChain == Spec => []RowsFollowChain
  <1>1. ASSUME CursorInv, RowsInv PROVE RowsFollowChain
    <2> SUFFICES ASSUME NEW m \in Mints
                 PROVE  LET row == db.tokens[m]
                            t == IF Cursor = 0 THEN NoToken ELSE chain[Cursor].after[m]
                        IN  IF Cursor = start THEN row = NoRow
                            ELSE LaunchedAfterStart(m) =>
                                   /\ row.status = t.status
                                   /\ row.left = t.left
                                   /\ row.count = t.trades
                                   /\ row.volume = t.volume
                                   /\ m \in db.graduations <=> t.status = "migrated"
      BY DEF RowsFollowChain
    <2>1. start \in Nat /\ db.cursor \in Nat
      BY <1>1 DEF CursorInv, ChainInv
    <2>2. CASE db.cursor = 0
      <3>1. db = EmptyDb /\ Cursor = start
        BY <1>1, <2>2 DEF RowsInv, DatabaseInv, Cursor
      <3>2. db.tokens[m] = NoRow
        BY <3>1 DEF EmptyDb
      <3> QED BY <3>1, <3>2
    <2>3. CASE db.cursor # 0
      <3>1. /\ Cursor = db.cursor /\ start < db.cursor
            /\ LaunchedAfterStart(m) => Agrees(db, m, chain[db.cursor].after[m])
        BY <1>1, <2>3 DEF RowsInv, DatabaseInv, Cursor
      <3>2. Cursor # start /\ Cursor # 0
        BY <2>1, <2>3, <3>1
      <3> QED BY <3>1, <3>2 DEF Agrees
    <2> QED BY <2>2, <2>3
  <1> QED BY <1>1, AlwaysRowsInv, PTL

\* schema.ts:54, "Rows are inserted in chain order, so id gives a total order
\* of trades": every trade between start and the cursor has one row, and the
\* rows are in the order of the chain.
THEOREM TradesAlwaysInChainOrder == Spec => []TradesInChainOrder
  <1>1. ASSUME CursorInv, RowsInv PROVE TradesInChainOrder
    <2> DEFINE n == Len(db.trades)
               keys == [i \in DOMAIN db.trades |-> db.trades[i].key]
               expected == {k \in KeysUpTo(Cursor) : EventAt(k).name = "trade"}
    <2>1. DOMAIN db.trades = 1 .. n /\ start \in Nat /\ db.cursor \in Nat
      BY <1>1 DEF RowsInv, DatabaseInv, Database, CursorInv, ChainInv
    <2>2. /\ \A i, j \in 1 .. n : i < j => Earlier(db.trades[i].key, db.trades[j].key)
          /\ {db.trades[i].key : i \in 1 .. n} = expected
      <3>1. CASE db.cursor = 0
        <4>1. db = EmptyDb /\ Cursor = start
          BY <1>1, <3>1 DEF RowsInv, DatabaseInv, Cursor
        <4>2. n = 0
          BY <4>1 DEF EmptyDb
        <4>3. expected = {}
          <5>1. start + 1 .. Cursor = {}
            BY <2>1, <4>1
          <5> QED BY <5>1 DEF KeysUpTo
        <4> QED BY <4>2, <4>3
      <3>2. CASE db.cursor # 0
        <4>1. Cursor = db.cursor /\ TradesAre(db, TradeKeys(db.cursor, 4))
          BY <1>1, <3>2 DEF RowsInv, DatabaseInv, Cursor
        <4>2. TradeKeys(Cursor, 4) = expected
          <5>1. \A k \in KeysUpTo(Cursor) : k[2] \in 1 .. 4
            BY DEF KeysUpTo
          <5> QED BY <5>1 DEF TradeKeys
        <4> QED BY <4>1, <4>2 DEF TradesAre
      <3> QED BY <3>1, <3>2
    <2>3. DOMAIN keys = 1 .. n /\ \A i \in 1 .. n : keys[i] = db.trades[i].key
      BY <2>1
    <2>4. Increasing(keys)
      BY <2>2, <2>3 DEF Increasing
    <2>5. Range(keys) = expected
      BY <2>2, <2>3 DEF Range
    <2> QED BY <2>4, <2>5 DEF TradesInChainOrder
  <1> QED BY <1>1, AlwaysRowsInv, PTL

-----------------------------------------------------------------------------
(***************************************************************************)
(* The feed.  What a commit announces waits in live until it is published, *)
(* so the feed reaches the transaction before the one being published; a   *)
(* process that ends in between leaves that one out.                       *)
(***************************************************************************)

KeysAt(s) == {<<s, j>> : j \in 1 .. Len(chain[s].events)}

KeysOf(l) == {l[i].key : i \in 1 .. Len(l)}

InOrder(l) ==
  /\ \E S : l \in Seq(S)
  /\ \A i, j \in 1 .. Len(l) : i < j => Earlier(l[i].key, l[j].key)
  /\ \A i \in 1 .. Len(l) : l[i].name = "trade" => l[i].shows = l[i].key

LiveInv ==
  pc = "publishing" =>
    /\ db.cursor # 0 /\ Shaped(Cursor)
    /\ Told(live, Cursor, Len(chain[Cursor].events))

FeedInv ==
  crashed # "power" =>
    /\ InOrder(feed)
    /\ KeysOf(feed) \subseteq KeysUpTo(Reached)
    /\ crashed = "never" => KeysUpTo(Reached) \subseteq KeysOf(feed)

LEMMA LiveStep == CursorInv /\ RowsInv /\ LiveInv /\ [Next]_vars => LiveInv'
  <1> SUFFICES ASSUME CursorInv, RowsInv, LiveInv, [Next]_vars, pc' = "publishing"
               PROVE  LiveInv'
    BY DEF LiveInv
  <1>1. CASE Commit
    <2> DEFINE s == Cursor + 1
    <2>1. s \in Nat /\ Shaped(s) /\ live' = Applied(db, s).live /\ chain' = chain
          /\ start' = start
      BY <1>1, CommitContext
    <2>2. Told(Applied(db, s).live, s, Len(chain[s].events))
      BY <1>1, CommitEnds
    <2>3. Cursor' = s /\ db'.cursor = s
      BY <1>1, CommitNext
    <2> HIDE DEF s
    <2>4. s # 0
      BY <2>1 DEF Shaped
    <2>5. Shaped(Cursor)'
      BY <2>1, <2>3 DEF Shaped
    <2>6. Told(live, Cursor, Len(chain[Cursor].events))'
      BY <2>1, <2>2, <2>3 DEF Told
    <2> QED BY <2>3, <2>4, <2>5, <2>6 DEF LiveInv
  <1>2. CASE Confirm
    <2>1. UNCHANGED <<start, db, pc, live>>
      BY <1>2 DEF Confirm, loop
    <2>2. Cursor' = Cursor
      BY <2>1 DEF Cursor
    <2>3. /\ db.cursor # 0 /\ Shaped(Cursor)
          /\ Told(live, Cursor, Len(chain[Cursor].events))
      BY <2>1 DEF LiveInv
    <2>4. chain'[Cursor] = chain[Cursor] /\ Cursor \in 1 .. Len(chain')
      BY <1>2, <2>3, ChainGrows DEF Shaped
    <2>5. Shaped(Cursor)' /\ Told(live, Cursor, Len(chain[Cursor].events))'
      BY <2>1, <2>2, <2>3, <2>4 DEF Shaped, Told
    <2> QED BY <2>1, <2>3, <2>5 DEF LiveInv
  <1>3. CASE ~Commit /\ ~Confirm
    <2>1. UNCHANGED <<chain, start, db, pc, live>>
      BY <1>3 DEF vars, world, loop, Next, Sync, Start, Wake, List, Fetch, GiveUp, Publish,
                  Rest, RequestFails, Checkpoint, Crash, LosePower, Down
    <2> QED BY <2>1 DEF LiveInv, Shaped, Told, Cursor
  <1> QED BY <1>1, <1>2, <1>3

LEMMA KeysGrow ==
  ASSUME start \in Nat, NEW s \in Nat, Shaped(s)
  PROVE  /\ KeysUpTo(s) = KeysUpTo(s - 1) \cup KeysAt(s)
         /\ \A k \in KeysUpTo(s - 1) : k[1] \in Nat /\ k[1] < s
  <1> DEFINE n == Len(chain[s].events)
  <1>1. n \in 0 .. 4 /\ DOMAIN chain[s].events = 1 .. n /\ start < s
    BY ShapedLength DEF Shaped
  <1> HIDE DEF n
  <1>2. \A j : j \in start + 1 .. s <=> j \in start + 1 .. s - 1 \/ j = s
    BY <1>1
  <1>3. ASSUME NEW k
        PROVE  k \in KeysUpTo(s) <=> k \in KeysUpTo(s - 1) \/ k \in KeysAt(s)
    <2>1. k \in KeysUpTo(s) => k \in KeysUpTo(s - 1) \/ k \in KeysAt(s)
      <3>1. SUFFICES ASSUME k \in KeysUpTo(s), k[1] = s PROVE k \in KeysAt(s)
        BY <1>2 DEF KeysUpTo
      <3>2. k = <<s, k[2]>> /\ k[2] \in 1 .. n
        BY <1>1, <3>1 DEF KeysUpTo
      <3> QED BY <3>2 DEF KeysAt, n
    <2>2. k \in KeysUpTo(s - 1) => k \in KeysUpTo(s)
      BY <1>2 DEF KeysUpTo
    <2>3. k \in KeysAt(s) => k \in KeysUpTo(s)
      <3>1. SUFFICES ASSUME NEW j \in 1 .. n PROVE <<s, j>> \in KeysUpTo(s)
        BY DEF KeysAt, n
      <3>2. j \in 1 .. 4 /\ s \in start + 1 .. s
        BY <1>1
      <3> QED BY <1>1, <3>2 DEF KeysUpTo
    <2> QED BY <2>1, <2>2, <2>3
  <1>4. \A k \in KeysUpTo(s - 1) : k[1] \in Nat /\ k[1] < s
    BY <1>1 DEF KeysUpTo
  <1> QED BY <1>3, <1>4

\* Notes that are all later than those told before come after them.
LEMMA TellInOrder ==
  ASSUME NEW told, InOrder(told), NEW l, NEW s \in Nat, NEW n \in Nat, Told(l, s, n),
         \A k \in KeysOf(told) : k[1] \in Nat /\ k[1] < s
  PROVE  /\ InOrder(told \o l)
         /\ KeysOf(told \o l) = KeysOf(told) \cup {<<s, j>> : j \in 1 .. n}
  <1>1. PICK A : told \in Seq(A)
    BY DEF InOrder
  <1>2. PICK B : l \in Seq(B)
    BY DEF Told
  <1> DEFINE S == A \cup B
             p == Len(told)
             all == told \o l
  <1>3. told \in Seq(S) /\ l \in Seq(S) /\ p \in Nat /\ Len(l) = n
    BY <1>1, <1>2 DEF Told
  <1>4. /\ all \in Seq(S) /\ Len(all) = p + n
        /\ \A i \in 1 .. p + n : all[i] = IF i <= p THEN told[i] ELSE l[i - p]
    <2> HIDE DEF S
    <2> QED BY <1>3, ConcatProperties
  <1> HIDE DEF S, p, all
  <1>5. \A i \in 1 .. p : i \in 1 .. p + n /\ all[i] = told[i]
    BY <1>3, <1>4
  <1>6. \A j \in 1 .. n : p + j \in 1 .. p + n /\ all[p + j] = l[j]
    BY <1>3, <1>4
  <1>7. \A i \in 1 .. p + n : i \in 1 .. p \/ (i - p \in 1 .. n /\ i = p + (i - p))
    BY <1>3
  <1>8. \A j \in 1 .. n : /\ l[j].key = <<s, j>>
                          /\ l[j].name = "trade" => l[j].shows = l[j].key
    BY DEF Told
  <1>9. \A i \in 1 .. p : told[i].key \in KeysOf(told)
    BY DEF KeysOf, p
  <1>10. ASSUME NEW i \in 1 .. p + n, NEW j \in 1 .. p + n, i < j
         PROVE  Earlier(all[i].key, all[j].key)
    <2>1. CASE j \in 1 .. p
      <3>1. i \in 1 .. p
        BY <1>3, <1>10, <2>1
      <3>2. Earlier(told[i].key, told[j].key)
        BY <1>10, <2>1, <3>1 DEF InOrder, p
      <3> QED BY <1>5, <2>1, <3>1, <3>2
    <2>2. CASE j \notin 1 .. p
      <3>1. j - p \in 1 .. n /\ all[j].key = <<s, j - p>>
        BY <1>6, <1>7, <1>8, <2>2
      <3>2. CASE i \in 1 .. p
        <4>1. all[i].key[1] \in Nat /\ all[i].key[1] < s
          BY <1>5, <1>9, <3>2
        <4> QED BY <3>1, <4>1 DEF Earlier
      <3>3. CASE i \notin 1 .. p
        <4>1. i - p \in 1 .. n /\ all[i].key = <<s, i - p>>
          BY <1>6, <1>7, <1>8, <3>3
        <4>2. i - p < j - p
          BY <1>3, <1>10
        <4> QED BY <3>1, <4>1, <4>2 DEF Earlier
      <3> QED BY <3>2, <3>3
    <2> QED BY <2>1, <2>2
  <1>11. ASSUME NEW i \in 1 .. p + n, all[i].name = "trade"
         PROVE  all[i].shows = all[i].key
    <2>1. CASE i \in 1 .. p
      BY <1>5, <1>11, <2>1 DEF InOrder, p
    <2>2. CASE i \notin 1 .. p
      <3>1. i - p \in 1 .. n /\ all[i] = l[i - p]
        BY <1>6, <1>7, <2>2
      <3> QED BY <1>8, <1>11, <3>1
    <2> QED BY <2>1, <2>2
  <1>12. InOrder(all)
    BY <1>4, <1>10, <1>11 DEF InOrder
  <1>13. ASSUME NEW k
         PROVE  k \in KeysOf(all) <=> k \in KeysOf(told) \cup {<<s, j>> : j \in 1 .. n}
    <2>1. ASSUME k \in KeysOf(all)
          PROVE  k \in KeysOf(told) \cup {<<s, j>> : j \in 1 .. n}
      <3>1. PICK i \in 1 .. p + n : k = all[i].key
        BY <1>4, <2>1 DEF KeysOf
      <3>2. CASE i \in 1 .. p
        BY <1>5, <1>9, <3>1, <3>2
      <3>3. CASE i \notin 1 .. p
        <4>1. i - p \in 1 .. n /\ all[i] = l[i - p]
          BY <1>6, <1>7, <3>3
        <4> QED BY <1>8, <3>1, <4>1
      <3> QED BY <3>2, <3>3
    <2>2. ASSUME k \in KeysOf(told) PROVE k \in KeysOf(all)
      <3>1. PICK i \in 1 .. p : k = told[i].key
        BY <2>2 DEF KeysOf, p
      <3>2. i \in 1 .. Len(all) /\ k = all[i].key
        BY <1>4, <1>5, <3>1
      <3> QED BY <3>2 DEF KeysOf
    <2>3. ASSUME NEW j \in 1 .. n, k = <<s, j>> PROVE k \in KeysOf(all)
      <3>1. p + j \in 1 .. Len(all) /\ k = all[p + j].key
        BY <1>4, <1>6, <1>8, <2>3
      <3> QED BY <3>1 DEF KeysOf
    <2> QED BY <2>1, <2>2, <2>3
  <1> QED BY <1>12, <1>13 DEF all

LEMMA PublishTells == CursorInv /\ LiveInv /\ FeedInv /\ Publish => FeedInv'
  <1> SUFFICES ASSUME CursorInv, LiveInv, FeedInv, Publish, crashed' # "power"
               PROVE  FeedInv'
    BY DEF FeedInv
  <1> DEFINE s == Cursor
             n == Len(chain[s].events)
  <1>1. /\ pc = "publishing" /\ pc' # "publishing" /\ feed' = feed \o live
        /\ UNCHANGED <<chain, start, db, crashed>>
    BY DEF Publish, world
  <1>2. s \in Nat /\ start \in Nat /\ Shaped(s) /\ Told(live, s, n)
    BY <1>1, CursorIsNat DEF CursorInv, ChainInv, LiveInv
  <1>3. n \in Nat
    BY <1>2, ShapedLength
  <1>4. Reached = s - 1 /\ Reached' = s
    BY <1>1 DEF Reached, Cursor
  <1> HIDE DEF s, n
  <1>5. /\ KeysUpTo(s) = KeysUpTo(s - 1) \cup KeysAt(s)
        /\ \A k \in KeysUpTo(s - 1) : k[1] \in Nat /\ k[1] < s
    BY <1>2, KeysGrow
  <1>6. /\ InOrder(feed) /\ KeysOf(feed) \subseteq KeysUpTo(s - 1)
        /\ crashed = "never" => KeysUpTo(s - 1) \subseteq KeysOf(feed)
    BY <1>1, <1>4 DEF FeedInv
  <1>7. InOrder(feed') /\ KeysOf(feed') = KeysOf(feed) \cup KeysAt(s)
    BY <1>1, <1>2, <1>3, <1>5, <1>6, TellInOrder DEF KeysAt, n
  <1>8. KeysUpTo(Reached)' = KeysUpTo(s)
    BY <1>1, <1>4 DEF KeysUpTo
  <1>9. InOrder(feed)' /\ KeysOf(feed)' = KeysOf(feed')
    BY <1>7 DEF InOrder, KeysOf
  <1> QED BY <1>1, <1>5, <1>6, <1>7, <1>8, <1>9 DEF FeedInv

\* What the feed has reached is on the chain, or nothing follows start.
LEMMA KeysStay ==
  ASSUME CursorInv, Confirm, NEW c \in Int, c <= Cursor
  PROVE  KeysUpTo(c)' = KeysUpTo(c)
  <1>1. start \in Nat /\ start' = start
    BY DEF CursorInv, ChainInv, Confirm
  <1>2. \A k \in start + 1 .. c : chain'[k] = chain[k]
    <2>1. CASE db.cursor = 0
      BY <1>1, <2>1 DEF Cursor
    <2>2. CASE db.cursor # 0
      <3>1. Cursor <= Len(chain) /\ Cursor \in Nat
        BY <2>2 DEF CursorInv, ChainInv, Cursor
      <3> QED BY <1>1, <3>1, ChainGrows
    <2> QED BY <2>1, <2>2
  <1> QED BY <1>1, <1>2 DEF KeysUpTo

LEMMA FeedStep == CursorInv /\ RowsInv /\ LiveInv /\ FeedInv /\ [Next]_vars => FeedInv'
  <1> SUFFICES ASSUME CursorInv, RowsInv, LiveInv, FeedInv, [Next]_vars, ~Publish,
                      crashed' # "power"
               PROVE  FeedInv'
    BY PublishTells DEF FeedInv
  <1>1. /\ start \in Nat /\ Cursor \in Nat
        /\ Reached \in Int /\ Reached <= Cursor
    BY CursorIsNat DEF CursorInv, ChainInv, Reached
  <1>2. crashed # "power" /\ feed' = feed /\ (crashed' = "never" => crashed = "never")
    BY DEF vars, world, loop, Next, Sync, Confirm, Start, Wake, List, Fetch, GiveUp, Commit,
           RequestFails, Checkpoint, Crash, LosePower
  <1>3. /\ InOrder(feed) /\ KeysOf(feed) \subseteq KeysUpTo(Reached)
        /\ crashed = "never" => KeysUpTo(Reached) \subseteq KeysOf(feed)
    BY <1>2 DEF FeedInv
  <1>4. InOrder(feed)' /\ KeysOf(feed)' = KeysOf(feed)
    BY <1>2, <1>3 DEF InOrder, KeysOf
  <1>5. ASSUME KeysUpTo(Reached)' = KeysUpTo(Reached)
        PROVE  FeedInv'
    BY <1>2, <1>3, <1>4, <1>5 DEF FeedInv
  <1>6. CASE Confirm
    <2>1. Reached' = Reached
      BY <1>6 DEF Confirm, loop, Reached, Cursor
    <2>2. KeysUpTo(Reached)' = KeysUpTo(Reached)
      <3> DEFINE c == Reached
      <3>1. c' = c
        BY <2>1
      <3>2. ASSUME NEW x \in Int, x <= Cursor, x = c'
            PROVE  KeysUpTo(c)' = KeysUpTo(x)
        BY <1>6, <3>2, KeysStay DEF KeysUpTo
      <3> QED BY <1>1, <3>1, <3>2
    <2> QED BY <1>5, <2>2
  <1>7. CASE Commit
    <2>1. UNCHANGED <<chain, start>> /\ pc = "applying" /\ pc' = "publishing"
      BY <1>7 DEF Commit, world
    <2>2. Reached' = Reached
      BY <1>1, <1>7, <2>1, CommitNext DEF Reached
    <2> QED BY <1>5, <2>1, <2>2 DEF KeysUpTo
  <1>8. CASE Crash /\ pc = "publishing"
    <2>1. UNCHANGED <<chain, start, db>> /\ pc' = "down" /\ crashed' # "never"
      BY <1>8 DEF Crash, Down, world
    <2>2. Reached = Cursor - 1 /\ Reached' = Cursor
      BY <1>8, <2>1 DEF Reached, Cursor
    <2>3. KeysUpTo(Cursor - 1) \subseteq KeysUpTo(Cursor)
      BY <1>1, <1>8, KeysGrow DEF LiveInv
    <2>4. KeysUpTo(Reached)' = KeysUpTo(Cursor)
      BY <2>1, <2>2 DEF KeysUpTo
    <2> QED BY <1>2, <1>3, <1>4, <2>1, <2>2, <2>3, <2>4 DEF FeedInv
  <1>9. CASE ~Confirm /\ ~Commit /\ ~(Crash /\ pc = "publishing")
    <2>1. UNCHANGED <<chain, start, db>> /\ (pc = "publishing" <=> pc' = "publishing")
      BY <1>9 DEF vars, world, loop, Next, Sync, Start, Wake, List, Fetch, GiveUp, Rest,
                  RequestFails, Checkpoint, Crash, LosePower, Down
    <2>2. Reached' = Reached
      BY <2>1 DEF Reached, Cursor
    <2> QED BY <1>5, <2>1, <2>2 DEF KeysUpTo
  <1> QED BY <1>6, <1>7, <1>8, <1>9

LEMMA FeedAtFirst == Init => LiveInv /\ FeedInv
  <1> SUFFICES ASSUME Init PROVE LiveInv /\ FeedInv
    OBVIOUS
  <1>1. /\ pc = "down" /\ feed = <<>> /\ db.cursor = 0 /\ start \in Nat
    BY IndexerAssumption DEF Init, EmptyDb
  <1>2. feed \in Seq({}) /\ Len(feed) = 0
    BY <1>1
  <1>3. KeysUpTo(Reached) = {}
    <2>1. Reached = start /\ start + 1 .. start = {}
      BY <1>1 DEF Reached, Cursor
    <2> QED BY <2>1 DEF KeysUpTo
  <1> QED BY <1>1, <1>2, <1>3 DEF LiveInv, FeedInv, InOrder, KeysOf

\* The feed against the rows, through the only code that writes both: what
\* clients are told was committed, is told once and in chain order, each trade
\* shown as itself (the read back by listTrades), and nothing is left out
\* unless the process died between a commit and its publication.
THEOREM FeedAlwaysFollowsRows == Spec => []FeedFollowsRows
  <1>1. ASSUME CursorInv, LiveInv, FeedInv PROVE FeedFollowsRows
    <2> SUFFICES ASSUME crashed # "power"
                 PROVE  LET keys == [i \in DOMAIN feed |-> feed[i].key]
                        IN  /\ Increasing(keys)
                            /\ Range(keys) \subseteq KeysUpTo(Cursor)
                            /\ crashed = "never" /\ pc # "publishing" =>
                                 Range(keys) = KeysUpTo(Cursor)
                            /\ \A i \in DOMAIN feed :
                                 feed[i].name = "trade" => feed[i].shows = feed[i].key
      BY DEF FeedFollowsRows
    <2> DEFINE keys == [i \in DOMAIN feed |-> feed[i].key]
    <2>1. /\ InOrder(feed) /\ KeysOf(feed) \subseteq KeysUpTo(Reached)
          /\ crashed = "never" => KeysUpTo(Reached) \subseteq KeysOf(feed)
      BY <1>1 DEF FeedInv
    <2>2. DOMAIN feed = 1 .. Len(feed)
      BY <2>1 DEF InOrder
    <2>3. Range(keys) = KeysOf(feed)
      BY <2>2 DEF Range, KeysOf
    <2>4. Increasing(keys)
      BY <2>1, <2>2 DEF InOrder, Increasing
    <2>5. KeysUpTo(Reached) \subseteq KeysUpTo(Cursor)
      <3>1. CASE pc = "publishing"
        BY <1>1, <3>1, CursorIsNat, KeysGrow
           DEF CursorInv, ChainInv, LiveInv, Reached
      <3>2. CASE pc # "publishing"
        BY <3>2 DEF Reached
      <3> QED BY <3>1, <3>2
    <2>6. pc # "publishing" => Reached = Cursor
      BY DEF Reached
    <2>7. \A i \in DOMAIN feed : feed[i].name = "trade" => feed[i].shows = feed[i].key
      BY <2>1, <2>2 DEF InOrder
    <2> HIDE DEF keys
    <2>8. /\ Range(keys) \subseteq KeysUpTo(Cursor)
          /\ crashed = "never" /\ pc # "publishing" => Range(keys) = KeysUpTo(Cursor)
      BY <2>1, <2>3, <2>5, <2>6
    <2> QED BY <2>4, <2>7, <2>8 DEF keys
  <1> QED BY <1>1, AlwaysRowsInv, FeedAtFirst, LiveStep, FeedStep, PTL DEF Spec

-----------------------------------------------------------------------------
(***************************************************************************)
(* The refinement of Mirror.                                               *)
(***************************************************************************)

\* How many transactions of the chain follow start.
Followed == IF Len(chain) > start THEN Len(chain) - start ELSE 0

\* What a reader should find of m after transaction start + n.
LineAt(m, n) ==
  LineOf(IF LaunchedAfterStart(m) THEN chain[start + n].after[m] ELSE NoToken)

Position == Cursor - start

\* A loss of power never brings back more than there was.
DiskBehind == disk.cursor <= db.cursor

MirrorInv == CursorInv /\ RowsInv /\ DiskBehind

LEMMA MirrorPositions ==
  ASSUME MirrorInv
  PROVE  /\ start \in Nat /\ Cursor \in Nat /\ Len(chain) \in Nat /\ Followed \in Nat
         /\ start <= Cursor /\ Position \in 0 .. Followed
         /\ Position = 0 <=> db.cursor = 0
  <1>1. /\ start \in Nat /\ Cursor \in Nat /\ Len(chain) \in Nat
        /\ db.cursor \in Nat /\ db.cursor <= Len(chain)
    BY CursorIsNat DEF MirrorInv, CursorInv, ChainInv
  <1>2. db.cursor # 0 => start < db.cursor
    BY DEF MirrorInv, RowsInv, DatabaseInv
  <1>3. Cursor = IF db.cursor = 0 THEN start ELSE db.cursor
    BY DEF Cursor
  <1> QED BY <1>1, <1>2, <1>3 DEF Position, Followed

PastIs ==
  /\ \E S : pastBar \in Seq(S)
  /\ Len(pastBar) = Followed
  /\ \A n \in 1 .. Followed : pastBar[n] = [m \in Mints |-> LineAt(m, n)]

LEMMA PastBar == start \in Nat /\ Len(chain) \in Nat => PastIs
  <1> SUFFICES ASSUME start \in Nat, Len(chain) \in Nat PROVE PastIs
    OBVIOUS
  <1> DEFINE At(n) == [m \in Mints |-> LineAt(m, n)]
             S == {At(n) : n \in 1 .. Followed}
  <1>1. Followed \in Nat
    BY DEF Followed
  <1>2. pastBar = [n \in 1 .. Followed |-> At(n)]
    BY DEF pastBar, Followed, LineAt
  <1> HIDE DEF At
  <1>3. pastBar \in [1 .. Followed -> S]
    BY <1>2
  <1> HIDE DEF S
  <1>4. /\ pastBar \in Seq(S)
        /\ Len(pastBar) = Followed
    <2>1. pastBar \in Seq(S) /\ DOMAIN pastBar = 1 .. Followed
      BY <1>1, <1>3
    <2> QED BY <1>1, <2>1
  <1>5. \A n \in 1 .. Followed : pastBar[n] = At(n)
    BY <1>2
  <1> QED BY <1>4, <1>5 DEF At, PastIs

\* The rows are those of one moment: that of the cursor.
CopyIs ==
  copyBar = IF Position = 0 THEN [m \in Mints |-> LineOf(NoToken)]
                            ELSE pastBar[Position]

LEMMA CopyIsMoment == MirrorInv => CopyIs
  <1> SUFFICES ASSUME MirrorInv PROVE CopyIs
    OBVIOUS
  <1>1. /\ start \in Nat /\ Cursor \in Nat /\ Len(chain) \in Nat /\ Followed \in Nat
        /\ start <= Cursor /\ Position \in 0 .. Followed
        /\ Position = 0 <=> db.cursor = 0
    BY MirrorPositions
  <1>2. Position = 0 <=> Cursor = start
    BY <1>1 DEF Position
  <1>3. CASE Position = 0
    <2>1. db = EmptyDb
      BY <1>1, <1>3 DEF MirrorInv, RowsInv, DatabaseInv
    <2>2. \A m \in Mints : db.tokens[m] = NoRow /\ m \notin db.graduations
      BY <2>1 DEF EmptyDb
    <2>3. \A m \in Mints : LET row == db.tokens[m]
                          IN  Line(row.status, row.left, row.count, row.volume,
                                   m \in db.graduations) = LineOf(NoToken)
      <3>1. ASSUME NEW m \in Mints
            PROVE  (m \in db.graduations) = (NoToken.status = "migrated")
        BY <2>2 DEF NoToken
      <3>2. /\ NoRow.status = NoToken.status /\ NoRow.left = NoToken.left
            /\ NoRow.count = NoToken.trades /\ NoRow.volume = NoToken.volume
        BY DEF NoRow, NoToken
      <3> QED BY <2>2, <3>1, <3>2 DEF LineOf
    <2> QED BY <1>2, <1>3, <2>3 DEF copyBar, CopyIs
  <1>4. CASE Position # 0
    <2>1. db.cursor = Cursor /\ start + Position = Cursor /\ Position \in 1 .. Followed
      BY <1>1, <1>4 DEF Cursor, Position
    <2>2. ASSUME NEW m \in Mints, LaunchedAfterStart(m)
          PROVE  LET row == db.tokens[m]
                 IN  Line(row.status, row.left, row.count, row.volume,
                          m \in db.graduations) = LineAt(m, Position)
      <3>1. Agrees(db, m, chain[Cursor].after[m])
        BY <1>1, <1>4, <2>1, <2>2 DEF MirrorInv, RowsInv, DatabaseInv
      <3>2. (m \in db.graduations) = (chain[Cursor].after[m].status = "migrated")
        BY <3>1 DEF Agrees
      <3> QED BY <2>1, <2>2, <3>1, <3>2 DEF Agrees, LineAt, LineOf
    <2>3. ASSUME NEW m \in Mints, ~LaunchedAfterStart(m)
          PROVE  LineOf(NoToken) = LineAt(m, Position)
      BY <2>3 DEF LineAt
    <2>4. copyBar = [m \in Mints |-> LineAt(m, Position)]
      BY <1>2, <1>4, <2>2, <2>3 DEF copyBar
    <2>5. pastBar[Position] = [m \in Mints |-> LineAt(m, Position)]
      BY <1>1, <2>1, PastBar DEF PastIs
    <2> QED BY <1>4, <2>4, <2>5 DEF CopyIs
  <1> QED BY <1>3, <1>4
LEMMA PastBarNext == (start \in Nat /\ Len(chain) \in Nat)' => PastIs'
  BY PastBar, PTL

LEMMA CopyNext == MirrorInv' => CopyIs'
  BY CopyIsMoment, PTL

LEMMA MirrorInvStep == MirrorInv /\ [Next]_vars => MirrorInv'
  <1> SUFFICES ASSUME MirrorInv, [Next]_vars PROVE MirrorInv'
    OBVIOUS
  <1>1. CursorInv' /\ RowsInv'
    BY CursorStep, RowsStep DEF MirrorInv
  <1>2. /\ db.cursor \in Nat /\ disk.cursor \in Nat /\ disk.cursor <= db.cursor
        /\ disk'.cursor \in Nat
    BY <1>1 DEF MirrorInv, DiskBehind, CursorInv, ChainInv
  <1>3. CASE Commit
    <2>1. disk' = disk /\ db'.cursor = Cursor + 1
      BY <1>3, CommitNext DEF Commit, MirrorInv
    <2>2. Cursor \in Nat /\ db.cursor <= Cursor
      BY <1>2, CursorIsNat DEF MirrorInv, CursorInv, Cursor
    <2>3. disk'.cursor <= db'.cursor
      BY <1>2, <2>1, <2>2
    <2> QED BY <1>1, <2>3 DEF MirrorInv, DiskBehind
  <1>4. CASE ~Commit
    <2>1. \/ db' = db /\ disk' \in {db, disk}
          \/ db' = disk /\ disk' = disk
      BY <1>4 DEF vars, world, Next, Sync, Confirm, Start, Wake, List, Fetch, GiveUp, Publish,
                  RequestFails, Checkpoint, Crash, LosePower
    <2>2. disk'.cursor <= db'.cursor
      BY <1>2, <2>1
    <2> QED BY <1>1, <2>2 DEF MirrorInv, DiskBehind
  <1> QED BY <1>3, <1>4

\* A transaction that comes after start is one more moment; the others are
\* not followed.
LEMMA ConfirmGrows ==
  ASSUME MirrorInv, Confirm
  PROVE  [Mirrored!Grow]_Mirrored!vars
  <1> DEFINE n == Len(chain)
  <1>1. /\ start \in Nat /\ Cursor \in Nat /\ n \in Nat /\ Followed \in Nat
        /\ start <= Cursor /\ Position \in 0 .. Followed
    BY MirrorPositions
  <1>2. /\ Len(chain') = n + 1
        /\ \A k \in 1 .. n : chain'[k] = chain[k]
    BY ChainGrows DEF MirrorInv
  <1>3. start' = start /\ db' = db /\ crashed' = crashed /\ Cursor' = Cursor
    BY DEF Confirm, Cursor
  <1>4. n >= start => \A m \in Mints : LaunchedAfterStart(m)' = LaunchedAfterStart(m)
    <2> SUFFICES ASSUME n >= start
                 PROVE  \A m \in Mints : LaunchedAfterStart(m)' = LaunchedAfterStart(m)
      OBVIOUS
    <2>1. \A k \in 1 .. start : chain'[k] = chain[k]
      BY <1>1, <1>2
    <2> QED BY <1>3, <2>1 DEF LaunchedAfterStart
  <1>5. Cursor # start => n >= start
    BY <1>1 DEF Position, Followed, n
  <1>6. copyBar' = copyBar
    <2>1. \A m \in Mints : (Cursor' = start' \/ LaunchedAfterStart(m)')
                          <=> (Cursor = start \/ LaunchedAfterStart(m))
      BY <1>3, <1>4, <1>5
    <2> QED BY <1>3, <2>1 DEF copyBar
  <1>7. Position' = Position /\ (crashed' = "power") = (crashed = "power")
    BY <1>3 DEF Position
  <1>8. /\ \E S : pastBar \in Seq(S)
        /\ Len(pastBar) = Followed
        /\ \A i \in 1 .. Followed : pastBar[i] = [m \in Mints |-> LineAt(m, i)]
        /\ \E S : pastBar' \in Seq(S)
        /\ Len(pastBar') = Followed'
        /\ \A i \in 1 .. Followed' : pastBar'[i] = [m \in Mints |-> LineAt(m, i)']
    BY <1>1, <1>2, <1>3, PastBar, PastBarNext DEF PastIs
  <1>9. ASSUME NEW i \in 1 .. Followed
        PROVE  pastBar'[i] = pastBar[i] /\ i \in 1 .. Followed'
    <2>1. n >= start /\ start + i \in 1 .. n /\ i \in 1 .. Followed'
      BY <1>1, <1>2, <1>3 DEF Followed, n
    <2>2. chain'[start + i] = chain[start + i]
      BY <1>2, <2>1
    <2>3. \A m \in Mints : LineAt(m, i)' = LineAt(m, i)
      BY <1>3, <1>4, <2>1, <2>2 DEF LineAt
    <2> QED BY <1>8, <2>1, <2>3
  <1>10. CASE n >= start
    <2>1. Followed' = Followed + 1
      BY <1>1, <1>2, <1>3, <1>10 DEF Followed
    <2>2. SubSeq(pastBar', 1, Len(pastBar)) = pastBar
      <3>1. PICK S, T : pastBar \in Seq(S) /\ pastBar' \in Seq(T)
        BY <1>8
      <3>2. Followed \in 0 .. Len(pastBar')
        BY <1>1, <1>8, <2>1
      <3> DEFINE p == SubSeq(pastBar', 1, Followed)
      <3>3. p = [i \in 1 .. Followed |-> pastBar'[i]]
        BY <1>1, <3>1, <3>2, SubSeqProperties
      <3>4. pastBar = [i \in 1 .. Followed |-> pastBar[i]]
        BY <1>8, <3>1
      <3> QED BY <1>8, <1>9, <3>3, <3>4
    <2>3. Len(pastBar') = Len(pastBar) + 1
      BY <1>8, <2>1
    <2> QED BY <1>6, <1>7, <2>2, <2>3 DEF Mirrored!Grow, Position
  <1>11. CASE ~(n >= start)
    <2>1. Followed = 0 /\ Followed' = 0
      BY <1>1, <1>2, <1>3, <1>11 DEF Followed
    <2>2. pastBar' = pastBar
      BY <1>8, <2>1
    <2> QED BY <1>6, <1>7, <2>2 DEF Mirrored!vars, Position
  <1> QED BY <1>10, <1>11

\* The transaction that is committed is the next moment.
LEMMA CommitFollows ==
  ASSUME MirrorInv, MirrorInv', Commit
  PROVE  Mirrored!Follow
  <1>1. /\ start \in Nat /\ Cursor \in Nat /\ Followed \in Nat
        /\ start <= Cursor /\ Len(chain) \in Nat
    BY MirrorPositions
  <1>2. UNCHANGED <<chain, start, crashed>> /\ Cursor' = Cursor + 1
    BY CommitNext DEF Commit, world, MirrorInv
  <1>3. Cursor + 1 <= Len(chain)
    BY CommitContext DEF MirrorInv, Shaped
  <1>4. /\ Position < Followed /\ Position' = Position + 1
        /\ Position \in Nat /\ Position' # 0
    BY <1>1, <1>2, <1>3 DEF Position, Followed
  <1>5. pastBar' = pastBar
    BY <1>2 DEF pastBar, LaunchedAfterStart
  <1>6. Len(pastBar) = Followed
    BY <1>1, PastBar DEF PastIs
  <1>7. copyBar' = pastBar[Position + 1]
    BY <1>4, <1>5, CopyNext DEF CopyIs
  <1>8. (crashed' = "power") = (crashed = "power")
    BY <1>2
  <1> QED BY <1>4, <1>5, <1>6, <1>7, <1>8 DEF Mirrored!Follow, Mirrored!Moment, Position

\* What is on the disk is an earlier moment.
LEMMA PowerFallsBack ==
  ASSUME MirrorInv, MirrorInv', LosePower
  PROVE  Mirrored!FallBack
  <1>1. UNCHANGED <<chain, start>> /\ db' = disk /\ crashed' = "power"
    BY DEF LosePower, world
  <1>2. /\ start \in Nat /\ Cursor \in Nat /\ start <= Cursor
        /\ db.cursor \in Nat /\ disk.cursor \in Nat /\ disk.cursor <= db.cursor
    BY MirrorPositions DEF MirrorInv, CursorInv, ChainInv, DiskBehind
  <1>3. disk.cursor # 0 => start < disk.cursor
    BY DEF MirrorInv, RowsInv, DatabaseInv
  <1>4. Position' \in 0 .. Position
    BY <1>1, <1>2, <1>3 DEF Position, Cursor
  <1>5. pastBar' = pastBar
    BY <1>1 DEF pastBar, LaunchedAfterStart
  <1>6. copyBar' = IF Position' = 0 THEN [m \in Mints |-> LineOf(NoToken)]
                                    ELSE pastBar'[Position']
    BY CopyNext DEF CopyIs
  <1> QED BY <1>1, <1>4, <1>5, <1>6 DEF Mirrored!FallBack, Mirrored!Moment, Position

LEMMA MirrorStep == MirrorInv /\ [Next]_vars => [Mirrored!Next]_Mirrored!vars
  <1> SUFFICES ASSUME MirrorInv, [Next]_vars PROVE [Mirrored!Next]_Mirrored!vars
    OBVIOUS
  <1>1. MirrorInv'
    BY MirrorInvStep
  <1>2. CASE Confirm
    BY <1>2, ConfirmGrows DEF Mirrored!Next
  <1>3. CASE Commit
    BY <1>1, <1>3, CommitFollows DEF Mirrored!Next
  <1>4. CASE LosePower
    BY <1>1, <1>4, PowerFallsBack DEF Mirrored!Next
  <1>5. CASE ~Confirm /\ ~Commit /\ ~LosePower
    <2>1. /\ UNCHANGED <<chain, start, db>>
          /\ crashed' = "power" <=> crashed = "power"
      BY <1>5 DEF vars, world, Next, Sync, Start, Wake, List, Fetch, GiveUp, Publish,
                  RequestFails, Checkpoint, Crash
    <2>2. pastBar' = pastBar
      BY <2>1 DEF pastBar, LaunchedAfterStart
    <2>3. copyBar' = copyBar /\ Cursor' = Cursor
      BY <2>1 DEF copyBar, LaunchedAfterStart, Cursor
    <2>4. (crashed' = "power") = (crashed = "power")
      BY <2>1
    <2> QED BY <2>1, <2>2, <2>3, <2>4 DEF Mirrored!vars
  <1> QED BY <1>2, <1>3, <1>4, <1>5

LEMMA MirrorAtFirst == Init => MirrorInv /\ Mirrored!Init
  <1> SUFFICES ASSUME Init PROVE MirrorInv /\ Mirrored!Init
    OBVIOUS
  <1>1. chain = <<>> /\ db = EmptyDb /\ disk = EmptyDb /\ crashed = "never"
    BY DEF Init
  <1>2. EmptyDb.cursor = 0 /\ Len(chain) = 0
    BY <1>1 DEF EmptyDb
  <1>3. MirrorInv
    BY <1>1, <1>2, CursorAtFirst, RowsAtFirst DEF MirrorInv, DiskBehind
  <1>4. start \in Nat /\ Position = 0 /\ Followed = 0
    BY <1>1, <1>2, <1>3, MirrorPositions DEF Cursor, Position, Followed
  <1>5. pastBar = <<>>
    BY <1>2, <1>4, PastBar DEF PastIs
  <1>6. copyBar = [m \in Mints |-> LineOf(NoToken)]
    BY <1>3, <1>4, CopyIsMoment DEF CopyIs
  <1>7. (crashed = "power") = FALSE
    BY <1>1
  <1> QED BY <1>3, <1>4, <1>5, <1>6, <1>7 DEF Mirrored!Init, Position

\* What a reader of the database may rely on (indexer.ts:6-7, db.ts:92-101):
\* between any two steps the rows are those of all the tokens after one and
\* the same transaction, transactions are followed one by one and none is
\* skipped, and only a loss of power goes back; for every chain, page size,
\* batch size, number of faults and start signature.
THEOREM RowsMirrorChain == Spec => MirrorsChain
  BY MirrorAtFirst, MirrorInvStep, MirrorStep, PTL DEF Spec, MirrorsChain, Mirrored!Spec

=============================================================================
