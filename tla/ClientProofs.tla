---------------------------- MODULE ClientProofs ----------------------------
(***************************************************************************)
(* What the command line promises, for any number of sessions, commands    *)
(* and tokens, any validity of a blockhash and any height.                 *)
(*                                                                         *)
(* First that what it reports as expired stays out of the chain: nothing   *)
(* in that part depends on what transactions do, and Execute, Succeeds and *)
(* the quotes are not expanded.  Then that nobody gets less than agreed,   *)
(* which rests on the first part and on the books of LaunchpadProofs: a    *)
(* session knows reserves and terms the program could have, so that its    *)
(* quote is a number, its order says what the quote says, and the program  *)
(* keeps to the order.  Then that an administrator's command changes only  *)
(* what it names.  Last that the quote is what happens, if nothing moved.  *)
(***************************************************************************)
EXTENDS Client, LaunchpadProofs, FiniteSetTheorems

\* The parts of a session that waiting depends on.
HasFields(r) ==
  /\ {"phase", "last", "until", "got", "moved"} \subseteq DOMAIN r
  /\ "known" \in DOMAIN r.got

SessionsShaped ==
  /\ DOMAIN session = Sessions
  /\ \A s \in Sessions : HasFields(session[s])

\* Before it is sent, a transaction has no outcome and can still be in time.
Unsent ==
  \A s \in Sessions :
    /\ session[s].phase \in {"reading", "signed"} => ~session[s].got.known
    /\ session[s].phase = "signed" =>
         session[s].last \in Nat /\ session[s].last <= height + Window

\* Who sent a transaction that may still be executed waits for it, and does
\* so until after its blockhash has become too old.
Awaited(f) ==
  /\ f.by \in Sessions
  /\ session[f.by].phase \in {"sent", "confirming"}
  /\ ~session[f.by].got.known
  /\ session[f.by].phase = "confirming" =>
       session[f.by].until \in Nat /\ f.last <= session[f.by].until

InTime(f) == f.last \in height .. height + Window

WaitInv ==
  /\ height \in Nat
  /\ SessionsShaped
  /\ Unsent
  /\ \A f \in flight : Awaited(f) /\ InTime(f)
  /\ \A f, g \in flight : f.by = g.by => f = g

LEMMA IdleShaped == HasFields(Idle) /\ Idle.phase = "idle" /\ ~Idle.got.known
  BY DEF HasFields, Idle, Pending

\* Changing the phase keeps the rest.
LEMMA PhaseOnly ==
  ASSUME NEW r, HasFields(r), NEW p
  PROVE  /\ HasFields([r EXCEPT !.phase = p])
         /\ [r EXCEPT !.phase = p].phase = p
         /\ [r EXCEPT !.phase = p].got = r.got
         /\ [r EXCEPT !.phase = p].last = r.last
  BY DEF HasFields

LEMMA WaitAtFirst == ClientInit => WaitInv
  BY IdleShaped DEF ClientInit, WaitInv, SessionsShaped, Unsent

\* A step of session s that leaves blocks and transactions alone keeps the
\* invariant if the new session of s does.
LEMMA SessionStep ==
  ASSUME WaitInv, NEW s \in Sessions, NEW r,
         session' = [session EXCEPT ![s] = r],
         UNCHANGED <<flight, height>>,
         HasFields(r),
         r.phase \in {"reading", "signed"} => ~r.got.known,
         r.phase = "signed" => r.last \in Nat /\ r.last <= height + Window,
         \A f \in flight : f.by = s =>
           /\ r.phase \in {"sent", "confirming"}
           /\ ~r.got.known
           /\ r.phase = "confirming" => r.until \in Nat /\ f.last <= r.until
  PROVE  WaitInv'
  <1>1. session'[s] = r /\ \A t \in Sessions : t # s => session'[t] = session[t]
    BY DEF WaitInv, SessionsShaped
  <1>2. SessionsShaped'
    BY <1>1 DEF WaitInv, SessionsShaped
  <1>3. Unsent'
    BY <1>1 DEF WaitInv, Unsent
  <1>4. \A f \in flight' : Awaited(f)' /\ InTime(f)'
    BY <1>1 DEF WaitInv, Awaited, InTime
  <1> QED BY <1>2, <1>3, <1>4 DEF WaitInv

\* A session that is not waiting has nothing that could be executed.
LEMMA NothingSent ==
  ASSUME WaitInv, NEW s \in Sessions,
         session[s].phase \notin {"sent", "confirming"} \/ session[s].got.known
  PROVE  \A f \in flight : f.by # s
  BY DEF WaitInv, Awaited

LEMMA StepWaits ==
  ASSUME ClientAssumption, WaitInv, NEW s \in Sessions, Step(s)
  PROVE  WaitInv'
  <1> DEFINE r == session[s]
  <1>r. HasFields(r)
    BY DEF WaitInv, SessionsShaped
  <1>w. height \in Nat /\ Window \in Nat
    BY DEF WaitInv, ClientAssumption
  <1>1. ASSUME NEW m \in Mints, NEW cmd \in Commands, Begin(s, m, cmd)
        PROVE  WaitInv'
    <2>1. \A f \in flight : f.by # s
      BY <1>1, NothingSent DEF Begin
    <2> DEFINE b == [Idle EXCEPT !.phase = "reading", !.cmd = cmd, !.mint = m,
                       !.amount = IF cmd.op = "sell" THEN balance[s][m] ELSE 0]
    <2>2. HasFields(b) /\ b.phase = "reading" /\ ~b.got.known
      BY DEF HasFields, Idle, Pending
    <2>3. session' = [session EXCEPT ![s] = b] /\ UNCHANGED <<flight, height>>
      BY <1>1 DEF Begin
    <2> HIDE DEF b
    <2> QED BY <2>1, <2>2, <2>3, SessionStep
  <1>2. ASSUME NEW skew \in Skews, ReadCurve(s, skew)
        PROVE  WaitInv'
    <2>1. r.phase = "reading"
      BY <1>2 DEF ReadCurve, Reads
    <2>2. (\A f \in flight : f.by # s) /\ ~r.got.known
      BY <2>1, NothingSent DEF WaitInv, Unsent
    <2>3. PICK x : /\ session' = [session EXCEPT ![s] = x]
                   /\ \/ x = [r EXCEPT !.known = @ \cup {"curve"},
                                !.curve = curve[r.mint],
                                !.unsure = @ \/ (curve[r.mint].status = "Complete" /\ skew > 0)]
                      \/ x = [Idle EXCEPT !.phase = "thrown"]
      BY <1>2 DEF ReadCurve
    <2>4. HasFields(x) /\ x.phase # "signed" /\ (x.phase = "reading" => ~x.got.known)
      <3>1. CASE x = [Idle EXCEPT !.phase = "thrown"]
        BY <3>1, IdleShaped, PhaseOnly
      <3>2. CASE x = [r EXCEPT !.known = @ \cup {"curve"}, !.curve = curve[r.mint],
                        !.unsure = @ \/ (curve[r.mint].status = "Complete" /\ skew > 0)]
        BY <1>r, <2>1, <2>2, <3>2 DEF HasFields
      <3> QED BY <2>3, <3>1, <3>2
    <2>5. UNCHANGED <<flight, height>>
      BY <1>2 DEF ReadCurve
    <2> QED BY <2>2, <2>3, <2>4, <2>5, SessionStep
  <1>3. CASE ReadConfig(s)
    <2>1. r.phase = "reading"
      BY <1>3 DEF ReadConfig, Reads
    <2>2. (\A f \in flight : f.by # s) /\ ~r.got.known
      BY <2>1, NothingSent DEF WaitInv, Unsent
    <2> DEFINE read == [params |-> config.params,
                        createPaused |-> config.createPaused,
                        tradingPaused |-> config.tradingPaused]
               q == [r EXCEPT !.known = @ \cup {"config"}, !.config = read,
                              !.unsure = @ \/ config.tradingPaused]
    <2>4. HasFields(q) /\ q.phase = "reading" /\ ~q.got.known
      BY <1>r, <2>1, <2>2 DEF HasFields
    <2>5. UNCHANGED <<flight, height>>
      BY <1>3 DEF ReadConfig
    <2>6. session' = [session EXCEPT ![s] = q]
      BY <1>3 DEF ReadConfig, WaitInv, SessionsShaped
    <2> HIDE DEF q
    <2> QED BY <2>2, <2>4, <2>5, <2>6, SessionStep
  <1>4. CASE Build(s)
    <2>1. r.phase = "reading"
      BY <1>4 DEF Build
    <2>2. (\A f \in flight : f.by # s) /\ ~r.got.known
      BY <2>1, NothingSent DEF WaitInv, Unsent
    <2>3. PICK x : /\ session' = [session EXCEPT ![s] = x]
                   /\ \/ x = [r EXCEPT !.phase = "signed", !.quote = Quote(r),
                                !.order = Order(r), !.last = height + Window,
                                !.curve = NoCurve, !.config = NoConfig]
                      \/ x = [Idle EXCEPT !.phase = "thrown"]
      BY <1>4 DEF Build
    <2>4. /\ HasFields(x)
          /\ x.phase = "thrown" \/ (x.phase = "signed" /\ x.last = height + Window
                                      /\ ~x.got.known)
      <3>1. CASE x = [Idle EXCEPT !.phase = "thrown"]
        BY <3>1, IdleShaped, PhaseOnly
      <3> DEFINE y(quote, order) ==
                   [r EXCEPT !.phase = "signed", !.quote = quote, !.order = order,
                             !.last = height + Window, !.curve = NoCurve,
                             !.config = NoConfig]
      <3>2. ASSUME NEW quote, NEW order
            PROVE  /\ HasFields(y(quote, order)) /\ y(quote, order).phase = "signed"
                   /\ y(quote, order).last = height + Window
                   /\ y(quote, order).got = r.got
        BY <1>r DEF HasFields
      <3>3. CASE x = y(Quote(r), Order(r))
        BY <2>2, <3>2, <3>3
      <3> QED BY <2>3, <3>1, <3>3
    <2>5. UNCHANGED <<flight, height>>
      BY <1>4 DEF Build
    <2>6. x.phase = "signed" => x.last \in Nat /\ x.last <= height + Window
      BY <1>w, <2>4
    <2> QED BY <2>2, <2>3, <2>4, <2>5, <2>6, SessionStep
  <1>5. CASE Send(s)
    <2> DEFINE sent == [r EXCEPT !.phase = "sent"]
               refused == [r EXCEPT !.phase = "refused"]
               g == [by |-> s, order |-> r.order, last |-> r.last]
    <2>1. r.phase = "signed" /\ height <= r.last
      BY <1>5 DEF Send
    <2>2. /\ \A f \in flight : f.by # s
          /\ ~r.got.known
          /\ r.last \in Nat /\ r.last <= height + Window
      BY <2>1, NothingSent DEF WaitInv, Unsent
    <2>3. /\ HasFields(sent) /\ sent.phase = "sent" /\ ~sent.got.known
          /\ HasFields(refused) /\ refused.phase = "refused"
      BY <1>r, <2>2, PhaseOnly
    <2>g. g.by = s /\ g.last = r.last
      OBVIOUS
    <2>4. CASE session' = [session EXCEPT ![s] = refused] /\ flight' = flight
      BY <1>5, <2>2, <2>3, <2>4, SessionStep DEF Send
    <2>5. CASE session' = [session EXCEPT ![s] = sent] /\ flight' = flight \cup {g}
      <3> HIDE DEF sent, g
      <3>1. session'[s] = sent /\ \A t \in Sessions : t # s => session'[t] = session[t]
        BY <2>5 DEF WaitInv, SessionsShaped
      <3>2. height' = height
        BY <1>5 DEF Send
      <3>3. SessionsShaped' /\ Unsent'
        BY <2>3, <2>5, <3>1, <3>2 DEF WaitInv, SessionsShaped, Unsent
      <3>4. ASSUME NEW h, h = g
            PROVE  Awaited(h)' /\ InTime(h)'
        BY <1>w, <2>1, <2>2, <2>3, <2>g, <3>1, <3>2, <3>4 DEF Awaited, InTime
      <3>5. \A f \in flight : Awaited(f)' /\ InTime(f)'
        BY <2>2, <3>1, <3>2 DEF WaitInv, Awaited, InTime
      <3>6. \A f, h \in flight' : f.by = h.by => f = h
        BY <2>2, <2>5, <2>g DEF WaitInv
      <3> QED BY <1>w, <2>5, <3>2, <3>3, <3>4, <3>5, <3>6 DEF WaitInv
    <2>6. \/ session' = [session EXCEPT ![s] = sent] /\ flight' = flight \cup {g}
          \/ session' = [session EXCEPT ![s] = refused] /\ flight' = flight
      BY <1>5 DEF Send
    <2> QED BY <2>4, <2>5, <2>6
  <1>6. CASE SendTooLate(s) \/ End(s)
    <2>1. r.phase \notin {"sent", "confirming"}
      BY <1>6 DEF SendTooLate, End
    <2>2. PICK x \in {Idle, [Idle EXCEPT !.phase = "thrown"]} :
            session' = [session EXCEPT ![s] = x]
      BY <1>6 DEF SendTooLate, End
    <2>3. HasFields(x) /\ x.phase \notin {"reading", "signed"}
      <3>1. CASE x = [Idle EXCEPT !.phase = "thrown"]
        BY <3>1, IdleShaped, PhaseOnly
      <3>2. CASE x = Idle
        BY <3>2, IdleShaped
      <3> QED BY <3>1, <3>2
    <2>4. (\A f \in flight : f.by # s) /\ UNCHANGED <<flight, height>>
      BY <1>6, <2>1, NothingSent DEF SendTooLate, End
    <2> QED BY <2>2, <2>3, <2>4, SessionStep
  <1>7. CASE Watch(s)
    <2> DEFINE x == [r EXCEPT !.phase = "confirming", !.until = Until]
    <2>1. session' = [session EXCEPT ![s] = x] /\ UNCHANGED <<flight, height>>
      BY <1>7, <1>r DEF Watch, WaitInv, SessionsShaped
    <2>2. HasFields(x) /\ x.phase = "confirming" /\ x.until = height + Window
          /\ x.got = r.got
      BY <1>r DEF HasFields, Until
    <2>3. \A f \in flight : f.by = s => ~r.got.known /\ f.last <= height + Window
      BY <1>w DEF WaitInv, Awaited, InTime
    <2> HIDE DEF x
    <2>4. \A f \in flight : f.by = s => x.until \in Nat /\ f.last <= x.until
      BY <1>w, <2>2, <2>3
    <2> QED BY <2>1, <2>2, <2>3, <2>4, SessionStep
  <1>8. CASE Confirm(s) \/ Expire(s)
    <2>1. \A f \in flight : f.by # s
      <3>1. CASE Confirm(s)
        BY <3>1, NothingSent DEF Confirm
      <3>2. CASE Expire(s)
        BY <1>w, <3>2 DEF Expire, WaitInv, Awaited, InTime
      <3> QED BY <1>8, <3>1, <3>2
    <2>2. PICK p \in {"done", "refused", "expired"} :
            session' = [session EXCEPT ![s] = [r EXCEPT !.phase = p]]
      BY <1>8 DEF Confirm, Expire
    <2> DEFINE x == [r EXCEPT !.phase = p]
    <2>3. HasFields(x) /\ x.phase = p
      BY <1>r DEF HasFields
    <2>4. session' = [session EXCEPT ![s] = x] /\ UNCHANGED <<flight, height>>
      BY <1>8, <2>2 DEF Confirm, Expire
    <2> HIDE DEF x
    <2> QED BY <2>1, <2>2, <2>3, <2>4, SessionStep
  <1> QED BY <1>1, <1>2, <1>3, <1>4, <1>5, <1>6, <1>7, <1>8 DEF Step

\* A transaction is executed or dropped: the sessions keep their phases, and
\* only the one that sent it learns the outcome.
LEMMA OutcomeWaits ==
  ASSUME WaitInv, NEW f \in flight, NEW got,
         flight' = flight \ {f}, height' = height,
         DOMAIN session' = Sessions, "known" \in DOMAIN got,
         \A t \in Sessions :
           /\ HasFields(session'[t])
           /\ session'[t].phase = session[t].phase
           /\ session'[t].last = session[t].last
           /\ session'[t].until = session[t].until
           /\ session'[t].got = IF t = f.by THEN got ELSE session[t].got
  PROVE  WaitInv'
  <1>1. session[f.by].phase \in {"sent", "confirming"}
    BY DEF WaitInv, Awaited
  <1>2. SessionsShaped' /\ Unsent'
    BY <1>1 DEF WaitInv, SessionsShaped, Unsent
  <1>3. \A g \in flight' : g \in flight /\ g.by # f.by
    BY DEF WaitInv
  <1>4. \A g \in flight' : Awaited(g)' /\ InTime(g)'
    BY <1>3 DEF WaitInv, Awaited, InTime
  <1> QED BY <1>2, <1>3, <1>4 DEF WaitInv

LEMMA StirredKeeps ==
  ASSUME WaitInv, NEW t \in Sessions
  PROVE  /\ HasFields(Stirred(t))
         /\ Stirred(t).phase = session[t].phase
         /\ Stirred(t).last = session[t].last
         /\ Stirred(t).until = session[t].until
         /\ Stirred(t).got = session[t].got
  <1>1. HasFields(session[t])
    BY DEF WaitInv, SessionsShaped
  <1>2. PICK moved : Stirred(t) = [session[t] EXCEPT !.moved = moved]
    BY DEF Stirred
  <1> QED BY <1>1, <1>2 DEF HasFields

LEMMA WaitStep ==
  ASSUME ClientAssumption, WaitInv, [ClientNext]_<<chainVars, clientVars>>
  PROVE  WaitInv'
  <1>1. ASSUME NEW f \in flight, Land(f)
        PROVE  WaitInv'
    <2>1. f.by \in Sessions /\ HasFields(session[f.by])
      BY DEF WaitInv, Awaited, SessionsShaped
    <2>2. PICK got :
            /\ "known" \in DOMAIN got
            /\ session' = [t \in Sessions |->
                 IF t # f.by THEN Stirred(t) ELSE [session[f.by] EXCEPT !.got = got]]
      BY <1>1 DEF Land
    <2>3. flight' = flight \ {f} /\ height' = height
      BY <1>1 DEF Land
    <2>4. DOMAIN session' = Sessions
      BY <2>2
    <2>5. session'[f.by] = [session[f.by] EXCEPT !.got = got]
      BY <2>1, <2>2
    <2>6. \A t \in Sessions : t # f.by => session'[t] = Stirred(t)
      BY <2>2
    <2>7. \A t \in Sessions :
            /\ HasFields(session'[t])
            /\ session'[t].phase = session[t].phase
            /\ session'[t].last = session[t].last
            /\ session'[t].until = session[t].until
            /\ session'[t].got = IF t = f.by THEN got ELSE session[t].got
      <3> SUFFICES ASSUME NEW t \in Sessions
                   PROVE  /\ HasFields(session'[t])
                          /\ session'[t].phase = session[t].phase
                          /\ session'[t].last = session[t].last
                          /\ session'[t].until = session[t].until
                          /\ session'[t].got = IF t = f.by THEN got ELSE session[t].got
        OBVIOUS
      <3>1. CASE t = f.by
        BY <2>1, <2>2, <2>5, <3>1 DEF HasFields
      <3>2. CASE t # f.by
        BY <2>6, <3>2, StirredKeeps
      <3> QED BY <3>1, <3>2
    <2> QED BY <2>2, <2>3, <2>4, <2>7, OutcomeWaits
  <1>2. ASSUME NEW f \in flight, LandRefused(f)
        PROVE  WaitInv'
    <2>1. f.by \in Sessions /\ HasFields(session[f.by])
      BY DEF WaitInv, Awaited, SessionsShaped
    <2> DEFINE got == [session[f.by].got EXCEPT !.known = TRUE]
    <2>2. session' = [session EXCEPT ![f.by] = [session[f.by] EXCEPT !.got = got]]
      BY <1>2 DEF LandRefused
    <2>3. flight' = flight \ {f} /\ height' = height
      BY <1>2 DEF LandRefused
    <2>4. "known" \in DOMAIN got
      BY <2>1 DEF HasFields
    <2> HIDE DEF got
    <2>5. DOMAIN session' = Sessions
      BY <2>2 DEF WaitInv, SessionsShaped
    <2>6. \A t \in Sessions :
            session'[t] = IF t = f.by THEN [session[f.by] EXCEPT !.got = got]
                          ELSE session[t]
      BY <2>1, <2>2 DEF WaitInv, SessionsShaped
    <2>7. \A t \in Sessions :
            /\ HasFields(session'[t])
            /\ session'[t].phase = session[t].phase
            /\ session'[t].last = session[t].last
            /\ session'[t].until = session[t].until
            /\ session'[t].got = IF t = f.by THEN got ELSE session[t].got
      BY <2>1, <2>4, <2>6 DEF WaitInv, SessionsShaped, HasFields
    <2> QED BY <2>3, <2>4, <2>5, <2>7, OutcomeWaits
  <1>3. CASE NewBlock
    <2>1. height' = height + 1 /\ session' = session
          /\ flight' = {f \in flight : f.last >= height'}
      BY <1>3 DEF NewBlock
    <2>2. height \in Nat /\ Window \in Nat
      BY DEF WaitInv, ClientAssumption
    <2>3. SessionsShaped' /\ Unsent'
      BY <2>1, <2>2 DEF WaitInv, SessionsShaped, Unsent
    <2>4. \A f \in flight' : Awaited(f)' /\ InTime(f)'
      BY <2>1, <2>2 DEF WaitInv, Awaited, InTime
    <2> QED BY <2>1, <2>2, <2>3, <2>4 DEF WaitInv
  <1>4. CASE World
    <2>1. session' = [s \in Sessions |-> Stirred(s)]
          /\ UNCHANGED <<flight, height>>
      BY <1>4 DEF World
    <2>2. \A t \in Sessions : session'[t] = Stirred(t)
      BY <2>1
    <2>3. SessionsShaped' /\ Unsent'
      BY <2>1, <2>2, StirredKeeps DEF WaitInv, SessionsShaped, Unsent
    <2>4. \A f \in flight' : Awaited(f)' /\ InTime(f)'
      BY <2>1, <2>2, StirredKeeps DEF WaitInv, Awaited, InTime
    <2> QED BY <2>1, <2>3, <2>4 DEF WaitInv
  <1>5. CASE UNCHANGED <<chainVars, clientVars>>
    BY <1>5 DEF clientVars, WaitInv, SessionsShaped, Unsent, Awaited, InTime
  <1> QED BY <1>1, <1>2, <1>3, <1>4, <1>5, StepWaits DEF ClientNext

\* A transaction reported as expired is never executed afterwards, whatever
\* the number of sessions, the validity of a blockhash and the commands.
THEOREM ExpiredStaysOut == ClientSpec => []ExpiryIsFinal
  <1>1. WaitInv => ExpiryIsFinal
    BY DEF WaitInv, Awaited, ExpiryIsFinal
  <1>2. WaitInv /\ [ClientNext]_<<chainVars, clientVars>> => WaitInv'
    BY WaitStep, ClientAssumption
  <1> QED BY <1>1, <1>2, WaitAtFirst, PTL DEF ClientSpec

-----------------------------------------------------------------------------
(***************************************************************************)
(* The program's own invariant among the clients: what a command submits   *)
(* is what the program accepts from anybody.                               *)
(***************************************************************************)

LEMMA BooksAtFirst == ClientInit => IInv
  BY InitIInv DEF ClientInit

\* A launch with its first buy is a creation and a buy, of one mint.
LEMMA CreateAndBuyStep ==
  ASSUME IInv, NEW m \in Mints, NEW budget \in Amount, NEW least,
         CreateAndBuy(m, budget, least)
  PROVE  IInv'
  <1> DEFINE p == config.params
             c == NewCurve(p)
             q == QuoteBuy(c.vs, c.vt, c.rt, budget, p.fees)
             d == AfterBuy(c, q, now)
  <1>1. Rest /\ MintTypes /\ \A n \in Mints : SoundMint(n)
    BY IInvParts
  <1>2. /\ trades < MaxTrades /\ trades' = trades + 1
        /\ curve[m].status = "Absent"
        /\ BuyQuoted(c.vs, c.vt, c.rt, budget, p.fees)
        /\ Fits(c.vs + q.sol)
        /\ curve' = [curve EXCEPT ![m] = d]
        /\ lamports' = [lamports EXCEPT ![m] = lamports[m] + q.totalCost]
        /\ vault' = [vault EXCEPT ![m] = p.supply - q.tokens]
        /\ circulating' = [circulating EXCEPT ![m] = q.tokens]
        /\ launch' = [launch EXCEPT ![m] = p]
        /\ UNCHANGED <<config, stray, pool, burned, amm, now, gifts>>
    BY DEF CreateAndBuy, CreateAndBuyAccepted, CreateAccepted, FirstQuote
  <1>3. /\ p \in ValidParams /\ p.fees \in Fees
        /\ p.fees \in [protocol : Nat, creator : Nat]
        /\ p.supply \in Amount /\ p.rt \in Amount /\ p.supply > p.rt
        /\ p.vs \in Amount /\ p.vt \in Amount
    BY <1>1, ConfigFields, ValidTerms, FeesAreNat
  <1>4. /\ c.vs = p.vs /\ c.vt = p.vt /\ c.rt = p.rt /\ c.rs = 0
        /\ c.protocolFees = 0 /\ c.creatorFees = 0 /\ c.status = "Trading"
    BY DEF NewCurve
  <1>5. Sound(curve[m], lamports[m], vault[m], circulating[m], stray[m],
              pool[m], burned[m], launch[m], gifts[m], now)
    BY <1>1 DEF SoundMint
  <1>6. curve[m] = NoCurve /\ circulating[m] = 0
    BY <1>2, <1>5 DEF Sound, SoundAbsent
  <1>7. Sound(c, lamports[m], p.supply, circulating[m], stray[m], pool[m],
              burned[m], p, gifts[m], now)
    BY <1>3, <1>5, <1>6, CreateSound
  <1>8. q = QuoteBuy(c.vs, c.vt, c.rt, budget, p.fees) /\ d = AfterBuy(c, q, now)
    OBVIOUS
  <1> HIDE DEF q, d, c, p
  <1>9. /\ p.supply \in Nat /\ p.rt \in Nat /\ p.vs \in Nat /\ p.vt \in Nat
        /\ budget \in Nat /\ budget <= MaxU64 /\ MaxU64 \in Nat
    BY <1>3, CurveMathAssumption DEF Amount
  <1>10. /\ q.sol \in Nat /\ q.tokens \in 1 .. c.rt
         /\ q.protocolFee \in Nat /\ q.creatorFee \in Nat
         /\ q.totalCost = q.sol + q.protocolFee + q.creatorFee
         /\ q.totalCost <= budget
    <2>1. q.totalCost <= budget
      BY <1>2, <1>8 DEF BuyQuoted
    <2> DEFINE x == c.vs
               y == c.vt
               z == c.rt
               fees == p.fees
    <2>2. /\ x \in Nat /\ y \in Nat /\ z \in Nat /\ budget \in Nat
          /\ fees \in [protocol : Nat, creator : Nat]
          /\ BuyQuoted(x, y, z, budget, fees)
          /\ q = QuoteBuy(x, y, z, budget, fees)
      BY <1>2, <1>3, <1>4, <1>8, <1>9
    <2> HIDE DEF x, y, z, fees
    <2>3. /\ q.sol \in Nat \ {0} /\ q.tokens \in 1 .. z
          /\ q.protocolFee \in Nat /\ q.creatorFee \in Nat
      BY ONLY <2>2, QuoteBuySound
    <2>4. q.totalCost = q.sol + q.protocolFee + q.creatorFee
      BY ONLY <2>2, QuoteBuyCost
    <2> QED BY <2>1, <2>3, <2>4 DEF z
  <1>11. /\ q.tokens <= p.supply
         /\ Fits(c.rs + q.sol)
         /\ Fits(c.protocolFees + q.protocolFee)
         /\ Fits(c.creatorFees + q.creatorFee)
    BY <1>3, <1>4, <1>9, <1>10 DEF Fits
  <1>12. Sound(d, lamports[m] + q.totalCost, p.supply - q.tokens,
               circulating[m] + q.tokens, stray[m], pool[m], burned[m], p,
               gifts[m], now)
    BY <1>2, <1>3, <1>4, <1>7, <1>8, <1>9, <1>11, BuySound
  <1>13. Rest'
    BY <1>1, <1>2, LaunchpadAssumption DEF Rest
  <1>14. Only(m)
    BY <1>1, <1>2 DEF MintTypes, Only
  <1>15. /\ curve'[m] = d /\ lamports'[m] = lamports[m] + q.totalCost
         /\ vault'[m] = p.supply - q.tokens /\ circulating'[m] = q.tokens
         /\ stray'[m] = stray[m] /\ pool'[m] = pool[m] /\ burned'[m] = burned[m]
         /\ launch'[m] = p /\ gifts'[m] = gifts[m] /\ now' = now
    BY <1>1, <1>2 DEF MintTypes
  <1>16. circulating[m] + q.tokens = q.tokens
    BY <1>6, <1>10
  <1>17. SoundMint(m)'
    BY <1>12, <1>15, <1>16 DEF SoundMint
  <1> QED BY <1>1, <1>13, <1>14, <1>17, OneMint, IInvPrimed

-----------------------------------------------------------------------------
(***************************************************************************)
(* What a trade does for who made it.                                      *)
(***************************************************************************)

\* The tolerance is rounded down once.
LEMMA SlippageEnough ==
  ASSUME ClientAssumption, NEW quoted \in Nat, NEW got \in Int,
         got >= ApplySlippageDown(quoted, SlippageBps)
  PROVE  Enough(got, quoted)
  <1> DEFINE a == quoted * (BPS - SlippageBps)
             d == a \div BPS
  <1>1. BPS \in Nat \ {0} /\ BPS - SlippageBps \in Nat
    BY CurveMathAssumption DEF ClientAssumption
  <1>2. a \in Nat
    BY <1>1
  <1>3. got >= d
    BY DEF ApplySlippageDown
  <1> HIDE DEF a
  <1>4. d \in Nat /\ a < d * BPS + BPS
    BY <1>1, <1>2, DivDown
  <1> HIDE DEF d
  <1>5. d * BPS <= got * BPS
    BY <1>1, <1>3, <1>4
  <1>6. got * BPS > a - BPS
    BY <1>1, <1>2, <1>4, <1>5
  <1> QED BY <1>6 DEF Enough, a

LEMMA BuyPays ==
  ASSUME IInv, NEW m \in Mints, NEW budget \in Nat, NEW least,
         Buy(m, budget, least)
  PROVE  /\ circulating'[m] - circulating[m] \in Int
         /\ circulating'[m] - circulating[m] >= least
         /\ lamports'[m] - lamports[m] <= budget
  <1> DEFINE x    == curve[m].vs
             y    == curve[m].vt
             z    == curve[m].rt
             fees == config.params.fees
             q    == QuoteBuy(x, y, z, budget, fees)
  <1>1. Rest /\ MintTypes
    BY IInvParts
  <1>2. /\ BuyQuoted(x, y, z, budget, fees) /\ q.tokens >= least
        /\ lamports'[m] = lamports[m] + q.totalCost
        /\ circulating'[m] = circulating[m] + q.tokens
    BY <1>1 DEF Buy, BuyAccepted, BuyQuote, MintTypes
  <1>3. /\ x \in Nat /\ y \in Nat /\ z \in Nat
        /\ lamports[m] \in Nat /\ circulating[m] \in Nat
    BY <1>1, CurveFields, AmountIsNat DEF MintTypes
  <1>4. fees \in [protocol : Nat, creator : Nat]
    BY <1>1, ConfigFields, FeesAreNat
  <1>5. q.totalCost <= budget
    BY <1>2 DEF BuyQuoted
  <1> HIDE DEF x, y, z, fees
  <1>6. q.tokens \in 1 .. z
    BY ONLY <1>2, <1>3, <1>4, budget \in Nat, QuoteBuySound
  <1>7. q.totalCost \in Nat
    BY ONLY <1>2, <1>3, <1>4, budget \in Nat, QuoteBuySound
  <1> HIDE DEF q
  <1> QED BY <1>2, <1>3, <1>5, <1>6, <1>7

LEMMA CreateAndBuyPays ==
  ASSUME IInv, NEW m \in Mints, NEW budget \in Nat, NEW least,
         CreateAndBuy(m, budget, least)
  PROVE  /\ circulating'[m] - circulating[m] \in Int
         /\ circulating'[m] - circulating[m] >= least
         /\ lamports'[m] - lamports[m] <= budget
  <1> DEFINE p    == config.params
             x    == NewCurve(p).vs
             y    == NewCurve(p).vt
             z    == NewCurve(p).rt
             fees == p.fees
             q    == QuoteBuy(x, y, z, budget, fees)
  <1>1. Rest /\ MintTypes /\ SoundMint(m)
    BY IInvParts
  <1>2. /\ BuyQuoted(x, y, z, budget, fees) /\ q.tokens >= least
        /\ lamports'[m] = lamports[m] + q.totalCost
        /\ circulating'[m] = q.tokens
        /\ curve[m].status = "Absent"
    BY <1>1 DEF CreateAndBuy, CreateAndBuyAccepted, CreateAccepted, FirstQuote, MintTypes
  <1>3. circulating[m] = 0 /\ lamports[m] \in Nat
    BY <1>1, <1>2 DEF SoundMint, Sound, SoundAbsent, SoundTypes
  <1>4. p \in ValidParams
    BY <1>1, ConfigFields
  <1>5. x \in Nat /\ y \in Nat /\ z \in Nat
    BY <1>4, ValidTerms, AmountIsNat DEF NewCurve
  <1>6. fees \in [protocol : Nat, creator : Nat]
    BY <1>4, ValidTerms, FeesAreNat
  <1>7. q.totalCost <= budget
    BY <1>2 DEF BuyQuoted
  <1> HIDE DEF x, y, z, fees
  <1>8. q.tokens \in 1 .. z
    BY ONLY <1>2, <1>5, <1>6, budget \in Nat, QuoteBuySound
  <1>9. q.totalCost \in Nat
    BY ONLY <1>2, <1>5, <1>6, budget \in Nat, QuoteBuySound
  <1> HIDE DEF q
  <1> QED BY <1>2, <1>3, <1>5, <1>7, <1>8, <1>9

LEMMA SellPays ==
  ASSUME IInv, NEW m \in Mints, NEW tokens \in Int, NEW least,
         Sell(m, tokens, least)
  PROVE  /\ tokens \in 1 .. circulating[m]
         /\ circulating'[m] - circulating[m] = -tokens
         /\ lamports'[m] - lamports[m] \in Int
         /\ -(lamports'[m] - lamports[m]) >= least
  <1> DEFINE x    == curve[m].vs
             y    == curve[m].vt
             z    == curve[m].rs
             fees == config.params.fees
             q    == QuoteSell(x, y, tokens, fees)
  <1>1. Rest /\ MintTypes
    BY IInvParts
  <1>2. /\ SellQuoted(x, y, z, tokens, fees) /\ q.solOut >= least
        /\ tokens <= circulating[m]
        /\ lamports'[m] = lamports[m] - q.solOut
        /\ circulating'[m] = circulating[m] - tokens
    BY <1>1 DEF Sell, SellAccepted, SellQuote, MintTypes
  <1>3. /\ x \in Nat /\ y \in Nat /\ z \in Nat
        /\ lamports[m] \in Nat /\ circulating[m] \in Nat
    BY <1>1, CurveFields, AmountIsNat DEF MintTypes
  <1>4. fees \in [protocol : Nat, creator : Nat]
    BY <1>1, ConfigFields, FeesAreNat
  <1>5. tokens > 0
    BY <1>2 DEF SellQuoted
  <1> HIDE DEF x, y, z, fees
  <1>6. tokens \in Nat
    BY <1>5
  <1>7. q.solOut \in Nat \ {0}
    BY ONLY <1>2, <1>3, <1>4, <1>6, QuoteSellSound
  <1> HIDE DEF q
  <1> QED BY <1>2, <1>3, <1>5, <1>6, <1>7

\* The quotes themselves are numbers of tokens and of lamports.
LEMMA SdkBuyTokens ==
  ASSUME NEW c, c.vs \in Nat \ {0}, c.vt \in Nat, c.rt \in Nat,
         NEW budget \in Nat, NEW fees \in [protocol : Nat, creator : Nat]
  PROVE  SdkQuoteBuy(c, budget, fees).tokens \in Nat
  <1> DEFINE net    == (budget * BPS) \div (BPS + TotalBps(fees))
             bought == (c.vt * net) \div (c.vs + net)
  <1>1. BPS + TotalBps(fees) \in Nat \ {0} /\ budget * BPS \in Nat
    BY TotalBpsNat, CurveMathAssumption
  <1>2. net \in Nat
    BY <1>1, DivDown
  <1> HIDE DEF net
  <1>3. c.vt * net \in Nat /\ c.vs + net \in Nat \ {0}
    BY <1>2
  <1>4. bought \in Nat
    BY <1>3, DivDown
  <1>5. SdkQuoteBuy(c, budget, fees).tokens = IF bought >= c.rt THEN c.rt ELSE bought
    BY DEF SdkQuoteBuy, net
  <1> QED BY <1>4, <1>5

LEMMA SdkSellSol ==
  ASSUME NEW c, c.vs \in Nat, c.vt \in Nat, c.rs \in Nat,
         NEW tokens \in Int, NEW fees \in [protocol : Nat, creator : Nat],
         SdkSellQuoted(c, tokens, fees)
  PROVE  SdkQuoteSell(c, tokens, fees).solOut \in Nat
  <1> DEFINE sol == (c.vs * tokens) \div (c.vt + tokens)
             out == SdkQuoteSell(c, tokens, fees).solOut
  <1>1. tokens \in Nat \ {0} /\ out > 0
    BY DEF SdkSellQuoted
  <1>2. c.vs * tokens \in Nat /\ c.vt + tokens \in Nat \ {0}
    BY <1>1
  <1>3. sol \in Nat
    BY <1>2, DivDown
  <1>4. out = sol - FeeOn(sol, fees)
    BY DEF SdkQuoteSell
  <1> HIDE DEF sol, out
  <1>5. FeeOn(sol, fees) \in Nat
    BY <1>3, FeeOnUp
  <1> QED BY <1>1, <1>3, <1>4, <1>5 DEF out

-----------------------------------------------------------------------------
(***************************************************************************)
(* Deals.  From the reads on, a session's order says what its quote said,  *)
(* and the outcome is what executing that order did.                       *)
(***************************************************************************)

DealFields ==
  {"phase", "cmd", "mint", "amount", "known", "curve", "config", "quote",
   "order", "last", "until", "got", "moved", "unsure"}

Asked(r) == r.mint \in Mints /\ r.cmd \in Commands /\ r.amount \in Int

\* What was read belongs to a state of the program.
ReadWell(r) ==
  /\ "config" \in r.known =>
       /\ r.config.params \in ValidParams
       /\ r.config.createPaused \in BOOLEAN /\ r.config.tradingPaused \in BOOLEAN
  /\ "curve" \in r.known =>
       /\ r.curve.vs \in Nat \ {0} /\ r.curve.vt \in Nat
       /\ r.curve.rs \in Nat /\ r.curve.rt \in Nat

\* The order carries out the quote of the command.
Agreed(r) ==
  /\ r.order.mint = r.mint
  /\ Buys(r.cmd) =>
       /\ r.quote.tokens \in Nat
       /\ r.order.op = r.cmd.op /\ r.order.budget = r.cmd.budget
       /\ r.order.least = ApplySlippageDown(r.quote.tokens, SlippageBps)
  /\ r.cmd.op = "sell" =>
       /\ r.quote.tokens = -r.amount /\ -r.quote.sol \in Nat
       /\ r.order.op = "sell" /\ r.order.amount = r.amount
       /\ r.order.least = ApplySlippageDown(-r.quote.sol, SlippageBps)
  /\ r.cmd.op = "create" /\ ~Buys(r.cmd) => r.order.op = "launch"
  /\ r.cmd.op = "update-config" =>
       r.order.op = "update-config" /\ r.order.params \in ParamSets
  /\ r.cmd.op = "pause" => r.order.op = "pause" /\ r.order.flags \in PauseFlags

Deal(r) ==
  /\ DealFields \subseteq DOMAIN r
  /\ {"ok", "tokens", "sol", "known"} \subseteq DOMAIN r.got
  /\ r.phase \in {"reading", "signed", "sent", "confirming"} => Asked(r)
  /\ r.phase = "reading" => ReadWell(r)
  /\ r.phase \in {"signed", "sent", "confirming"} => Agreed(r)
  /\ r.got.ok => r.got.known /\ AsAgreed(r)

DealInv ==
  /\ WaitInv /\ IInv
  /\ balance \in [Sessions -> [Mints -> Int]]
  /\ \A s \in Sessions : Deal(session[s])
  /\ \A f \in flight : f.order = session[f.by].order

LEMMA CommandFields ==
  ASSUME ClientAssumption, NEW cmd \in Commands
  PROVE  /\ cmd.op \in {"create", "buy", "sell", "update-config", "pause"}
         /\ cmd.budget \in Amount /\ cmd.budget \in Nat
         /\ cmd.op = "update-config" =>
              \A p \in ParamSets : Amended(p, cmd.changes) \in ParamSets
         /\ cmd.op = "pause" =>
              \A f \in PauseFlags : Amended(f, cmd.changes) \in PauseFlags
  BY DEF ClientAssumption, Amount

LEMMA IdleDeal ==
  /\ Deal(Idle)
  /\ Deal([Idle EXCEPT !.phase = "thrown"])
  BY DEF Deal, DealFields, Idle, Pending

\* A quote on accounts that were read well is an agreement.
LEMMA QuoteAgreed ==
  ASSUME ClientAssumption, NEW r, Asked(r), ReadWell(r),
         r.known = Needs(r.cmd.op), Quoted(r),
         NEW x, x.mint = r.mint, x.cmd = r.cmd, x.amount = r.amount,
         x.quote = Quote(r), x.order = Order(r)
  PROVE  Agreed(x)
  <1> DEFINE cmd == r.cmd
             fees == r.config.params.fees
             q == Quote(r)
             o == Order(r)
  <1>1. /\ cmd.op \in {"create", "buy", "sell", "update-config", "pause"}
        /\ cmd.budget \in Nat /\ r.amount \in Int
        /\ cmd.op = "update-config" =>
             \A p \in ParamSets : Amended(p, cmd.changes) \in ParamSets
        /\ cmd.op = "pause" =>
             \A f \in PauseFlags : Amended(f, cmd.changes) \in PauseFlags
    BY CommandFields DEF Asked
  <1>2. /\ r.config.params \in ValidParams
        /\ r.config.createPaused \in BOOLEAN /\ r.config.tradingPaused \in BOOLEAN
    BY DEF ReadWell, Needs
  <1>3. fees \in [protocol : Nat, creator : Nat]
    BY <1>2, ValidTerms, FeesAreNat
  <1>4. CASE Buys(cmd)
    <2> DEFINE c == QuotedCurve(r)
    <2>1. c.vs \in Nat \ {0} /\ c.vt \in Nat /\ c.rt \in Nat
      <3>1. CASE cmd.op = "create"
        BY <1>2, <3>1, ValidTerms, AmountIsNat DEF QuotedCurve
      <3>2. CASE cmd.op # "create"
        BY <1>4, <3>2 DEF QuotedCurve, ReadWell, Needs, Buys
      <3> QED BY <3>1, <3>2
    <2>2. /\ q = [tokens |-> SdkQuoteBuy(c, cmd.budget, fees).tokens,
                  sol |-> SdkQuoteBuy(c, cmd.budget, fees).totalCost]
          /\ o = [op |-> cmd.op, mint |-> r.mint, budget |-> cmd.budget,
                  least |-> ApplySlippageDown(q.tokens, SlippageBps)]
      BY <1>4 DEF Quote, Order, Buys
    <2> HIDE DEF c
    <2>3. SdkQuoteBuy(c, cmd.budget, fees).tokens \in Nat
      BY <1>1, <1>3, <2>1, SdkBuyTokens
    <2> HIDE DEF q, o
    <2> QED BY <1>4, <2>2, <2>3 DEF Agreed, Buys, q, o
  <1>5. CASE cmd.op = "sell"
    <2>1. /\ q = [tokens |-> -SdkQuoteSell(r.curve, r.amount, fees).tokens,
                  sol |-> -SdkQuoteSell(r.curve, r.amount, fees).solOut]
          /\ o = [op |-> "sell", mint |-> r.mint, amount |-> r.amount,
                  least |-> ApplySlippageDown(-q.sol, SlippageBps)]
      BY <1>5 DEF Quote, Order, Buys, QuotedCurve
    <2>2. SdkQuoteSell(r.curve, r.amount, fees).tokens = r.amount
      BY DEF SdkQuoteSell
    <2>3. SdkSellQuoted(r.curve, r.amount, fees)
      BY <1>5 DEF Quoted
    <2>4. r.curve.vs \in Nat /\ r.curve.vt \in Nat /\ r.curve.rs \in Nat
      BY <1>5 DEF ReadWell, Needs
    <2>5. SdkQuoteSell(r.curve, r.amount, fees).solOut \in Nat
      BY <1>1, <1>3, <2>3, <2>4, SdkSellSol
    <2>6. -q.sol \in Nat /\ q.tokens = -r.amount
      BY <2>1, <2>2, <2>5
    <2> HIDE DEF q, o
    <2> QED BY <1>5, <2>1, <2>6 DEF Agreed, Buys, q, o
  <1>6. CASE cmd.op = "create" /\ ~Buys(cmd)
    <2>1. o = [op |-> "launch", mint |-> r.mint]
      BY <1>6 DEF Order
    <2> QED BY <1>6, <2>1 DEF Agreed
  <1>7. CASE cmd.op = "update-config"
    <2>1. o = [op |-> "update-config", mint |-> r.mint,
               params |-> Amended(r.config.params, cmd.changes)]
      BY <1>7 DEF Order, Buys
    <2>2. Amended(r.config.params, cmd.changes) \in ParamSets
      BY <1>1, <1>2, <1>7 DEF ValidParams
    <2> QED BY <1>7, <2>1, <2>2 DEF Agreed, Buys
  <1>8. CASE cmd.op = "pause"
    <2>1. o = [op |-> "pause", mint |-> r.mint, flags |-> FlagsAfter(r)]
      BY <1>8 DEF Order, Buys
    <2>2. FlagsAfter(r) \in PauseFlags
      BY <1>1, <1>2, <1>8 DEF FlagsAfter, Flags, PauseFlags
    <2> QED BY <1>8, <2>1, <2>2 DEF Agreed, Buys
  <1> QED BY <1>1, <1>4, <1>5, <1>6, <1>7, <1>8 DEF Buys

\* Executing an agreed order keeps the books and brings what was agreed.
LEMMA Executed ==
  ASSUME ClientAssumption, IInv, NEW r, Asked(r), Agreed(r), Execute(r.order),
         NEW x, x.cmd = r.cmd, x.quote = r.quote,
         x.got.tokens = circulating'[r.mint] - circulating[r.mint],
         x.got.sol = lamports'[r.mint] - lamports[r.mint]
  PROVE  /\ IInv' /\ AsAgreed(x)
  <1> DEFINE cmd == r.cmd
             o == r.order
             m == r.mint
  <1>1. /\ cmd.op \in {"create", "buy", "sell", "update-config", "pause"}
        /\ cmd.budget \in Amount /\ cmd.budget \in Nat
        /\ m \in Mints /\ r.amount \in Int /\ o.mint = m
    BY CommandFields DEF Asked, Agreed
  <1>2. config.admin \in Keys
    BY DEF IInv, TypeOK, Config
  <1>3. CASE Buys(cmd)
    <2>1. /\ r.quote.tokens \in Nat
          /\ o.op = cmd.op /\ o.budget = cmd.budget
          /\ o.least = ApplySlippageDown(r.quote.tokens, SlippageBps)
      BY <1>3 DEF Agreed
    <2>2. \/ cmd.op = "buy" /\ Buy(m, cmd.budget, o.least)
          \/ cmd.op = "create" /\ CreateAndBuy(m, cmd.budget, o.least)
      BY <1>1, <1>3, <2>1 DEF Buys, Execute
    <2>3. /\ circulating'[m] - circulating[m] \in Int
          /\ circulating'[m] - circulating[m] >= o.least
          /\ lamports'[m] - lamports[m] <= cmd.budget
      BY <1>1, <2>2, BuyPays, CreateAndBuyPays
    <2>4. IInv'
      BY <1>1, <2>2, BuyStep, CreateAndBuyStep
    <2>5. Enough(x.got.tokens, r.quote.tokens)
      BY <2>1, <2>3, SlippageEnough
    <2>6. cmd.op # "sell"
      BY <1>3 DEF Buys
    <2> QED BY <2>3, <2>4, <2>5, <2>6 DEF AsAgreed
  <1>4. CASE cmd.op = "sell"
    <2>1. /\ r.quote.tokens = -r.amount /\ -r.quote.sol \in Nat
          /\ o.op = "sell" /\ o.amount = r.amount
          /\ o.least = ApplySlippageDown(-r.quote.sol, SlippageBps)
      BY <1>4 DEF Agreed
    <2>2. Sell(m, r.amount, o.least)
      BY <1>1, <2>1 DEF Execute
    <2>3. /\ r.amount \in 1 .. circulating[m]
          /\ circulating'[m] - circulating[m] = -r.amount
          /\ lamports'[m] - lamports[m] \in Int
          /\ -(lamports'[m] - lamports[m]) >= o.least
      BY <1>1, <2>2, SellPays
    <2>4. IInv'
      BY <1>1, <2>2, <2>3, SellStep
    <2>5. Enough(-x.got.sol, -r.quote.sol)
      BY <2>1, <2>3, SlippageEnough
    <2> QED BY <1>4, <2>1, <2>3, <2>4, <2>5 DEF AsAgreed, Buys
  <1>5. CASE cmd.op = "create" /\ ~Buys(cmd)
    <2>1. CreateToken(m)
      BY <1>1, <1>5 DEF Agreed, Execute
    <2> QED BY <1>1, <1>5, <2>1, CreateStep DEF AsAgreed
  <1>6. CASE cmd.op = "update-config"
    <2>1. o.params \in ParamSets /\ UpdateConfig(config.admin, o.params)
      BY <1>6 DEF Agreed, Execute
    <2>2. Admin
      BY <1>2, <2>1 DEF Admin
    <2> QED BY <1>6, <2>2, AdminStep DEF AsAgreed, Buys
  <1>7. CASE cmd.op = "pause"
    <2>1. o.flags \in PauseFlags /\ o.op = "pause"
      BY <1>7 DEF Agreed
    <2>2. SetPaused(config.admin, o.flags.createPaused, o.flags.tradingPaused)
      BY <2>1 DEF Execute
    <2>3. o.flags.createPaused \in BOOLEAN /\ o.flags.tradingPaused \in BOOLEAN
      BY <2>1 DEF PauseFlags
    <2>4. Admin
      BY <1>2, <2>2, <2>3 DEF Admin
    <2> QED BY <1>7, <2>4, AdminStep DEF AsAgreed, Buys
  <1> QED BY <1>1, <1>3, <1>4, <1>5, <1>6, <1>7 DEF Buys

LEMMA DealsAtFirst == ClientInit => DealInv
  <1> SUFFICES ASSUME ClientInit
               PROVE  DealInv
    OBVIOUS
  <1>1. \A s \in Sessions : Deal(session[s])
    BY IdleDeal DEF ClientInit
  <1> QED BY <1>1, WaitAtFirst, BooksAtFirst DEF ClientInit, DealInv

\* A step of session s that leaves the chain and the wallets alone.
LEMMA DealStep ==
  ASSUME DealInv, WaitInv', NEW s \in Sessions, NEW r,
         session' = [session EXCEPT ![s] = r],
         UNCHANGED <<chainVars, balance>>,
         Deal(r),
         \A f \in flight' :
           \/ f.by = s /\ f.order = r.order
           \/ f.by # s /\ f \in flight
  PROVE  DealInv'
  <1>1. session'[s] = r /\ \A t \in Sessions : t # s => session'[t] = session[t]
    BY DEF DealInv, WaitInv, SessionsShaped
  <1>2. IInv'
    <2>1. UNCHANGED vars
      BY DEF chainVars, vars
    <2> QED BY <2>1, StepIInv DEF DealInv
  <1>3. \A t \in Sessions : Deal(session'[t])
    BY <1>1 DEF DealInv
  <1>4. \A f \in flight' : f.order = session'[f.by].order
    <2> SUFFICES ASSUME NEW f \in flight'
                 PROVE  f.order = session'[f.by].order
      OBVIOUS
    <2>1. CASE f.by = s /\ f.order = r.order
      BY <1>1, <2>1
    <2>2. CASE f.by # s /\ f \in flight
      <3>1. f.by \in Sessions /\ f.order = session[f.by].order
        BY <2>2 DEF DealInv, WaitInv, Awaited
      <3> QED BY <1>1, <2>2, <3>1
    <2> QED BY <2>1, <2>2
  <1> QED BY <1>2, <1>3, <1>4 DEF DealInv

\* Fields a deal is not about, and the end of waiting.
LEMMA SamePhaseDeal ==
  ASSUME NEW r, Deal(r), NEW x, DOMAIN x = DOMAIN r,
         x.phase = r.phase \/ x.phase \notin {"reading", "signed", "sent", "confirming"}
           \/ {r.phase, x.phase} \subseteq {"signed", "sent", "confirming"},
         x.cmd = r.cmd, x.mint = r.mint, x.amount = r.amount, x.known = r.known,
         x.curve = r.curve, x.config = r.config, x.quote = r.quote,
         x.order = r.order, x.got = r.got
  PROVE  Deal(x)
  <1>1. /\ Asked(x) <=> Asked(r)
        /\ ReadWell(x) <=> ReadWell(r)
        /\ Agreed(x) <=> Agreed(r)
        /\ AsAgreed(x) <=> AsAgreed(r)
    BY DEF Asked, ReadWell, Agreed, AsAgreed
  <1> QED BY <1>1 DEF Deal

LEMMA StepDeals ==
  ASSUME ClientAssumption, DealInv, WaitInv', NEW s \in Sessions, Step(s)
  PROVE  DealInv'
  <1> DEFINE r == session[s]
  <1>r. Deal(r) /\ DealFields \subseteq DOMAIN r
    BY DEF DealInv, Deal
  <1>f. \A f \in flight : f.by = s => f.order = r.order
    BY DEF DealInv
  <1>n. r.phase \notin {"sent", "confirming"} => \A f \in flight : f.by # s
    BY NothingSent DEF DealInv
  <1>d. DOMAIN session = Sessions
    BY DEF DealInv, WaitInv, SessionsShaped
  <1>1. ASSUME NEW m \in Mints, NEW cmd \in Commands, Begin(s, m, cmd)
        PROVE  DealInv'
    <2> DEFINE x == [Idle EXCEPT !.phase = "reading", !.cmd = cmd, !.mint = m,
                       !.amount = IF cmd.op = "sell" THEN balance[s][m] ELSE 0]
    <2>1. /\ session' = [session EXCEPT ![s] = x]
          /\ UNCHANGED <<chainVars, balance, flight>>
          /\ r.phase = "idle"
      BY <1>1 DEF Begin
    <2>2. Deal(x)
      <3>1. balance[s][m] \in Int
        BY DEF DealInv
      <3>2. /\ DealFields \subseteq DOMAIN x /\ x.phase = "reading"
            /\ x.cmd = cmd /\ x.mint = m /\ x.amount \in Int /\ x.known = {}
            /\ x.got = Pending
        BY <3>1 DEF DealFields, Idle
      <3> HIDE DEF x
      <3> QED BY <3>2 DEF Deal, Asked, ReadWell, Pending
    <2> HIDE DEF x
    <2> QED BY <1>n, <2>1, <2>2, DealStep
  <1>2. ASSUME NEW skew \in Skews, ReadCurve(s, skew)
        PROVE  DealInv'
    <2> DEFINE c == curve[r.mint]
               y == [r EXCEPT !.known = @ \cup {"curve"}, !.curve = c,
                              !.unsure = @ \/ (c.status = "Complete" /\ skew > 0)]
    <2>1. /\ r.phase = "reading"
          /\ UNCHANGED <<chainVars, balance, flight>>
      BY <1>2 DEF ReadCurve, Reads
    <2>2. PICK x : /\ session' = [session EXCEPT ![s] = x]
                   /\ \/ x = y /\ Tradable(r.cmd.op, c, now + skew)
                      \/ x = [Idle EXCEPT !.phase = "thrown"]
      BY <1>2 DEF ReadCurve
    <2>3. ASSUME x = y, Tradable(r.cmd.op, c, now + skew)
          PROVE  Deal(x)
      <3>1. Asked(r) /\ ReadWell(r) /\ ~r.got.ok
        BY <1>r, <2>1 DEF Deal, DealInv, WaitInv, Unsent
      <3>2. Live(r.mint)
        BY <2>3 DEF Tradable, CanSell, Live
      <3>3. SoundMint(r.mint)
        BY <3>1 DEF Asked, DealInv, IInv
      <3>4. c.vs \in Nat \ {0} /\ c.vt \in Nat \ {0} /\ c.rs \in Nat /\ c.rt \in Nat
        BY <3>2, <3>3, LiveFacts DEF SoundMint, Live
      <3> HIDE DEF c
      <3>5. /\ DealFields \subseteq DOMAIN x /\ x.phase = "reading" /\ x.got = r.got
            /\ x.cmd = r.cmd /\ x.mint = r.mint /\ x.amount = r.amount
            /\ x.known = r.known \cup {"curve"} /\ x.curve = c /\ x.config = r.config
        BY <1>r, <2>1, <2>3 DEF DealFields
      <3> QED BY <1>r, <3>1, <3>4, <3>5 DEF Deal, Asked, ReadWell
    <2>4. Deal(x)
      BY <2>2, <2>3, IdleDeal
    <2> QED BY <1>n, <2>1, <2>2, <2>4, DealStep
  <1>3. CASE ReadConfig(s)
    <2> DEFINE read == [params |-> config.params,
                        createPaused |-> config.createPaused,
                        tradingPaused |-> config.tradingPaused]
               x == [r EXCEPT !.known = @ \cup {"config"}, !.config = read,
                              !.unsure = @ \/ config.tradingPaused]
    <2>1. /\ r.phase = "reading"
          /\ UNCHANGED <<chainVars, balance, flight>>
      BY <1>3 DEF ReadConfig, Reads
    <2>2. session' = [session EXCEPT ![s] = x]
      BY <1>3, <1>d DEF ReadConfig
    <2>3. Deal(x)
      <3>1. Asked(r) /\ ReadWell(r) /\ ~r.got.ok
        BY <1>r, <2>1 DEF Deal, DealInv, WaitInv, Unsent
      <3>2. /\ read.params \in ValidParams
            /\ read.createPaused \in BOOLEAN /\ read.tradingPaused \in BOOLEAN
        BY DEF DealInv, IInv, TypeOK, Config
      <3> HIDE DEF read
      <3>3. /\ DealFields \subseteq DOMAIN x /\ x.phase = "reading" /\ x.got = r.got
            /\ x.cmd = r.cmd /\ x.mint = r.mint /\ x.amount = r.amount
            /\ x.known = r.known \cup {"config"} /\ x.curve = r.curve
            /\ x.config = read
        BY <1>r, <2>1 DEF DealFields
      <3> HIDE DEF x
      <3> QED BY <1>r, <3>1, <3>2, <3>3 DEF Deal, Asked, ReadWell
    <2> HIDE DEF x
    <2> QED BY <1>n, <2>1, <2>2, <2>3, DealStep
  <1>4. CASE Build(s)
    <2> DEFINE y == [r EXCEPT !.phase = "signed", !.quote = Quote(r),
                              !.order = Order(r), !.last = height + Window,
                              !.curve = NoCurve, !.config = NoConfig]
    <2>1. /\ r.phase = "reading" /\ r.known = Needs(r.cmd.op)
          /\ UNCHANGED <<chainVars, balance, flight>>
      BY <1>4 DEF Build
    <2>2. PICK x : /\ session' = [session EXCEPT ![s] = x]
                   /\ \/ x = y /\ Quoted(r)
                      \/ x = [Idle EXCEPT !.phase = "thrown"]
      BY <1>4 DEF Build
    <2>3. ASSUME x = y, Quoted(r)
          PROVE  Deal(x)
      <3>1. Asked(r) /\ ReadWell(r) /\ ~r.got.ok
        BY <1>r, <2>1 DEF Deal, DealInv, WaitInv, Unsent
      <3>2. /\ DealFields \subseteq DOMAIN x /\ x.phase = "signed" /\ x.got = r.got
            /\ x.cmd = r.cmd /\ x.mint = r.mint /\ x.amount = r.amount
            /\ x.quote = Quote(r) /\ x.order = Order(r)
        BY <1>r, <2>3 DEF DealFields
      <3>3. Agreed(x)
        BY <2>1, <2>3, <3>1, <3>2, QuoteAgreed
      <3> QED BY <1>r, <3>1, <3>2, <3>3 DEF Deal, Asked
    <2>4. Deal(x)
      BY <2>2, <2>3, IdleDeal
    <2> QED BY <1>n, <2>1, <2>2, <2>4, DealStep
  <1>5. CASE Send(s)
    <2>1. /\ r.phase = "signed" /\ UNCHANGED <<chainVars, balance>>
      BY <1>5 DEF Send
    <2>2. PICK p \in {"sent", "refused"} :
            /\ session' = [session EXCEPT ![s] = [r EXCEPT !.phase = p]]
            /\ flight' \subseteq
                 flight \cup {[by |-> s, order |-> r.order, last |-> r.last]}
      BY <1>5, <1>d DEF Send
    <2> DEFINE x == [r EXCEPT !.phase = p]
    <2>3. Deal(x) /\ x.order = r.order
      <3>1. /\ DOMAIN x = DOMAIN r /\ x.phase = p
            /\ x.cmd = r.cmd /\ x.mint = r.mint /\ x.amount = r.amount
            /\ x.known = r.known /\ x.curve = r.curve /\ x.config = r.config
            /\ x.quote = r.quote /\ x.order = r.order /\ x.got = r.got
        BY <1>r DEF DealFields
      <3> HIDE DEF x
      <3> QED BY <1>r, <2>1, <3>1, SamePhaseDeal
    <2> HIDE DEF x
    <2>4. \A f \in flight' : \/ f.by = s /\ f.order = x.order
                             \/ f.by # s /\ f \in flight
      BY <1>n, <2>1, <2>2, <2>3
    <2> QED BY <2>1, <2>2, <2>3, <2>4, DealStep DEF x
  <1>6. CASE SendTooLate(s) \/ End(s)
    <2>1. /\ r.phase \notin {"sent", "confirming"}
          /\ UNCHANGED <<chainVars, balance, flight>>
      BY <1>6 DEF SendTooLate, End
    <2>2. PICK x \in {Idle, [Idle EXCEPT !.phase = "thrown"]} :
            session' = [session EXCEPT ![s] = x]
      BY <1>6 DEF SendTooLate, End
    <2>3. Deal(x)
      BY IdleDeal
    <2> QED BY <1>n, <2>1, <2>2, <2>3, DealStep
  <1>7. CASE Watch(s)
    <2> DEFINE x == [r EXCEPT !.phase = "confirming", !.until = Until]
    <2>1. /\ r.phase = "sent" /\ UNCHANGED <<chainVars, balance, flight>>
          /\ session' = [session EXCEPT ![s] = x]
      BY <1>7, <1>d DEF Watch
    <2>2. Deal(x) /\ x.order = r.order
      <3>1. /\ DOMAIN x = DOMAIN r /\ x.phase = "confirming"
            /\ x.cmd = r.cmd /\ x.mint = r.mint /\ x.amount = r.amount
            /\ x.known = r.known /\ x.curve = r.curve /\ x.config = r.config
            /\ x.quote = r.quote /\ x.order = r.order /\ x.got = r.got
        BY <1>r DEF DealFields
      <3> HIDE DEF x
      <3> QED BY <1>r, <2>1, <3>1, SamePhaseDeal
    <2> HIDE DEF x
    <2>3. \A f \in flight' : \/ f.by = s /\ f.order = x.order
                             \/ f.by # s /\ f \in flight
      BY <1>f, <2>1, <2>2
    <2> QED BY <2>1, <2>2, <2>3, DealStep
  <1>8. CASE Confirm(s) \/ Expire(s)
    <2>1. UNCHANGED <<chainVars, balance, flight>>
      BY <1>8 DEF Confirm, Expire
    <2>2. PICK p \in {"done", "refused", "expired"} :
            session' = [session EXCEPT ![s] = [r EXCEPT !.phase = p]]
      BY <1>8, <1>d DEF Confirm, Expire
    <2> DEFINE x == [r EXCEPT !.phase = p]
    <2>3. Deal(x) /\ x.order = r.order
      <3>1. /\ DOMAIN x = DOMAIN r /\ x.phase = p
            /\ x.cmd = r.cmd /\ x.mint = r.mint /\ x.amount = r.amount
            /\ x.known = r.known /\ x.curve = r.curve /\ x.config = r.config
            /\ x.quote = r.quote /\ x.order = r.order /\ x.got = r.got
        BY <1>r DEF DealFields
      <3> HIDE DEF x
      <3> QED BY <1>r, <2>2, <3>1, SamePhaseDeal
    <2> HIDE DEF x
    <2>4. \A f \in flight' : \/ f.by = s /\ f.order = x.order
                             \/ f.by # s /\ f \in flight
      BY <1>f, <2>1, <2>3
    <2> QED BY <2>1, <2>2, <2>3, <2>4, DealStep DEF x
  <1> QED BY <1>1, <1>2, <1>3, <1>4, <1>5, <1>6, <1>7, <1>8 DEF Step

\* A transaction is executed or dropped: only its sender learns the outcome.
LEMMA OutcomeDeals ==
  ASSUME DealInv, WaitInv', IInv', NEW f \in flight, flight' = flight \ {f},
         balance' \in [Sessions -> [Mints -> Int]],
         \A t \in Sessions : t # f.by =>
           Deal(session'[t]) /\ session'[t].order = session[t].order,
         Deal(session'[f.by])
  PROVE  DealInv'
  <1>1. \A g \in flight' : g \in flight /\ g.by # f.by /\ g.by \in Sessions
    BY DEF DealInv, WaitInv, Awaited
  <1>2. \A g \in flight' : g.order = session'[g.by].order
    BY <1>1 DEF DealInv
  <1> QED BY <1>2 DEF DealInv

LEMMA StirredDeal ==
  ASSUME NEW t \in Sessions, Deal(session[t])
  PROVE  Deal(Stirred(t)) /\ Stirred(t).order = session[t].order
  <1> DEFINE r == session[t]
  <1>1. PICK moved : Stirred(t) = [r EXCEPT !.moved = moved]
    BY DEF Stirred
  <1> DEFINE x == [r EXCEPT !.moved = moved]
  <1>2. /\ DOMAIN x = DOMAIN r /\ x.phase = r.phase
        /\ x.cmd = r.cmd /\ x.mint = r.mint /\ x.amount = r.amount
        /\ x.known = r.known /\ x.curve = r.curve /\ x.config = r.config
        /\ x.quote = r.quote /\ x.order = r.order /\ x.got = r.got
    BY DEF Deal, DealFields
  <1>3. Stirred(t) = x
    BY <1>1
  <1> HIDE DEF x, r
  <1>4. Deal(r)
    BY DEF r
  <1>5. Deal(x)
    BY <1>2, <1>4, SamePhaseDeal
  <1> QED BY <1>2, <1>3, <1>5 DEF r

\* A session that waits and learns its outcome.
LEMMA GotDeal ==
  ASSUME NEW r, Deal(r), r.phase \in {"sent", "confirming"}, NEW got,
         {"ok", "tokens", "sol", "known"} \subseteq DOMAIN got,
         NEW x, x = [r EXCEPT !.got = got],
         got.ok => got.known /\ AsAgreed(x)
  PROVE  Deal(x)
  <1>1. /\ DOMAIN x = DOMAIN r /\ x.phase = r.phase
        /\ x.cmd = r.cmd /\ x.mint = r.mint /\ x.amount = r.amount
        /\ x.known = r.known /\ x.curve = r.curve /\ x.config = r.config
        /\ x.quote = r.quote /\ x.order = r.order /\ x.got = got
    BY DEF Deal, DealFields
  <1>2. Asked(x) /\ Agreed(x)
    BY <1>1 DEF Deal, Asked, Agreed
  <1> QED BY <1>1, <1>2 DEF Deal

LEMMA LandDeals ==
  ASSUME ClientAssumption, DealInv, WaitInv', NEW f \in flight, Land(f)
  PROVE  DealInv'
  <1> DEFINE s == f.by
             r == session[s]
             m == r.mint
             got == [ok |-> TRUE, tokens |-> circulating'[m] - circulating[m],
                     sol |-> lamports'[m] - lamports[m], known |-> TRUE]
             x == [r EXCEPT !.got = got]
  <1>1. /\ s \in Sessions /\ r.phase \in {"sent", "confirming"}
        /\ Deal(r) /\ f.order = r.order
    BY DEF DealInv, WaitInv, Awaited
  <1>2. Asked(r) /\ Agreed(r) /\ f.order.mint = m
    BY <1>1 DEF Deal, Agreed
  <1>3. /\ Execute(r.order) /\ flight' = flight \ {f}
        /\ balance' = [balance EXCEPT ![s][m] = @ + (circulating'[m] - circulating[m])]
        /\ session' = [t \in Sessions |-> IF t # s THEN Stirred(t) ELSE x]
    BY <1>1, <1>2 DEF Land
  <1>4. session'[s] = x /\ \A t \in Sessions : t # s => session'[t] = Stirred(t)
    BY <1>1, <1>3
  <1>5. got.ok /\ got.known /\ {"ok", "tokens", "sol", "known"} \subseteq DOMAIN got
        /\ got.tokens = circulating'[m] - circulating[m]
        /\ got.sol = lamports'[m] - lamports[m]
    OBVIOUS
  <1> HIDE DEF got
  <1>6. x.cmd = r.cmd /\ x.quote = r.quote /\ x.got = got
    BY <1>1 DEF Deal, DealFields
  <1>7. IInv
    BY DEF DealInv
  <1> HIDE DEF x
  <1>8. IInv' /\ AsAgreed(x)
    BY <1>2, <1>3, <1>5, <1>6, <1>7, Executed
  <1>9. Deal(x)
    BY <1>1, <1>5, <1>8, GotDeal DEF x
  <1>10. balance' \in [Sessions -> [Mints -> Int]]
    <2>1. m \in Mints /\ circulating[m] \in Int /\ circulating'[m] \in Int
      BY <1>2, <1>7, <1>8 DEF Asked, IInv, TypeOK
    <2>2. balance \in [Sessions -> [Mints -> Int]]
      BY DEF DealInv
    <2> HIDE DEF r, m
    <2> QED BY <1>1, <1>3, <2>1, <2>2
  <1>11. \A t \in Sessions : t # s =>
           Deal(session'[t]) /\ session'[t].order = session[t].order
    BY <1>4, StirredDeal DEF DealInv
  <1> QED BY <1>3, <1>4, <1>8, <1>9, <1>10, <1>11, OutcomeDeals

LEMMA RefusedDeals ==
  ASSUME DealInv, WaitInv', NEW f \in flight, LandRefused(f)
  PROVE  DealInv'
  <1> DEFINE s == f.by
             r == session[s]
             got == [r.got EXCEPT !.known = TRUE]
             x == [r EXCEPT !.got = got]
  <1>1. /\ s \in Sessions /\ r.phase \in {"sent", "confirming"}
        /\ Deal(r) /\ ~r.got.known
    BY DEF DealInv, WaitInv, Awaited
  <1>2. /\ flight' = flight \ {f} /\ UNCHANGED <<chainVars, balance>>
        /\ session' = [session EXCEPT ![s] = x]
    BY DEF LandRefused
  <1>3. session'[s] = x /\ \A t \in Sessions : t # s => session'[t] = session[t]
    BY <1>1, <1>2 DEF DealInv, WaitInv, SessionsShaped
  <1>4. ~got.ok /\ {"ok", "tokens", "sol", "known"} \subseteq DOMAIN got
    BY <1>1 DEF Deal
  <1> HIDE DEF got
  <1>5. Deal(x)
    BY <1>1, <1>4, GotDeal
  <1>6. IInv'
    <2>1. UNCHANGED vars
      BY <1>2 DEF chainVars, vars
    <2> QED BY <2>1, StepIInv DEF DealInv
  <1> HIDE DEF x
  <1>7. \A t \in Sessions : t # s =>
          Deal(session'[t]) /\ session'[t].order = session[t].order
    BY <1>3 DEF DealInv
  <1>8. balance' \in [Sessions -> [Mints -> Int]]
    BY <1>2 DEF DealInv
  <1> QED BY <1>2, <1>3, <1>5, <1>6, <1>7, <1>8, OutcomeDeals

\* Everybody else, whose sales too are of tokens they have.
LEMMA WorldDeals ==
  ASSUME DealInv, WaitInv', World
  PROVE  DealInv'
  <1>1. IInv /\ config.admin \in Keys
    BY DEF DealInv, IInv, TypeOK, Config
  <1>2. IInv'
    <2>1. ASSUME NEW m \in Mints, NEW b \in BuyBudgets, Buy(m, b, 0)
          PROVE  IInv'
      BY <1>1, <2>1, BuyStep, BudgetIsNat
    <2>2. ASSUME NEW m \in Mints, NEW t \in 1 .. Others(m), Sell(m, t, 0)
          PROVE  IInv'
      <3>1. t \in Int
        OBVIOUS
      <3>2. t \in 1 .. circulating[m]
        BY <1>1, <2>2, <3>1, SellPays
      <3> QED BY <1>1, <2>2, <3>2, SellStep
    <2>3. ASSUME NEW p \in ParamSets, UpdateConfig(config.admin, p)
          PROVE  IInv'
      <3>1. Admin
        BY <1>1, <2>3 DEF Admin
      <3> QED BY <1>1, <3>1, AdminStep
    <2>4. ASSUME NEW cp \in BOOLEAN, NEW tp \in BOOLEAN,
                 SetPaused(config.admin, cp, tp)
          PROVE  IInv'
      <3>1. Admin
        BY <1>1, <2>4 DEF Admin
      <3> QED BY <1>1, <3>1, AdminStep
    <2> QED BY <1>1, <2>1, <2>2, <2>3, <2>4, CreateStep, MigrateStep, OutsideStep
            DEF World
  <1>3. /\ session' = [t \in Sessions |-> Stirred(t)]
        /\ UNCHANGED <<balance, flight>>
    BY DEF World
  <1>4. \A t \in Sessions : /\ Deal(session'[t])
                            /\ session'[t].order = session[t].order
    BY <1>3, StirredDeal DEF DealInv
  <1>5. \A f \in flight' : f.order = session'[f.by].order
    BY <1>3, <1>4 DEF DealInv, WaitInv, Awaited
  <1> QED BY <1>2, <1>3, <1>4, <1>5 DEF DealInv

LEMMA DealsKept ==
  ASSUME ClientAssumption, DealInv, [ClientNext]_<<chainVars, clientVars>>
  PROVE  DealInv'
  <1>1. WaitInv'
    BY WaitStep DEF DealInv
  <1>2. ASSUME NewBlock \/ UNCHANGED <<chainVars, clientVars>>
        PROVE  DealInv'
    <2>1. /\ UNCHANGED <<chainVars, session, balance>>
          /\ flight' \subseteq flight
      BY <1>2 DEF NewBlock, clientVars
    <2>2. UNCHANGED vars
      BY <2>1 DEF chainVars, vars
    <2>3. IInv'
      BY <2>2, StepIInv DEF DealInv
    <2> QED BY <1>1, <2>1, <2>3 DEF DealInv
  <1> QED BY <1>1, <1>2, StepDeals, LandDeals, RefusedDeals, WorldDeals
          DEF ClientNext

\* However far the accounts move between the reads, the quote and the
\* execution, no trade costs more than was offered or brings less than was
\* agreed, whatever the reserves, the configurations and the tolerance.
THEOREM AgreementsHold == ClientSpec => []NoLessThanAgreed
  <1>1. DealInv => NoLessThanAgreed
    BY DEF DealInv, Deal, NoLessThanAgreed
  <1>2. DealInv /\ [ClientNext]_<<chainVars, clientVars>> => DealInv'
    BY DealsKept, ClientAssumption
  <1> QED BY <1>1, <1>2, DealsAtFirst, PTL DEF ClientSpec

\* The program is as safe in the hands of these clients: also with launches
\* that buy in the same transaction, the accounts cover what they owe, no
\* token is lost and every holder can be paid back.
THEOREM SafeAmongClients ==
  ClientSpec => [](Solvency /\ SupplyConserved /\ HoldersCanBePaid)
  <1>1. DealInv => Solvency /\ SupplyConserved /\ HoldersCanBePaid
    BY IInvSolvency, IInvSupply, IInvPayable DEF DealInv
  <1>2. DealInv /\ [ClientNext]_<<chainVars, clientVars>> => DealInv'
    BY DealsKept, ClientAssumption
  <1> QED BY <1>1, <1>2, DealsAtFirst, PTL DEF ClientSpec

-----------------------------------------------------------------------------
(***************************************************************************)
(* What an administrator's command leaves alone.  Until something moves,   *)
(* the configuration is the one that was read.                             *)
(***************************************************************************)

\* The part of the configuration that is read.
Seen == [params |-> config.params, createPaused |-> config.createPaused,
         tradingPaused |-> config.tradingPaused]

Fresh(r) ==
  r.phase = "reading" /\ ~r.moved /\ "config" \in r.known => r.config = Seen

Current(r) ==
  r.phase \in {"signed", "sent", "confirming"} /\ ~r.got.known /\ ~r.moved =>
    /\ r.cmd.op = "update-config" =>
         r.order.params = Amended(config.params, r.cmd.changes)
    /\ r.cmd.op = "pause" => r.order.flags = Amended(Flags(config), r.cmd.changes)

ReadInv == DealInv /\ \A s \in Sessions : Fresh(session[s]) /\ Current(session[s])

LEMMA ReadsAtFirst == ClientInit => ReadInv
  <1> SUFFICES ASSUME ClientInit
               PROVE  ReadInv
    OBVIOUS
  <1>1. \A s \in Sessions : session[s].phase = "idle"
    BY DEF ClientInit, Idle
  <1> QED BY <1>1, DealsAtFirst DEF ReadInv, Fresh, Current

\* A step of session s that leaves the configuration alone.
LEMMA ReadStep ==
  ASSUME ReadInv, DealInv', NEW s \in Sessions, NEW r,
         session' = [session EXCEPT ![s] = r], config' = config,
         Fresh(r), Current(r)
  PROVE  ReadInv'
  <1>1. session'[s] = r /\ \A t \in Sessions : t # s => session'[t] = session[t]
    BY DEF ReadInv, DealInv, WaitInv, SessionsShaped
  <1>2. \A t \in Sessions : Fresh(session'[t]) /\ Current(session'[t])
    BY <1>1 DEF ReadInv
  <1> QED BY <1>2 DEF ReadInv, Fresh, Current, Seen, Flags

LEMMA StepReads ==
  ASSUME ReadInv, DealInv', NEW s \in Sessions, Step(s)
  PROVE  ReadInv'
  <1> DEFINE r == session[s]
  <1>r. /\ Deal(r) /\ DealFields \subseteq DOMAIN r /\ Fresh(r) /\ Current(r)
        /\ DOMAIN session = Sessions
    BY DEF ReadInv, DealInv, Deal, WaitInv, SessionsShaped
  <1>1. ASSUME NEW m \in Mints, NEW cmd \in Commands, Begin(s, m, cmd)
        PROVE  ReadInv'
    <2> DEFINE x == [Idle EXCEPT !.phase = "reading", !.cmd = cmd, !.mint = m,
                       !.amount = IF cmd.op = "sell" THEN balance[s][m] ELSE 0]
    <2>1. session' = [session EXCEPT ![s] = x] /\ config' = config
      BY <1>1 DEF Begin, chainVars
    <2>2. x.phase = "reading" /\ x.known = {}
      BY DEF Idle
    <2> HIDE DEF x
    <2>3. Fresh(x) /\ Current(x)
      BY <2>2 DEF Fresh, Current
    <2> QED BY <2>1, <2>3, ReadStep
  <1>2. ASSUME NEW skew \in Skews, ReadCurve(s, skew)
        PROVE  ReadInv'
    <2> DEFINE c == curve[r.mint]
               y == [r EXCEPT !.known = @ \cup {"curve"}, !.curve = c,
                              !.unsure = @ \/ (c.status = "Complete" /\ skew > 0)]
    <2>1. config' = config /\ r.phase = "reading"
      BY <1>2 DEF ReadCurve, Reads, chainVars
    <2>2. PICK x : /\ session' = [session EXCEPT ![s] = x]
                   /\ x = y \/ x = [Idle EXCEPT !.phase = "thrown"]
      BY <1>2 DEF ReadCurve
    <2>3. Fresh(x) /\ Current(x)
      <3>1. CASE x = y
        <4>1. /\ x.phase = "reading" /\ x.moved = r.moved /\ x.config = r.config
              /\ x.known = r.known \cup {"curve"}
          BY <1>r, <2>1, <3>1 DEF DealFields
        <4> QED BY <1>r, <2>1, <4>1 DEF Fresh, Current
      <3>2. CASE x = [Idle EXCEPT !.phase = "thrown"]
        <4>1. x.phase = "thrown"
          BY <3>2 DEF Idle
        <4> QED BY <4>1 DEF Fresh, Current
      <3> QED BY <2>2, <3>1, <3>2
    <2> QED BY <2>1, <2>2, <2>3, ReadStep
  <1>3. CASE ReadConfig(s)
    <2> DEFINE x == [r EXCEPT !.known = @ \cup {"config"}, !.config = Seen,
                              !.unsure = @ \/ config.tradingPaused]
    <2>1. config' = config /\ r.phase = "reading"
      BY <1>3 DEF ReadConfig, Reads, chainVars
    <2>2. session' = [session EXCEPT ![s] = x]
      BY <1>3, <1>r DEF ReadConfig, Seen
    <2>3. x.phase = "reading" /\ x.config = Seen
      BY <1>r, <2>1 DEF DealFields
    <2> HIDE DEF x
    <2>4. Fresh(x) /\ Current(x)
      BY <2>3 DEF Fresh, Current
    <2> QED BY <2>1, <2>2, <2>4, ReadStep
  <1>4. CASE Build(s)
    <2> DEFINE y == [r EXCEPT !.phase = "signed", !.quote = Quote(r),
                              !.order = Order(r), !.last = height + Window,
                              !.curve = NoCurve, !.config = NoConfig]
    <2>1. config' = config /\ r.phase = "reading" /\ r.known = Needs(r.cmd.op)
      BY <1>4 DEF Build, chainVars
    <2>2. PICK x : /\ session' = [session EXCEPT ![s] = x]
                   /\ x = y \/ x = [Idle EXCEPT !.phase = "thrown"]
      BY <1>4 DEF Build
    <2>3. Fresh(x) /\ Current(x)
      <3>1. CASE x = y
        <4>1. /\ x.phase = "signed" /\ x.moved = r.moved /\ x.cmd = r.cmd
              /\ x.order = Order(r)
          BY <1>r, <3>1 DEF DealFields
        <4>2. ASSUME ~r.moved
              PROVE  r.config = Seen
          BY <1>r, <2>1, <4>2 DEF Fresh, Needs
        <4>3. ASSUME ~r.moved, r.cmd.op = "update-config"
              PROVE  Order(r).params = Amended(config.params, r.cmd.changes)
          <5>1. Order(r) = [op |-> "update-config", mint |-> r.mint,
                            params |-> Amended(r.config.params, r.cmd.changes)]
            BY <4>3 DEF Order, Buys
          <5> QED BY <4>2, <4>3, <5>1 DEF Seen
        <4>4. ASSUME ~r.moved, r.cmd.op = "pause"
              PROVE  Order(r).flags = Amended(Flags(config), r.cmd.changes)
          <5>1. Order(r) = [op |-> "pause", mint |-> r.mint,
                            flags |-> FlagsAfter(r)]
            BY <4>4 DEF Order, Buys
          <5>2. Flags(r.config) = Flags(config)
            BY <4>2, <4>4 DEF Seen, Flags
          <5> QED BY <5>1, <5>2 DEF FlagsAfter
        <4> QED BY <4>1, <4>3, <4>4 DEF Fresh, Current
      <3>2. CASE x = [Idle EXCEPT !.phase = "thrown"]
        <4>1. x.phase = "thrown"
          BY <3>2 DEF Idle
        <4> QED BY <4>1 DEF Fresh, Current
      <3> QED BY <2>2, <3>1, <3>2
    <2> QED BY <2>1, <2>2, <2>3, ReadStep
  <1>5. CASE Send(s) \/ Watch(s) \/ Confirm(s) \/ Expire(s)
    <2>1. config' = config /\ r.phase \in {"signed", "sent", "confirming"}
      BY <1>5 DEF Send, Watch, Confirm, Expire, chainVars
    <2>2. PICK x : /\ session' = [session EXCEPT ![s] = x]
                   /\ \/ \E p \in {"sent", "refused", "done", "expired"} :
                           x = [r EXCEPT !.phase = p]
                      \/ x = [r EXCEPT !.phase = "confirming", !.until = Until]
      <3>1. CASE Send(s)
        BY <1>r, <3>1 DEF Send
      <3>2. CASE Watch(s)
        BY <1>r, <3>2 DEF Watch
      <3>3. CASE Confirm(s) \/ Expire(s)
        BY <1>r, <3>3 DEF Confirm, Expire
      <3> QED BY <1>5, <3>1, <3>2, <3>3
    <2>3. /\ x.phase # "reading" /\ x.moved = r.moved /\ x.cmd = r.cmd
          /\ x.order = r.order /\ x.got = r.got
      BY <1>r, <2>2 DEF DealFields
    <2>4. Fresh(x) /\ Current(x)
      BY <1>r, <2>1, <2>3 DEF Fresh, Current
    <2> QED BY <2>1, <2>2, <2>4, ReadStep
  <1>6. CASE SendTooLate(s) \/ End(s)
    <2>1. PICK x \in {Idle, [Idle EXCEPT !.phase = "thrown"]} :
            session' = [session EXCEPT ![s] = x]
      BY <1>6 DEF SendTooLate, End
    <2>2. x.phase \in {"idle", "thrown"}
      BY DEF Idle
    <2>3. Fresh(x) /\ Current(x) /\ config' = config
      BY <1>6, <2>2 DEF Fresh, Current, SendTooLate, End, chainVars
    <2> QED BY <2>1, <2>3, ReadStep
  <1> QED BY <1>1, <1>2, <1>3, <1>4, <1>5, <1>6 DEF Step

\* Everybody notices what others change.
LEMMA StirredReads ==
  ASSUME ReadInv, NEW t \in Sessions, session'[t] = Stirred(t)
  PROVE  Fresh(session[t])' /\ Current(session[t])'
  <1> DEFINE r == session[t]
             open == r.phase \in {"reading", "signed", "sent", "confirming"}
             x == Stirred(t)
  <1>1. /\ DealFields \subseteq DOMAIN r /\ Fresh(r) /\ Current(r)
        /\ r.phase = "reading" => ~r.got.known
    BY DEF ReadInv, DealInv, Deal, WaitInv, Unsent
  <1>2. /\ x.phase = r.phase /\ x.known = r.known /\ x.config = r.config
        /\ x.cmd = r.cmd /\ x.order = r.order /\ x.got = r.got
        /\ x.moved = (r.moved \/ (open /\ ~r.got.known /\ Moves(r.mint)))
    BY <1>1 DEF Stirred, DealFields
  <1>3. CASE ~open \/ r.got.known \/ Moves(r.mint)
    BY <1>1, <1>2, <1>3 DEF Fresh, Current
  <1>4. CASE ~Moves(r.mint)
    <2>1. /\ config'.params = config.params
          /\ config'.createPaused = config.createPaused
          /\ config'.tradingPaused = config.tradingPaused
      BY <1>4 DEF Moves
    <2>2. Seen' = Seen /\ Flags(config)' = Flags(config)
      BY <2>1 DEF Seen, Flags
    <2>3. x.moved => r.moved
      BY <1>2, <1>4
    <2>4. r.moved => x.moved
      BY <1>2
    <2> HIDE DEF x, r
    <2> QED BY <1>1, <1>2, <2>1, <2>2, <2>3, <2>4 DEF Fresh, Current, x, r
  <1> QED BY <1>3, <1>4

LEMMA LandReads ==
  ASSUME ReadInv, DealInv', NEW f \in flight, Land(f)
  PROVE  ReadInv'
  <1>1. /\ f.by \in Sessions /\ DealFields \subseteq DOMAIN session[f.by]
        /\ session[f.by].phase \in {"sent", "confirming"}
    BY DEF ReadInv, DealInv, WaitInv, Awaited, Deal
  <1>2. PICK got :
          /\ got.known
          /\ session' = [t \in Sessions |->
               IF t # f.by THEN Stirred(t) ELSE [session[f.by] EXCEPT !.got = got]]
    BY DEF Land
  <1>3. /\ session'[f.by].phase = session[f.by].phase
        /\ session'[f.by].got = got
    BY <1>1, <1>2 DEF DealFields
  <1>4. Fresh(session[f.by])' /\ Current(session[f.by])'
    BY <1>1, <1>2, <1>3 DEF Fresh, Current
  <1>5. ASSUME NEW t \in Sessions, t # f.by
        PROVE  Fresh(session[t])' /\ Current(session[t])'
    <2>1. session'[t] = Stirred(t)
      BY <1>2, <1>5
    <2> QED BY <2>1, StirredReads
  <1> QED BY <1>4, <1>5 DEF ReadInv

LEMMA RefusedReads ==
  ASSUME ReadInv, DealInv', NEW f \in flight, LandRefused(f)
  PROVE  ReadInv'
  <1> DEFINE r == session[f.by]
             x == [r EXCEPT !.got = [r.got EXCEPT !.known = TRUE]]
  <1>1. /\ f.by \in Sessions /\ DealFields \subseteq DOMAIN r
        /\ r.phase \in {"sent", "confirming"} /\ "known" \in DOMAIN r.got
    BY DEF ReadInv, DealInv, WaitInv, Awaited, Deal
  <1>2. config' = config /\ session' = [session EXCEPT ![f.by] = x]
    BY DEF LandRefused, chainVars
  <1>3. x.phase # "reading" /\ x.got.known
    BY <1>1 DEF DealFields
  <1> HIDE DEF x
  <1>4. Fresh(x) /\ Current(x)
    BY <1>3 DEF Fresh, Current
  <1> QED BY <1>1, <1>2, <1>4, ReadStep

LEMMA ReadsKept ==
  ASSUME ClientAssumption, ReadInv, [ClientNext]_<<chainVars, clientVars>>
  PROVE  ReadInv'
  <1>1. DealInv'
    BY DealsKept DEF ReadInv
  <1>2. CASE World
    <2>1. \A t \in Sessions : session'[t] = Stirred(t)
      BY <1>2 DEF World
    <2> QED BY <1>1, <2>1, StirredReads DEF ReadInv
  <1>3. ASSUME NewBlock \/ UNCHANGED <<chainVars, clientVars>>
        PROVE  ReadInv'
    <2>1. session' = session /\ config' = config
      BY <1>3 DEF NewBlock, chainVars, clientVars
    <2> QED BY <1>1, <2>1 DEF ReadInv, Fresh, Current, Seen, Flags
  <1> QED BY <1>1, <1>2, <1>3, StepReads, LandReads, RefusedReads DEF ClientNext

\* Values that are not given are taken over.
LEMMA NotGiven ==
  ASSUME NEW changes, NEW values, NEW x \in DOMAIN values \ DOMAIN changes
  PROVE  Amended(values, changes)[x] = values[x]
  BY DEF Amended

LEMMA UpdateKeeps ==
  ASSUME ReadInv, NEW f \in flight,
         f.order.op \in {"update-config", "pause"},
         ~session[f.by].moved, Land(f),
         NEW given, given = DOMAIN session[f.by].cmd.changes
  PROVE  /\ \A x \in DOMAIN config.params \ given :
              config'.params[x] = config.params[x]
         /\ \A x \in DOMAIN Flags(config) \ given :
              Flags(config')[x] = Flags(config)[x]
  <1> DEFINE r == session[f.by]
             changes == r.cmd.changes
  <1>1. /\ f.by \in Sessions /\ r.phase \in {"sent", "confirming"}
        /\ ~r.got.known /\ Deal(r) /\ Current(r) /\ f.order = r.order
    BY DEF ReadInv, DealInv, WaitInv, Awaited
  <1>2. config \in Config
    BY DEF ReadInv, DealInv, IInv, TypeOK
  <1>3. CASE f.order.op = "update-config"
    <2>1. r.cmd.op = "update-config"
      BY <1>1, <1>3, CommandFields, ClientAssumption DEF Deal, Agreed, Asked, Buys
    <2>2. f.order.params = Amended(config.params, changes)
      BY <1>1, <2>1 DEF Current
    <2>3. config' = [config EXCEPT !.params = f.order.params]
      BY <1>3 DEF Land, Execute, UpdateConfig
    <2>4. /\ config'.params = Amended(config.params, changes)
          /\ config'.createPaused = config.createPaused
          /\ config'.tradingPaused = config.tradingPaused
      BY <1>2, <2>2, <2>3 DEF Config
    <2> HIDE DEF changes
    <2>5. Flags(config') = Flags(config)
      BY <2>4 DEF Flags
    <2> QED BY <2>4, <2>5, NotGiven DEF changes
  <1>4. CASE f.order.op = "pause"
    <2>1. r.cmd.op = "pause"
      BY <1>1, <1>4, CommandFields, ClientAssumption DEF Deal, Agreed, Asked, Buys
    <2>2. f.order.flags = Amended(Flags(config), changes) /\ f.order.flags \in PauseFlags
      BY <1>1, <2>1 DEF Current, Deal, Agreed
    <2>3. config' = [config EXCEPT !.createPaused = f.order.flags.createPaused,
                                   !.tradingPaused = f.order.flags.tradingPaused]
      BY <1>4 DEF Land, Execute, SetPaused
    <2>4. /\ config'.params = config.params
          /\ config'.createPaused = f.order.flags.createPaused
          /\ config'.tradingPaused = f.order.flags.tradingPaused
      BY <1>2, <2>3 DEF Config
    <2>5. Flags(config') = f.order.flags
      BY <2>2, <2>4 DEF Flags, PauseFlags
    <2> HIDE DEF changes
    <2> QED BY <2>2, <2>4, <2>5, NotGiven DEF changes
  <1> QED BY <1>3, <1>4

\* "Unspecified values are kept", whatever the options and the values, as
\* long as nothing moved after they were read.
THEOREM UpdatesKeepTheRest == ClientSpec => UnspecifiedKept
  <1>1. ReadInv /\ [ClientNext]_<<chainVars, clientVars>> =>
          [\A f \in flight :
             /\ f.order.op \in {"update-config", "pause"}
             /\ ~session[f.by].moved
             /\ Land(f)
             => LET given == DOMAIN session[f.by].cmd.changes
                IN /\ \A x \in DOMAIN config.params \ given :
                        config'.params[x] = config.params[x]
                   /\ \A x \in DOMAIN Flags(config) \ given :
                        Flags(config')[x] = Flags(config)[x]]_<<chainVars, clientVars>>
    BY UpdateKeeps
  <1>2. ReadInv /\ [ClientNext]_<<chainVars, clientVars>> => ReadInv'
    BY ReadsKept, ClientAssumption
  <1> QED BY <1>1, <1>2, ReadsAtFirst, PTL DEF ClientSpec, UnspecifiedKept

-----------------------------------------------------------------------------
(***************************************************************************)
(* The wallets of the sessions.  Nobody sells tokens of somebody else, so  *)
(* what the sessions hold together is part of what circulates.             *)
(***************************************************************************)

\* Tokens a to b of a wallet.
Block(s, a, b) == {s} \X (a .. b)

LEMMA BlockSize ==
  ASSUME NEW s, NEW a \in Int, NEW b \in Int
  PROVE  /\ IsFiniteSet(Block(s, a, b))
         /\ Cardinality(Block(s, a, b)) = IF a > b THEN 0 ELSE b - a + 1
  <1> DEFINE n == IF a > b THEN 0 ELSE b - a + 1
             T == a .. b
  <1>1. IsFiniteSet({s}) /\ Cardinality({s}) = 1
    BY FS_Singleton
  <1>2. IsFiniteSet(T) /\ Cardinality(T) = n
    BY FS_Interval
  <1>3. n \in Int
    OBVIOUS
  <1>4. Block(s, a, b) = {s} \X T
    BY DEF Block
  <1> HIDE DEF n, T
  <1>5. 1 * n = n
    BY <1>3
  <1>6. /\ IsFiniteSet({s} \X T)
        /\ Cardinality({s} \X T) = Cardinality({s}) * Cardinality(T)
    BY <1>1, <1>2, FS_Product
  <1> QED BY <1>1, <1>2, <1>4, <1>5, <1>6 DEF n

LEMMA HeldIn ==
  ASSUME NEW m, NEW x
  PROVE  x \in Held(m) <=>
           \E t \in Sessions : \E n \in 1 .. balance[t][m] : x = <<t, n>>
  BY DEF Held

LEMMA HeldInPrimed ==
  ASSUME NEW m, NEW x
  PROVE  x \in Held(m)' <=>
           \E t \in Sessions : \E n \in 1 .. balance'[t][m] : x = <<t, n>>
  BY DEF Held

\* A wallet's tokens are among those of all the wallets.
LEMMA HeldBound ==
  ASSUME NEW s \in Sessions, NEW m, IsFiniteSet(Held(m)), balance[s][m] \in Nat
  PROVE  balance[s][m] <= Cardinality(Held(m))
  <1> DEFINE block == Block(s, 1, balance[s][m])
  <1>1. block \in SUBSET Held(m)
    BY DEF Held, Block
  <1>2. Cardinality(block) = balance[s][m]
    BY BlockSize
  <1> HIDE DEF block
  <1>3. Cardinality(block) <= Cardinality(Held(m))
    BY <1>1, FS_Subset
  <1> QED BY <1>2, <1>3

\* d tokens of m come into, or leave, the wallet of s.
LEMMA HeldAfter ==
  ASSUME balance \in [Sessions -> [Mints -> Nat]],
         NEW s \in Sessions, NEW m \in Mints, NEW d \in Int,
         balance[s][m] + d \in Nat,
         balance' = [balance EXCEPT ![s][m] = @ + d],
         IsFiniteSet(Held(m))
  PROVE  /\ IsFiniteSet(Held(m)')
         /\ Cardinality(Held(m)') = Cardinality(Held(m)) + d
  <1> DEFINE b == balance[s][m]
             old == Held(m)
             new == Held(m)'
  <1>1. /\ b \in Nat /\ balance'[s][m] = b + d
        /\ \A t \in Sessions : balance[t][m] \in Nat
        /\ \A t \in Sessions : t # s => balance'[t][m] = balance[t][m]
    OBVIOUS
  <1>2. CASE d >= 0
    <2> DEFINE block == Block(s, b + 1, b + d)
    <2>1. new = old \cup block /\ old \cap block = {}
      <3>1. ASSUME NEW x
            PROVE  x \in block <=> \E n \in b + 1 .. b + d : x = <<s, n>>
        BY DEF Block
      <3>2. ASSUME NEW x
            PROVE  x \in new <=> x \in old \/ x \in block
        <4>1. ASSUME x \in new PROVE x \in old \/ x \in block
          <5>1. PICK t \in Sessions : \E n \in 1 .. balance'[t][m] : x = <<t, n>>
            BY <4>1, HeldInPrimed
          <5>2. PICK n \in 1 .. balance'[t][m] : x = <<t, n>>
            BY <5>1
          <5>3. CASE t = s /\ n > b
            BY <1>1, <3>1, <5>2, <5>3
          <5>4. CASE ~(t = s /\ n > b)
            <6>1. n \in 1 .. balance[t][m]
              BY <1>1, <1>2, <5>2, <5>4
            <6> QED BY <5>2, <6>1, HeldIn
          <5> QED BY <5>3, <5>4
        <4>2. ASSUME x \in old PROVE x \in new
          <5>1. PICK t \in Sessions : \E n \in 1 .. balance[t][m] : x = <<t, n>>
            BY <4>2, HeldIn
          <5>2. PICK n \in 1 .. balance[t][m] : x = <<t, n>>
            BY <5>1
          <5>3. n \in 1 .. balance'[t][m]
            BY <1>1, <1>2, <5>2
          <5> QED BY <5>2, <5>3, HeldInPrimed
        <4>3. ASSUME x \in block PROVE x \in new
          <5>1. PICK n \in b + 1 .. b + d : x = <<s, n>>
            BY <3>1, <4>3
          <5>2. n \in 1 .. balance'[s][m]
            BY <1>1, <5>1
          <5> QED BY <5>1, <5>2, HeldInPrimed
        <4> QED BY <4>1, <4>2, <4>3
      <3>3. ASSUME NEW x \in old PROVE x \notin block
        <4>1. PICK t \in Sessions : \E n \in 1 .. balance[t][m] : x = <<t, n>>
          BY HeldIn
        <4> QED BY <1>1, <3>1, <4>1
      <3> HIDE DEF new, old, block
      <3>4. new = old \cup block
        BY <3>2
      <3>5. old \cap block = {}
        BY <3>3
      <3> QED BY <3>4, <3>5
    <2>2. IsFiniteSet(block) /\ Cardinality(block) = d
      BY <1>1, <1>2, BlockSize
    <2> HIDE DEF new, block
    <2>3. IsFiniteSet(new) /\ Cardinality(new) = Cardinality(old) + d - Cardinality({})
      BY <2>1, <2>2, FS_Union
    <2> QED BY <2>3, FS_EmptySet, FS_CardinalityType DEF new
  <1>3. CASE d < 0
    <2> DEFINE block == Block(s, b + d + 1, b)
    <2>1. old = new \cup block /\ new \cap block = {}
      <3>1. ASSUME NEW x
            PROVE  x \in block <=> \E n \in b + d + 1 .. b : x = <<s, n>>
        BY DEF Block
      <3>2. ASSUME NEW x
            PROVE  x \in old <=> x \in new \/ x \in block
        <4>1. ASSUME x \in old PROVE x \in new \/ x \in block
          <5>1. PICK t \in Sessions : \E n \in 1 .. balance[t][m] : x = <<t, n>>
            BY <4>1, HeldIn
          <5>2. PICK n \in 1 .. balance[t][m] : x = <<t, n>>
            BY <5>1
          <5>3. CASE t = s /\ n > b + d
            BY <1>1, <3>1, <5>2, <5>3
          <5>4. CASE ~(t = s /\ n > b + d)
            <6>1. n \in 1 .. balance'[t][m]
              BY <1>1, <1>3, <5>2, <5>4
            <6> QED BY <5>2, <6>1, HeldInPrimed
          <5> QED BY <5>3, <5>4
        <4>2. ASSUME x \in new PROVE x \in old
          <5>1. PICK t \in Sessions : \E n \in 1 .. balance'[t][m] : x = <<t, n>>
            BY <4>2, HeldInPrimed
          <5>2. PICK n \in 1 .. balance'[t][m] : x = <<t, n>>
            BY <5>1
          <5>3. n \in 1 .. balance[t][m]
            BY <1>1, <1>3, <5>2
          <5> QED BY <5>2, <5>3, HeldIn
        <4>3. ASSUME x \in block PROVE x \in old
          <5>1. PICK n \in b + d + 1 .. b : x = <<s, n>>
            BY <3>1, <4>3
          <5>2. n \in 1 .. balance[s][m]
            BY <1>1, <5>1
          <5> QED BY <5>1, <5>2, HeldIn
        <4> QED BY <4>1, <4>2, <4>3
      <3>3. ASSUME NEW x \in new PROVE x \notin block
        <4>1. PICK t \in Sessions : \E n \in 1 .. balance'[t][m] : x = <<t, n>>
          BY HeldInPrimed
        <4> QED BY <1>1, <3>1, <4>1
      <3> HIDE DEF new, old, block
      <3>4. old = new \cup block
        BY <3>2
      <3>5. new \cap block = {}
        BY <3>3
      <3> QED BY <3>4, <3>5
    <2>2. IsFiniteSet(block) /\ Cardinality(block) = -d
      BY <1>1, <1>3, BlockSize
    <2>3. IsFiniteSet(old)
      OBVIOUS
    <2> HIDE DEF new, old, block
    <2>4. IsFiniteSet(new)
      BY <2>1, <2>3, FS_Subset
    <2>5. Cardinality(old) = Cardinality(new) + (-d) - Cardinality({})
      BY <2>1, <2>2, <2>4, FS_Union
    <2>6. Cardinality(old) \in Nat /\ Cardinality(new) \in Nat /\ Cardinality({}) = 0
      BY <2>3, <2>4, FS_EmptySet, FS_CardinalityType
    <2>7. Cardinality(new) = Cardinality(old) + d
      BY <2>5, <2>6
    <2> QED BY <2>4, <2>7 DEF new, old
  <1> QED BY <1>2, <1>3

-----------------------------------------------------------------------------
(***************************************************************************)
(* What the client foresees.  The program computes what the SDK computes,  *)
(* and what else it checks before a trade holds of every live curve.       *)
(***************************************************************************)

\* What order o would change now for who gave it.
Effect(o) ==
  LET b == BuyQuote(o.mint, o.budget)
      f == FirstQuote(o.budget)
      s == SellQuote(o.mint, o.amount)
  IN CASE o.op = "buy" -> [tokens |-> b.tokens, sol |-> b.totalCost]
       [] o.op = "create" -> [tokens |-> f.tokens, sol |-> f.totalCost]
       [] o.op = "sell" -> [tokens |-> -s.tokens, sol |-> -s.solOut]
       [] OTHER -> NoQuote

LEMMA SlippageBelow ==
  ASSUME ClientAssumption, NEW x \in Nat
  PROVE  ApplySlippageDown(x, SlippageBps) <= x
  <1> DEFINE part == BPS - SlippageBps
             a == x * part
             d == a \div BPS
  <1>1. BPS \in Nat \ {0} /\ part \in Nat /\ part <= BPS
    BY CurveMathAssumption DEF ClientAssumption
  <1> HIDE DEF part
  <1>2. a \in Nat /\ a <= x * BPS
    BY <1>1
  <1> HIDE DEF a
  <1>3. d \in Nat /\ d * BPS <= a
    BY <1>1, <1>2, DivDown
  <1> HIDE DEF d
  <1>4. d * BPS < (x + 1) * BPS
    BY <1>1, <1>2, <1>3
  <1>5. d <= x
    BY <1>1, <1>3, <1>4, CancelRight
  <1> QED BY <1>5 DEF ApplySlippageDown, d, a, part

\* What n trades raised, and one more.
LEMMA RoomAfter ==
  ASSUME NEW most \in Nat, NEW n \in 0 .. MaxTrades, NEW vs \in Nat,
         vs + (MaxTrades + 1) * most <= MaxU64,
         NEW raised \in Nat, raised <= n * most, NEW x \in Nat, x <= most
  PROVE  vs + raised + x <= MaxU64 /\ raised + x <= MaxU64
  <1> DEFINE a == n * most
             b == MaxTrades * most
             c == (MaxTrades + 1) * most
  <1>1. /\ MaxTrades \in Nat /\ n \in Nat /\ n <= MaxTrades
        /\ MaxU64 \in Nat
    BY LaunchpadAssumption, CurveMathAssumption
  <1>2. a \in Nat /\ b \in Nat /\ a <= b
    BY <1>1
  <1>3. c = b + most
    BY <1>1
  <1> HIDE DEF a, b, c
  <1>4. raised <= a /\ vs + c <= MaxU64
    BY DEF a, c
  <1> QED BY <1>1, <1>2, <1>3, <1>4

\* A quoted buy of a live curve passes the other checks of buy.
LEMMA BuyFits ==
  ASSUME NEW c, NEW l, NEW v, NEW h, NEW s, NEW p, NEW b, NEW o, NEW g, NEW t,
         Sound(c, l, v, h, s, p, b, o, g, t), c.status = "Trading",
         NEW fees \in [protocol : Nat, creator : Nat], NEW budget \in Nat,
         BuyQuoted(c.vs, c.vt, c.rt, budget, fees),
         NEW q, q = QuoteBuy(c.vs, c.vt, c.rt, budget, fees),
         NEW most \in Nat, budget <= most, NEW n \in 0 .. MaxTrades,
         l <= n * most, o.vs + (MaxTrades + 1) * most <= MaxU64
  PROVE  /\ q.tokens <= v
         /\ Fits(c.vs + q.sol) /\ Fits(c.rs + q.sol)
         /\ Fits(c.protocolFees + q.protocolFee)
         /\ Fits(c.creatorFees + q.creatorFee)
  <1>1. /\ SoundLive(c, v, h, s, p, b, o, g, t)
        /\ l = c.rs + c.protocolFees + c.creatorFees + g.sol
        /\ c.vs \in Nat \ {0} /\ c.vt \in Nat \ {0} /\ c.vt > c.rt
        /\ c.rs \in Nat /\ c.rt \in Nat
        /\ c.protocolFees \in Nat /\ c.creatorFees \in Nat
        /\ c.supply \in Nat
        /\ o.vs \in Nat \ {0} /\ o.rt \in Nat
        /\ o.supply \in Nat /\ o.supply > o.rt
        /\ g.sol \in Nat /\ g.tokens \in Nat
    BY LiveFacts
  <1>2. /\ c.vs = o.vs + c.rs /\ c.supply = o.supply
        /\ v = c.rt + (c.supply - o.rt) + g.tokens
    BY <1>1 DEF SoundLive, SoundReserves, SoundTokens
  <1> DEFINE x == c.vs
             y == c.vt
             z == c.rt
  <1>3. /\ x \in Nat /\ y \in Nat /\ z \in Nat
        /\ BuyQuoted(x, y, z, budget, fees)
        /\ q = QuoteBuy(x, y, z, budget, fees)
        /\ q.totalCost <= budget
    BY <1>1 DEF BuyQuoted
  <1> HIDE DEF x, y, z
  <1>4. q.sol \in Nat /\ q.tokens \in 1 .. z
    BY ONLY <1>3, QuoteBuySound, budget \in Nat, fees \in [protocol : Nat, creator : Nat]
  <1>5. q.protocolFee \in Nat /\ q.creatorFee \in Nat
    BY ONLY <1>3, QuoteBuySound, budget \in Nat, fees \in [protocol : Nat, creator : Nat]
  <1>6. q.totalCost = q.sol + q.protocolFee + q.creatorFee
    BY ONLY <1>3, QuoteBuyCost, budget \in Nat, fees \in [protocol : Nat, creator : Nat]
  <1>7. /\ q.sol <= most /\ q.protocolFee <= most /\ q.creatorFee <= most
    BY <1>3, <1>4, <1>5, <1>6
  <1>8. l \in Nat /\ l >= c.rs /\ l >= c.protocolFees /\ l >= c.creatorFees
    BY <1>1
  <1> DEFINE raised == n * most
  <1>9. /\ c.rs <= raised /\ c.protocolFees <= raised /\ c.creatorFees <= raised
    <2>1. raised \in Nat /\ l <= raised
      OBVIOUS
    <2> HIDE DEF raised
    <2> QED BY <1>1, <1>8, <2>1
  <1> HIDE DEF raised
  <1>10. /\ o.vs + c.rs + q.sol <= MaxU64 /\ c.rs + q.sol <= MaxU64
         /\ c.protocolFees + q.protocolFee <= MaxU64
         /\ c.creatorFees + q.creatorFee <= MaxU64
    BY <1>1, <1>4, <1>5, <1>7, <1>9, RoomAfter DEF raised
  <1>11. q.tokens <= v
    BY <1>1, <1>2, <1>4 DEF z
  <1> QED BY <1>2, <1>10, <1>11 DEF Fits

\* A quoted sell, of tokens that circulate, passes the other checks of sell.
LEMMA SellFits ==
  ASSUME NEW c, NEW l, NEW v, NEW h, NEW s, NEW p, NEW b, NEW o, NEW g, NEW t,
         Sound(c, l, v, h, s, p, b, o, g, t),
         c.status \in {"Trading", "Complete"},
         NEW fees \in [protocol : Nat, creator : Nat], NEW tokens \in Nat,
         tokens <= h,
         SellQuoted(c.vs, c.vt, c.rs, tokens, fees),
         NEW q, q = QuoteSell(c.vs, c.vt, tokens, fees),
         NEW most \in Nat, NEW n \in 0 .. MaxTrades,
         l <= n * most, o.vs + (MaxTrades + 1) * most <= MaxU64
  PROVE  /\ q.solOut <= l
         /\ Fits(c.vt + tokens) /\ Fits(c.rt + tokens)
         /\ Fits(c.protocolFees + q.protocolFee)
         /\ Fits(c.creatorFees + q.creatorFee)
  <1>1. /\ SoundTypes(c, l, v, h, s, p, b, o, g, t)
        /\ SoundLive(c, v, h, s, p, b, o, g, t)
        /\ l = c.rs + c.protocolFees + c.creatorFees + g.sol
        /\ c.vs \in Nat \ {0} /\ c.vt \in Nat \ {0}
        /\ c.rs \in Nat /\ c.rt \in Nat
        /\ c.protocolFees \in Nat /\ c.creatorFees \in Nat
        /\ o.vs \in Nat \ {0} /\ o.vt \in Nat /\ o.rt \in Nat
        /\ g.sol \in Nat /\ g.tokens \in Nat
    BY LiveFacts
  <1>2. /\ c.vt + o.rt = o.vt + c.rt
        /\ c.rt + h + s + g.tokens = o.rt
        /\ h \in Nat /\ s \in Nat
    BY <1>1 DEF SoundLive, SoundReserves, SoundTokens, SoundTypes
  <1>3. o.vt <= MaxU64 /\ o.rt <= MaxU64
    <2>1. o \in ValidParams
      BY <1>1 DEF SoundTypes
    <2> QED BY <2>1, ValidTerms, AmountIsNat
  <1> DEFINE x == c.vs
             y == c.vt
             z == c.rs
  <1>4. /\ x \in Nat /\ y \in Nat /\ z \in Nat
        /\ SellQuoted(x, y, z, tokens, fees)
        /\ q = QuoteSell(x, y, tokens, fees)
    BY <1>1
  <1> HIDE DEF x, y, z
  <1>5. q.sol \in 1 .. x /\ q.sol <= z /\ q.solOut \in Nat \ {0}
    BY ONLY <1>4, QuoteSellSound, tokens \in Nat, fees \in [protocol : Nat, creator : Nat]
  <1>6. q.protocolFee \in Nat /\ q.creatorFee \in Nat
    BY ONLY <1>4, QuoteSellSound, tokens \in Nat, fees \in [protocol : Nat, creator : Nat]
  <1>7. q.sol = q.solOut + q.protocolFee + q.creatorFee
    BY ONLY <1>4, QuoteSellCost, tokens \in Nat, fees \in [protocol : Nat, creator : Nat]
  <1>8. /\ q.sol <= c.rs /\ q.sol \in Nat
    BY <1>4, <1>5 DEF z
  <1>9. /\ q.solOut <= l
        /\ c.protocolFees + q.protocolFee <= l
        /\ c.creatorFees + q.creatorFee <= l
    BY <1>1, <1>5, <1>6, <1>7, <1>8
  <1>10. l \in Nat /\ l <= MaxU64
    <2>1. l \in Nat
      BY <1>1
    <2>2. 0 \in Nat /\ 0 <= most /\ o.vs \in Nat
      BY <1>1
    <2>3. l + 0 <= MaxU64
      BY <2>1, <2>2, RoomAfter
    <2> QED BY <2>1, <2>3
  <1>11. c.vt + tokens <= o.vt /\ c.rt + tokens <= o.rt
    BY <1>1, <1>2
  <1>12. /\ c.vt + tokens <= MaxU64 /\ c.rt + tokens <= MaxU64
         /\ c.protocolFees + q.protocolFee <= MaxU64
         /\ c.creatorFees + q.creatorFee <= MaxU64
    BY <1>1, <1>3, <1>6, <1>9, <1>10, <1>11, CurveMathAssumption
  <1> QED BY <1>9, <1>12 DEF Fits

-----------------------------------------------------------------------------
(***************************************************************************)
(* Steps of the chain.  Whatever changes the accounts of a token changes   *)
(* its curve, so that a session learns of it, and SOL comes in by trades.  *)
(***************************************************************************)

Quiet ==
  \A m \in Mints : curve'[m] = curve[m] =>
    /\ lamports'[m] = lamports[m]
    /\ vault'[m] = vault[m]
    /\ circulating'[m] = circulating[m]

Spent(most) ==
  \/ trades' = trades /\ \A m \in Mints : lamports'[m] <= lamports[m]
  \/ trades' = trades + 1 /\ \A m \in Mints : lamports'[m] <= lamports[m] + most

Orderly(most) == Quiet /\ Spent(most) /\ now' >= now

\* A step at one token, whose curve it changes.
LEMMA OneTokenOrderly ==
  ASSUME Rest, MintTypes, NEW n \in Mints, NEW most \in Nat, now' = now,
         curve'[n] # curve[n],
         NEW l, lamports' = [lamports EXCEPT ![n] = l],
         NEW v, vault' = [vault EXCEPT ![n] = v],
         NEW h, circulating' = [circulating EXCEPT ![n] = h],
         \/ trades' = trades /\ l <= lamports[n]
         \/ trades' = trades + 1 /\ l <= lamports[n] + most
  PROVE  Orderly(most)
  <1>1. /\ \A m \in Mints : lamports[m] \in Nat
        /\ \A m \in Mints : m # n =>
             /\ lamports'[m] = lamports[m] /\ vault'[m] = vault[m]
             /\ circulating'[m] = circulating[m]
        /\ lamports'[n] = l
    BY DEF MintTypes
  <1>2. Quiet
    BY <1>1 DEF Quiet
  <1>3. Spent(most)
    <2>1. CASE trades' = trades /\ l <= lamports[n]
      <3>1. \A m \in Mints : lamports'[m] <= lamports[m]
        BY <1>1, <2>1
      <3> QED BY <2>1, <3>1 DEF Spent
    <2>2. CASE trades' = trades + 1 /\ l <= lamports[n] + most
      <3>1. \A m \in Mints : lamports'[m] <= lamports[m] + most
        BY <1>1, <2>2
      <3> QED BY <2>2, <3>1 DEF Spent
    <2> QED BY <2>1, <2>2
  <1>4. now' >= now
    BY TimeIsNat
  <1> QED BY <1>2, <1>3, <1>4 DEF Orderly

LEMMA NothingOrderly ==
  ASSUME Rest, MintTypes, NEW most \in Nat, now' = now \/ now' = now + 1,
         UNCHANGED <<curve, lamports, vault, circulating, trades>>
  PROVE  Orderly(most)
  <1>1. now' >= now
    BY TimeIsNat
  <1>2. \A m \in Mints : lamports[m] \in Nat
    BY DEF MintTypes
  <1> QED BY <1>1, <1>2 DEF Orderly, Quiet, Spent

LEMMA BuyOrderly ==
  ASSUME IInv, NEW n \in Mints, NEW budget \in Nat, NEW least,
         NEW most \in Nat, budget <= most, Buy(n, budget, least)
  PROVE  /\ Orderly(most)
         /\ circulating'[n] - circulating[n] = BuyQuote(n, budget).tokens
         /\ lamports'[n] - lamports[n] = BuyQuote(n, budget).totalCost
         /\ circulating[n] <= circulating'[n]
  <1> DEFINE c    == curve[n]
             q    == BuyQuote(n, budget)
             fees == config.params.fees
             x    == c.vs
             y    == c.vt
             z    == c.rt
  <1>1. Rest /\ MintTypes
    BY IInvParts
  <1>2. /\ BuyQuoted(x, y, z, budget, fees) /\ q = QuoteBuy(x, y, z, budget, fees)
        /\ curve' = [curve EXCEPT ![n] = AfterBuy(c, q, now)]
        /\ lamports' = [lamports EXCEPT ![n] = lamports[n] + q.totalCost]
        /\ vault' = [vault EXCEPT ![n] = vault[n] - q.tokens]
        /\ circulating' = [circulating EXCEPT ![n] = circulating[n] + q.tokens]
        /\ trades' = trades + 1 /\ now' = now
    BY DEF Buy, BuyAccepted, BuyQuote
  <1>3. /\ x \in Nat /\ y \in Nat /\ z \in Nat /\ c \in Curve
        /\ lamports[n] \in Nat /\ circulating[n] \in Nat
    BY <1>1, CurveFields, AmountIsNat DEF MintTypes
  <1>4. fees \in [protocol : Nat, creator : Nat]
    BY <1>1, ConfigFields, FeesAreNat
  <1>5. q.totalCost <= budget
    BY <1>2 DEF BuyQuoted
  <1>6. AfterBuy(c, q, now).rt = z - q.tokens
    <2> HIDE DEF c, q
    <2> QED BY <1>3 DEF AfterBuy, Curve
  <1>7. curve'[n] = AfterBuy(c, q, now)
    BY <1>1, <1>2 DEF MintTypes
  <1>8. z = curve[n].rt
    OBVIOUS
  <1> HIDE DEF x, y, z, fees, q, c
  <1>9. q.tokens \in 1 .. z /\ q.totalCost \in Nat
    BY ONLY <1>2, <1>3, <1>4, budget \in Nat, QuoteBuySound
  <1>10. curve'[n] # curve[n]
    BY <1>3, <1>6, <1>7, <1>8, <1>9
  <1>11. lamports[n] + q.totalCost <= lamports[n] + most
    BY <1>3, <1>5, <1>9
  <1>12. Orderly(most)
    BY <1>1, <1>2, <1>10, <1>11, OneTokenOrderly
  <1>13. /\ lamports'[n] = lamports[n] + q.totalCost
         /\ circulating'[n] = circulating[n] + q.tokens
    BY <1>1, <1>2 DEF MintTypes
  <1>14. /\ circulating'[n] - circulating[n] = q.tokens
         /\ lamports'[n] - lamports[n] = q.totalCost
         /\ circulating[n] <= circulating'[n]
    BY <1>3, <1>9, <1>13
  <1> QED BY <1>12, <1>14 DEF q

LEMMA CreateAndBuyOrderly ==
  ASSUME IInv, NEW n \in Mints, NEW budget \in Nat, NEW least,
         NEW most \in Nat, budget <= most, CreateAndBuy(n, budget, least)
  PROVE  /\ Orderly(most)
         /\ circulating'[n] - circulating[n] = FirstQuote(budget).tokens
         /\ lamports'[n] - lamports[n] = FirstQuote(budget).totalCost
         /\ circulating[n] <= circulating'[n]
  <1> DEFINE p    == config.params
             c    == NewCurve(p)
             q    == FirstQuote(budget)
             fees == p.fees
             x    == c.vs
             y    == c.vt
             z    == c.rt
  <1>1. Rest /\ MintTypes /\ SoundMint(n)
    BY IInvParts
  <1>2. /\ BuyQuoted(x, y, z, budget, fees) /\ q = QuoteBuy(x, y, z, budget, fees)
        /\ curve[n].status = "Absent"
        /\ curve' = [curve EXCEPT ![n] = AfterBuy(c, q, now)]
        /\ lamports' = [lamports EXCEPT ![n] = lamports[n] + q.totalCost]
        /\ vault' = [vault EXCEPT ![n] = p.supply - q.tokens]
        /\ circulating' = [circulating EXCEPT ![n] = q.tokens]
        /\ trades' = trades + 1 /\ now' = now
    BY DEF CreateAndBuy, CreateAndBuyAccepted, CreateAccepted, FirstQuote
  <1>3. circulating[n] = 0 /\ lamports[n] \in Nat
    BY <1>1, <1>2 DEF SoundMint, Sound, SoundAbsent, SoundTypes
  <1>4. p \in ValidParams
    BY <1>1, ConfigFields
  <1>5. x \in Nat /\ y \in Nat /\ z \in Nat
    BY <1>4, ValidTerms, AmountIsNat DEF NewCurve
  <1>6. fees \in [protocol : Nat, creator : Nat]
    BY <1>4, ValidTerms, FeesAreNat
  <1>7. q.totalCost <= budget
    BY <1>2 DEF BuyQuoted
  <1>8. AfterBuy(c, q, now).status \in {"Trading", "Complete"}
    BY DEF AfterBuy, NewCurve
  <1>9. curve'[n] = AfterBuy(c, q, now)
    BY <1>1, <1>2 DEF MintTypes
  <1> HIDE DEF x, y, z, fees, q, c
  <1>10. q.tokens \in 1 .. z /\ q.totalCost \in Nat
    BY ONLY <1>2, <1>5, <1>6, budget \in Nat, QuoteBuySound
  <1>11. curve'[n] # curve[n]
    BY <1>2, <1>8, <1>9
  <1>12. lamports[n] + q.totalCost <= lamports[n] + most
    BY <1>3, <1>7, <1>10
  <1>13. Orderly(most)
    BY <1>1, <1>2, <1>11, <1>12, OneTokenOrderly
  <1>14. /\ lamports'[n] = lamports[n] + q.totalCost
         /\ circulating'[n] = q.tokens
    BY <1>1, <1>2 DEF MintTypes
  <1>15. /\ circulating'[n] - circulating[n] = q.tokens
         /\ lamports'[n] - lamports[n] = q.totalCost
         /\ circulating[n] <= circulating'[n]
    BY <1>3, <1>5, <1>10, <1>14
  <1> QED BY <1>13, <1>15 DEF q

LEMMA SellOrderly ==
  ASSUME IInv, NEW n \in Mints, NEW tokens \in Int, NEW least,
         NEW most \in Nat, Sell(n, tokens, least)
  PROVE  /\ Orderly(most)
         /\ circulating'[n] - circulating[n] = -SellQuote(n, tokens).tokens
         /\ lamports'[n] - lamports[n] = -SellQuote(n, tokens).solOut
  <1> DEFINE c    == curve[n]
             q    == SellQuote(n, tokens)
             fees == config.params.fees
             x    == c.vs
             y    == c.vt
             z    == c.rs
  <1>1. Rest /\ MintTypes
    BY IInvParts
  <1>2. /\ SellQuoted(x, y, z, tokens, fees) /\ q = QuoteSell(x, y, tokens, fees)
        /\ curve' = [curve EXCEPT ![n] = AfterSell(c, q, now)]
        /\ lamports' = [lamports EXCEPT ![n] = lamports[n] - q.solOut]
        /\ vault' = [vault EXCEPT ![n] = vault[n] + tokens]
        /\ circulating' = [circulating EXCEPT ![n] = circulating[n] - tokens]
        /\ trades' = trades + 1 /\ now' = now
    BY DEF Sell, SellAccepted, SellQuote
  <1>3. /\ x \in Nat /\ y \in Nat /\ z \in Nat /\ c \in Curve /\ c.rt \in Nat
        /\ lamports[n] \in Nat /\ circulating[n] \in Nat
    BY <1>1, CurveFields, AmountIsNat DEF MintTypes
  <1>4. fees \in [protocol : Nat, creator : Nat]
    BY <1>1, ConfigFields, FeesAreNat
  <1>5. tokens \in Nat \ {0}
    BY <1>2 DEF SellQuoted
  <1>6. q.tokens = tokens
    BY <1>2 DEF QuoteSell
  <1>7. AfterSell(c, q, now).rt = c.rt + q.tokens
    <2> HIDE DEF c, q
    <2> QED BY <1>3 DEF AfterSell, Curve
  <1>8. curve'[n] = AfterSell(c, q, now)
    BY <1>1, <1>2 DEF MintTypes
  <1>9. c = curve[n]
    OBVIOUS
  <1> HIDE DEF x, y, z, fees, q, c
  <1>10. q.solOut \in Nat \ {0}
    BY ONLY <1>2, <1>3, <1>4, <1>5, QuoteSellSound
  <1>11. curve'[n] # curve[n]
    BY <1>3, <1>5, <1>6, <1>7, <1>8, <1>9
  <1>12. lamports[n] - q.solOut <= lamports[n] + most
    BY <1>3, <1>10
  <1>13. Orderly(most)
    BY <1>1, <1>2, <1>11, <1>12, OneTokenOrderly
  <1>14. /\ lamports'[n] = lamports[n] - q.solOut
         /\ circulating'[n] = circulating[n] - tokens
    BY <1>1, <1>2 DEF MintTypes
  <1>15. /\ circulating'[n] - circulating[n] = -q.tokens
         /\ lamports'[n] - lamports[n] = -q.solOut
    BY <1>3, <1>5, <1>6, <1>10, <1>14
  <1> QED BY <1>13, <1>15 DEF q

LEMMA CreateOrderly ==
  ASSUME IInv, NEW n \in Mints, NEW most \in Nat, CreateToken(n)
  PROVE  Orderly(most) /\ UNCHANGED <<lamports, circulating>>
  <1>1. Rest /\ MintTypes
    BY IInvParts
  <1>2. /\ curve[n].status = "Absent" /\ curve'[n].status = "Trading"
        /\ lamports' = [lamports EXCEPT ![n] = lamports[n]]
        /\ vault' = [vault EXCEPT ![n] = config.params.supply]
        /\ circulating' = [circulating EXCEPT ![n] = circulating[n]]
        /\ trades' = trades /\ now' = now
    BY <1>1 DEF CreateToken, CreateAccepted, NewCurve, MintTypes
  <1>3. lamports[n] <= lamports[n]
    BY <1>1 DEF MintTypes
  <1>4. Orderly(most)
    BY <1>1, <1>2, <1>3, OneTokenOrderly
  <1> QED BY <1>4 DEF CreateToken

LEMMA MigrateOrderly ==
  ASSUME IInv, NEW n \in Mints, NEW most \in Nat, Migrate(n)
  PROVE  Orderly(most)
  <1> DEFINE paid == lamports[n] - lamports'[n]
  <1>1. Rest /\ MintTypes /\ SoundMint(n)
    BY IInvParts
  <1>2. IInv'
    BY MigrateStep
  <1>3. SoundMint(n)' /\ MintTypes'
    BY <1>2, IInvPrimed DEF IInv, TypeOK, MintTypes
  <1>4. PICK l : lamports' = [lamports EXCEPT ![n] = l]
    BY DEF Migrate
  <1>5. /\ curve[n].status = "Complete" /\ curve'[n] = AfterMigrate(curve[n])
        /\ vault' = [vault EXCEPT ![n] = 0]
        /\ circulating' = [circulating EXCEPT ![n] = circulating[n]]
        /\ trades' = trades /\ now' = now /\ gifts' = gifts
    BY <1>1 DEF Migrate, CanGraduate, MintTypes
  <1>6. curve[n] \in Curve /\ lamports'[n] = l
    BY <1>1, <1>4 DEF MintTypes
  <1>7. /\ curve'[n].status = "Migrated" /\ curve'[n].rs = 0
        /\ curve'[n].protocolFees = 0
        /\ curve'[n].creatorFees = curve[n].creatorFees
    BY <1>5, <1>6 DEF AfterMigrate, Curve
  <1>8. /\ lamports[n] = curve[n].rs + curve[n].protocolFees
                           + curve[n].creatorFees + gifts[n].sol
        /\ gifts[n].sol \in Nat
    BY <1>1 DEF SoundMint, Sound, SoundTypes
  <1>9. lamports'[n] = curve'[n].rs + curve'[n].protocolFees
                         + curve'[n].creatorFees + gifts'[n].sol
    BY <1>3 DEF SoundMint, Sound
  <1>10. /\ curve[n].rs \in Nat /\ curve[n].protocolFees \in Nat
         /\ curve[n].creatorFees \in Nat
    BY <1>6, CurveFields, AmountIsNat
  <1>11. l <= lamports[n]
    BY <1>5, <1>6, <1>7, <1>8, <1>9, <1>10
  <1> QED BY <1>1, <1>4, <1>5, <1>7, <1>11, OneTokenOrderly

-----------------------------------------------------------------------------
(***************************************************************************)
(* The invariant.  Until something moves, a session that is sure of itself *)
(* knows the accounts as they are; once it has built its order, the order  *)
(* would be executed now, exactly as quoted.                               *)
(***************************************************************************)

Waiting(r) ==
  r.phase \in {"reading", "signed", "sent", "confirming"} /\ ~r.got.known

HeldInv ==
  /\ balance \in [Sessions -> [Mints -> Nat]]
  /\ \A m \in Mints :
       IsFiniteSet(Held(m)) /\ Cardinality(Held(m)) <= circulating[m]
  /\ \A s \in Sessions :
       Waiting(session[s]) /\ session[s].cmd.op = "sell" =>
         session[s].amount = balance[s][session[s].mint]

RaisedInv(most) == \A m \in Mints : lamports[m] <= trades * most

Poised(r) ==
  r.phase = "reading" /\ ~r.moved /\ ~r.unsure =>
    /\ "config" \in r.known => ~r.config.tradingPaused
    /\ "curve" \in r.known =>
         r.curve = curve[r.mint] /\ Tradable(r.cmd.op, curve[r.mint], now)
    /\ r.cmd.op = "create" => curve[r.mint].status = "Absent"

Foresees(r) ==
  /\ r.phase \in {"signed", "sent", "confirming"} /\ ~r.got.known
  /\ ~r.moved /\ ~r.unsure
  /\ r.cmd.op = "update-config" => Valid(r.order.params)
  => \A o : o = r.order => Succeeds(o) /\ Effect(o) = r.quote

Well(r) == Poised(r) /\ Foresees(r) /\ AsQuoted(r)

ForeseenInv(most) ==
  /\ ReadInv /\ HeldInv /\ RaisedInv(most)
  /\ \A s \in Sessions : Well(session[s])

\* A buy quoted on the curve as it is.
LEMMA BuyForeseen ==
  ASSUME ClientAssumption, IInv, NEW most \in Nat, RoomToTrade(most),
         RaisedInv(most), NEW m \in Mints, NEW budget \in Nat, budget <= most,
         curve[m].status = "Trading", ~config.tradingPaused,
         SdkBuyQuoted(curve[m], budget, config.params.fees)
  PROVE  LET q == SdkQuoteBuy(curve[m], budget, config.params.fees)
         IN  /\ BuyAccepted(m, budget, ApplySlippageDown(q.tokens, SlippageBps))
             /\ q = BuyQuote(m, budget)
  <1> DEFINE c == curve[m]
             fees == config.params.fees
             q == SdkQuoteBuy(c, budget, fees)
             least == ApplySlippageDown(q.tokens, SlippageBps)
  <1>1. Rest /\ MintTypes /\ SoundMint(m)
    BY IInvParts
  <1>2. fees \in FeePair
    BY <1>1, ConfigFields, FeesAreNat DEF FeePair
  <1>3. /\ c.vs \in Nat \ {0} /\ c.vt \in Nat /\ c.rt \in Nat /\ c.rt < c.vt
        /\ launch[m] \in ValidParams
    BY <1>1, LiveFacts DEF SoundMint, SoundTypes
  <1>4. launch[m].vs + (MaxTrades + 1) * most <= MaxU64
    BY <1>3 DEF RoomToTrade
  <1>5. budget <= MaxU64
    <2>1. launch[m].vs \in Nat
      BY <1>3, ValidTerms, AmountIsNat
    <2>2. 0 \in 0 .. MaxTrades /\ 0 \in Nat /\ 0 <= 0 * most
      BY LaunchpadAssumption
    <2>3. 0 + budget <= MaxU64
      BY <1>4, <2>1, <2>2, RoomAfter
    <2> QED BY <2>3
  <1>6. q = BuyQuote(m, budget)
    BY <1>2, <1>3, SameBuy DEF BuyQuote
  <1>7. BuyQuoted(c.vs, c.vt, c.rt, budget, fees)
    BY <1>2, <1>3, <1>5, SameBuyQuoted
  <1>8. q = QuoteBuy(c.vs, c.vt, c.rt, budget, fees)
    BY <1>6 DEF BuyQuote
  <1>9. q.tokens \in Nat
    BY <1>2, <1>3, SdkBuyTokens DEF FeePair
  <1>10. trades \in 0 .. MaxTrades /\ lamports[m] <= trades * most
    BY DEF RaisedInv, IInv, TypeOK
  <1>11. /\ Sound(c, lamports[m], vault[m], circulating[m], stray[m], pool[m],
                  burned[m], launch[m], gifts[m], now)
         /\ c.status = "Trading" /\ fees \in [protocol : Nat, creator : Nat]
    BY <1>1, <1>2 DEF SoundMint, FeePair
  <1> HIDE DEF q, c, fees
  <1>12. /\ q.tokens <= vault[m]
         /\ Fits(c.vs + q.sol) /\ Fits(c.rs + q.sol)
         /\ Fits(c.protocolFees + q.protocolFee)
         /\ Fits(c.creatorFees + q.creatorFee)
    BY <1>4, <1>7, <1>8, <1>10, <1>11, BuyFits
  <1>13. q.tokens >= least
    BY <1>9, SlippageBelow
  <1> HIDE DEF least
  <1>14. BuyAccepted(m, budget, least)
    BY <1>6, <1>7, <1>12, <1>13 DEF BuyAccepted, c, fees
  <1> QED BY <1>6, <1>14 DEF q, c, fees, least

\* The first buy of a launch, quoted on the terms as they are.
LEMMA FirstForeseen ==
  ASSUME ClientAssumption, IInv, NEW most \in Nat, RoomToTrade(most),
         NEW m \in Mints, NEW budget \in Nat, budget <= most,
         curve[m].status = "Absent", ~config.createPaused, ~config.tradingPaused,
         NEW c, c.vs = config.params.vs, c.vt = config.params.vt,
         c.rt = config.params.rt,
         SdkBuyQuoted(c, budget, config.params.fees)
  PROVE  LET q == SdkQuoteBuy(c, budget, config.params.fees)
         IN  /\ CreateAndBuyAccepted(m, budget,
                                     ApplySlippageDown(q.tokens, SlippageBps))
             /\ q = FirstQuote(budget)
  <1> DEFINE p == config.params
             fees == p.fees
             q == SdkQuoteBuy(c, budget, fees)
             least == ApplySlippageDown(q.tokens, SlippageBps)
             d == NewCurve(p)
  <1>1. p \in ValidParams
    BY IInvParts, ConfigFields
  <1>2. fees \in FeePair
    BY <1>1, ValidTerms, FeesAreNat DEF FeePair
  <1>3. /\ c.vs \in Nat \ {0} /\ c.vt \in Nat /\ c.rt \in Nat \ {0} /\ c.rt < c.vt
    BY <1>1, ValidTerms DEF Amount
  <1>4. p.vs + (MaxTrades + 1) * most <= MaxU64
    BY <1>1 DEF RoomToTrade
  <1>5. p.vs + 0 + budget <= MaxU64 /\ 0 + budget <= MaxU64
    <2>1. 0 \in 0 .. MaxTrades /\ 0 \in Nat /\ 0 <= 0 * most /\ p.vs \in Nat
      BY <1>3, LaunchpadAssumption
    <2> QED BY <1>4, <2>1, RoomAfter
  <1>6. d.vs = c.vs /\ d.vt = c.vt /\ d.rt = c.rt
    BY DEF NewCurve
  <1>7. q = QuoteBuy(c.vs, c.vt, c.rt, budget, fees)
    BY <1>2, <1>3, SameBuy
  <1>8. q = FirstQuote(budget)
    BY <1>6, <1>7 DEF FirstQuote
  <1>9. BuyQuoted(c.vs, c.vt, c.rt, budget, fees)
    BY <1>2, <1>3, <1>5, SameBuyQuoted
  <1>10. q.tokens \in Nat
    BY <1>2, <1>3, SdkBuyTokens DEF FeePair
  <1>11. q.sol \in Nat /\ q.sol <= budget
    <2> DEFINE x == c.vs
               y == c.vt
               z == c.rt
    <2>1. /\ x \in Nat \ {0} /\ y \in Nat /\ z \in Nat \ {0} /\ z < y
          /\ q = QuoteBuy(x, y, z, budget, fees)
      BY <1>3, <1>7
    <2> HIDE DEF x, y, z, q, fees
    <2>2. q.sol \in Nat /\ q.totalCost \in Nat /\ q.totalCost >= q.sol
          /\ q.totalCost <= budget
      BY ONLY <1>2, <2>1, budget \in Nat, BuyCost
    <2> QED BY <2>2
  <1> HIDE DEF q
  <1>12. q.tokens >= least
    BY <1>10, SlippageBelow
  <1>13. Fits(d.vs + q.sol)
    BY <1>3, <1>5, <1>6, <1>11, CurveMathAssumption DEF Fits
  <1> HIDE DEF least
  <1>14. BuyQuoted(d.vs, d.vt, d.rt, budget, fees)
    BY <1>6, <1>9
  <1> HIDE DEF d, fees
  <1>15. CreateAndBuyAccepted(m, budget, least)
    BY <1>8, <1>12, <1>13, <1>14
       DEF CreateAndBuyAccepted, CreateAccepted, d, fees
  <1> QED BY <1>8, <1>15 DEF q, least, fees

\* A sell, of tokens that circulate, quoted on the curve as it is.
LEMMA SellForeseen ==
  ASSUME ClientAssumption, IInv, NEW most \in Nat, RoomToTrade(most),
         RaisedInv(most), NEW m \in Mints, NEW tokens \in Nat,
         tokens <= circulating[m],
         curve[m].status = "Trading" \/ Stuck(curve[m], now),
         ~config.tradingPaused,
         SdkSellQuoted(curve[m], tokens, config.params.fees)
  PROVE  LET q == SdkQuoteSell(curve[m], tokens, config.params.fees)
         IN  /\ SellAccepted(m, tokens, ApplySlippageDown(q.solOut, SlippageBps))
             /\ q = SellQuote(m, tokens)
  <1> DEFINE c == curve[m]
             fees == config.params.fees
             q == SdkQuoteSell(c, tokens, fees)
             least == ApplySlippageDown(q.solOut, SlippageBps)
  <1>1. Rest /\ MintTypes /\ SoundMint(m)
    BY IInvParts
  <1>2. fees \in FeePair
    BY <1>1, ConfigFields, FeesAreNat DEF FeePair
  <1>s. c.status \in {"Trading", "Complete"}
    BY DEF Stuck
  <1>3. /\ c.vs \in Nat \ {0} /\ c.vt \in Nat \ {0} /\ c.rs \in Nat
        /\ launch[m] \in ValidParams
    BY <1>1, <1>s, LiveFacts DEF SoundMint, SoundTypes
  <1>4. launch[m].vs + (MaxTrades + 1) * most <= MaxU64
    BY <1>3 DEF RoomToTrade
  <1>5. c.rs <= MaxU64
    BY <1>1, CurveFields, AmountIsNat DEF MintTypes
  <1>6. q = SellQuote(m, tokens)
    BY <1>2, <1>3, SameSell DEF SellQuote
  <1>7. SellQuoted(c.vs, c.vt, c.rs, tokens, fees)
    BY <1>2, <1>3, <1>5, SameSellQuoted
  <1>8. q = QuoteSell(c.vs, c.vt, tokens, fees)
    BY <1>6 DEF SellQuote
  <1>9. q.solOut \in Nat
    BY <1>2, <1>3, SdkSellSol DEF FeePair
  <1>10. trades \in 0 .. MaxTrades /\ lamports[m] <= trades * most
    BY DEF RaisedInv, IInv, TypeOK
  <1>11. /\ Sound(c, lamports[m], vault[m], circulating[m], stray[m], pool[m],
                  burned[m], launch[m], gifts[m], now)
         /\ fees \in [protocol : Nat, creator : Nat]
    BY <1>1, <1>2 DEF SoundMint, FeePair
  <1> HIDE DEF q, c, fees
  <1>12. /\ q.solOut <= lamports[m]
         /\ Fits(c.vt + tokens) /\ Fits(c.rt + tokens)
         /\ Fits(c.protocolFees + q.protocolFee)
         /\ Fits(c.creatorFees + q.creatorFee)
    BY <1>s, <1>4, <1>7, <1>8, <1>10, <1>11, SellFits
  <1>13. q.solOut >= least
    BY <1>9, SlippageBelow
  <1> HIDE DEF least
  <1>14. SellAccepted(m, tokens, least)
    BY <1>6, <1>7, <1>12, <1>13 DEF SellAccepted, c, fees
  <1> QED BY <1>6, <1>14 DEF q, c, fees, least

\* What a session builds, if nothing moved and it is sure, is carried out now.
LEMMA BuildForeseen ==
  ASSUME ClientAssumption, IInv, HeldInv, NEW most \in Nat, RoomToTrade(most),
         RaisedInv(most), NEW s \in Sessions, NEW r, r = session[s],
         Deal(r), Fresh(r), Poised(r), r.phase = "reading", ~r.got.known,
         ~r.moved, ~r.unsure, r.known = Needs(r.cmd.op), Quoted(r),
         NEW o, o = Order(r), r.cmd.op = "update-config" => Valid(o.params)
  PROVE  Succeeds(o) /\ Effect(o) = Quote(r)
  <1> DEFINE m == r.mint
             op == r.cmd.op
             budget == r.cmd.budget
             fees == config.params.fees
             b == SdkQuoteBuy(QuotedCurve(r), budget, fees)
             k == SdkQuoteSell(QuotedCurve(r), r.amount, fees)
  <1>1. m \in Mints /\ r.cmd \in Commands
    BY DEF Deal, Asked
  <1>2. /\ op \in {"create", "buy", "sell", "update-config", "pause"}
        /\ budget \in Nat /\ budget <= most
    BY <1>1, CommandFields DEF RoomToTrade
  <1>3. "config" \in r.known /\ (op \in {"buy", "sell"} => "curve" \in r.known)
    BY DEF Needs
  <1>4. r.config = Seen
    BY <1>3 DEF Fresh
  <1>5. /\ r.config.params = config.params
        /\ r.config.createPaused = config.createPaused
        /\ ~config.tradingPaused
    BY <1>3, <1>4 DEF Seen, Poised
  <1>6. CASE op = "buy"
    <2>1. /\ QuotedCurve(r) = curve[m] /\ curve[m].status = "Trading"
          /\ SdkBuyQuoted(curve[m], budget, fees)
      BY <1>3, <1>5, <1>6 DEF QuotedCurve, Poised, Tradable, Quoted, Buys
    <2>2. /\ BuyAccepted(m, budget, ApplySlippageDown(b.tokens, SlippageBps))
          /\ b = BuyQuote(m, budget)
      BY <1>1, <1>2, <1>5, <2>1, BuyForeseen
    <2>3. /\ Quote(r) = [tokens |-> b.tokens, sol |-> b.totalCost]
          /\ o = [op |-> "buy", mint |-> m, budget |-> budget,
                  least |-> ApplySlippageDown(b.tokens, SlippageBps)]
      <3>1. Quote(r) = [tokens |-> b.tokens, sol |-> b.totalCost]
        BY <1>5, <1>6 DEF Quote, Buys
      <3>2. Quote(r).tokens = b.tokens
        BY <3>1
      <3> QED BY <1>6, <3>1, <3>2 DEF Order, Buys
    <2>4. Succeeds(o)
      BY <2>2, <2>3 DEF Succeeds
    <2>5. Effect(o) = [tokens |-> b.tokens, sol |-> b.totalCost]
      BY <2>2, <2>3 DEF Effect
    <2> QED BY <2>3, <2>4, <2>5
  <1>7. CASE op = "create" /\ budget > 0
    <2> DEFINE c == QuotedCurve(r)
    <2>1. /\ c.vs = config.params.vs /\ c.vt = config.params.vt
          /\ c.rt = config.params.rt
          /\ curve[m].status = "Absent" /\ ~config.createPaused
          /\ SdkBuyQuoted(c, budget, fees)
      BY <1>3, <1>5, <1>7 DEF QuotedCurve, Poised, Quoted, Buys
    <2> HIDE DEF c
    <2>2. /\ CreateAndBuyAccepted(m, budget,
               ApplySlippageDown(SdkQuoteBuy(c, budget, fees).tokens, SlippageBps))
          /\ SdkQuoteBuy(c, budget, fees) = FirstQuote(budget)
      BY <1>1, <1>2, <1>5, <2>1, FirstForeseen
    <2>3. Quote(r) = [tokens |-> b.tokens, sol |-> b.totalCost]
      BY <1>5, <1>7 DEF Quote, Buys
    <2>4. Quote(r).tokens = b.tokens
      BY <2>3
    <2>5. o = [op |-> "create", mint |-> m, budget |-> budget,
               least |-> ApplySlippageDown(b.tokens, SlippageBps)]
      BY <1>7, <2>4 DEF Order, Buys
    <2>6. Succeeds(o)
      BY <2>2, <2>5 DEF Succeeds, c
    <2>7. Effect(o) = [tokens |-> b.tokens, sol |-> b.totalCost]
      BY <2>2, <2>5 DEF Effect, c
    <2> QED BY <2>3, <2>6, <2>7
  <1>8. CASE op = "sell"
    <2>1. r.amount = balance[s][m] /\ r.amount \in Nat
      BY <1>1, <1>8 DEF HeldInv, Waiting
    <2>2. r.amount <= circulating[m]
      <3>1. IsFiniteSet(Held(m)) /\ Cardinality(Held(m)) <= circulating[m]
        BY <1>1 DEF HeldInv
      <3>2. Cardinality(Held(m)) \in Nat /\ circulating[m] \in Nat
        BY <1>1, <3>1, FS_CardinalityType, IInvParts DEF MintTypes
      <3>3. r.amount <= Cardinality(Held(m))
        BY <2>1, <3>1, HeldBound
      <3> QED BY <2>1, <3>1, <3>2, <3>3
    <2>3. /\ QuotedCurve(r) = curve[m]
          /\ curve[m].status = "Trading" \/ Stuck(curve[m], now)
          /\ SdkSellQuoted(curve[m], r.amount, fees)
      BY <1>3, <1>5, <1>8
         DEF QuotedCurve, Poised, Tradable, CanSell, Stuck, Quoted, Buys
    <2>4. /\ SellAccepted(m, r.amount, ApplySlippageDown(k.solOut, SlippageBps))
          /\ k = SellQuote(m, r.amount)
      BY <1>1, <1>5, <2>1, <2>2, <2>3, SellForeseen
    <2>5. Quote(r) = [tokens |-> -k.tokens, sol |-> -k.solOut]
      BY <1>5, <1>8, <2>3 DEF Quote, Buys, QuotedCurve
    <2>6. k.solOut \in Nat
      <3> DEFINE c == curve[m]
      <3>1. /\ c.vs \in Nat /\ c.vt \in Nat /\ c.rs \in Nat
        BY <1>1, IInvParts, CurveFields, AmountIsNat DEF MintTypes
      <3>2. fees \in [protocol : Nat, creator : Nat]
        BY IInvParts, ConfigFields, FeesAreNat
      <3> HIDE DEF c, fees
      <3> QED BY <2>1, <2>3, <3>1, <3>2, SdkSellSol DEF c
    <2>7. -Quote(r).sol = k.solOut
      BY <2>5, <2>6
    <2>8. o = [op |-> "sell", mint |-> m, amount |-> r.amount,
               least |-> ApplySlippageDown(k.solOut, SlippageBps)]
      BY <1>8, <2>7 DEF Order, Buys
    <2>9. Succeeds(o)
      BY <2>4, <2>8 DEF Succeeds
    <2>10. Effect(o) = [tokens |-> -k.tokens, sol |-> -k.solOut]
      BY <2>4, <2>8 DEF Effect
    <2> QED BY <2>5, <2>9, <2>10
  <1>9. CASE ~Buys(r.cmd) /\ op # "sell"
    <2>1. Quote(r) = NoQuote
      BY <1>9 DEF Quote, NoQuote
    <2>2. o.op \notin {"buy", "create", "sell"}
      BY <1>2, <1>9 DEF Order, Buys
    <2>3. Effect(o) = NoQuote
      BY <2>2 DEF Effect
    <2>4. Succeeds(o)
      <3>1. CASE op = "create"
        <4>1. o = [op |-> "launch", mint |-> m]
          BY <1>9, <3>1 DEF Order
        <4>2. CreateAccepted(m)
          BY <1>5, <3>1 DEF Quoted, Poised, CreateAccepted
        <4> QED BY <4>1, <4>2 DEF Succeeds
      <3>2. CASE op = "update-config"
        <4>1. o.op = "update-config"
          BY <1>9, <3>2 DEF Order
        <4> QED BY <3>2, <4>1 DEF Succeeds
      <3>3. CASE op = "pause"
        <4>1. o.op = "pause"
          BY <1>9, <3>3 DEF Order
        <4> QED BY <4>1 DEF Succeeds
      <3> QED BY <1>2, <1>9, <3>1, <3>2, <3>3 DEF Buys
    <2> QED BY <2>1, <2>3, <2>4
  <1> QED BY <1>2, <1>6, <1>7, <1>8, <1>9 DEF Buys

-----------------------------------------------------------------------------
(***************************************************************************)
(* What changes neither the token of an order nor the configuration keeps  *)
(* the order as good as it was.                                            *)
(***************************************************************************)

SameTerms(m) ==
  /\ curve'[m] = curve[m]
  /\ config'.params = config.params
  /\ config'.createPaused = config.createPaused
  /\ config'.tradingPaused = config.tradingPaused

LEMMA StuckStays ==
  ASSUME IInv, IInv', NEW most \in Nat, Orderly(most), NEW m \in Mints,
         Stuck(curve[m], now)
  PROVE  Stuck(curve[m], now')
  <1>1. /\ curve[m].completedAt \in Nat /\ MigrationTimeout \in Nat
        /\ now \in Nat /\ now' >= now
    BY IInvParts, CurveFields, TimeIsNat, LaunchpadAssumption
       DEF MintTypes, Orderly
  <1>2. now' \in Nat
    BY LaunchpadAssumption DEF IInv, TypeOK
  <1> QED BY <1>1, <1>2 DEF Stuck

LEMMA StillForeseen ==
  ASSUME IInv, IInv', NEW most \in Nat, Orderly(most), NEW o, o.mint \in Mints,
         SameTerms(o.mint), Succeeds(o)
  PROVE  Succeeds(o)' /\ Effect(o)' = Effect(o)
  <1> DEFINE m == o.mint
  <1>1. /\ lamports'[m] = lamports[m] /\ vault'[m] = vault[m]
        /\ circulating'[m] = circulating[m] /\ curve'[m] = curve[m]
    BY DEF Orderly, Quiet, SameTerms
  <1>2. /\ BuyQuote(m, o.budget)' = BuyQuote(m, o.budget)
        /\ SellQuote(m, o.amount)' = SellQuote(m, o.amount)
        /\ FirstQuote(o.budget)' = FirstQuote(o.budget)
    BY <1>1 DEF BuyQuote, SellQuote, FirstQuote, SameTerms
  <1>3. Effect(o)' = Effect(o)
    BY <1>2 DEF Effect
  <1>4. CASE o.op = "launch" /\ CreateAccepted(m)
    <2>1. CreateAccepted(m)'
      BY <1>1, <1>4 DEF CreateAccepted, SameTerms
    <2> QED BY <1>3, <1>4, <2>1 DEF Succeeds
  <1>5. CASE o.op = "create" /\ CreateAndBuyAccepted(m, o.budget, o.least)
    <2>1. CreateAndBuyAccepted(m, o.budget, o.least)'
      BY <1>1, <1>2, <1>5
         DEF CreateAndBuyAccepted, CreateAccepted, SameTerms
    <2> QED BY <1>3, <1>5, <2>1 DEF Succeeds
  <1>6. CASE o.op = "buy" /\ BuyAccepted(m, o.budget, o.least)
    <2>1. BuyAccepted(m, o.budget, o.least)'
      BY <1>1, <1>2, <1>6 DEF BuyAccepted, SameTerms
    <2> QED BY <1>3, <1>6, <2>1 DEF Succeeds
  <1>7. CASE o.op = "sell" /\ SellAccepted(m, o.amount, o.least)
    <2>1. Stuck(curve[m], now) => Stuck(curve'[m], now')
      BY <1>1, StuckStays
    <2>2. SellAccepted(m, o.amount, o.least)'
      BY <1>1, <1>2, <1>7, <2>1 DEF SellAccepted, SameTerms
    <2> QED BY <1>3, <1>7, <2>2 DEF Succeeds
  <1>8. CASE o.op = "update-config" /\ Valid(o.params)
    BY <1>3, <1>8 DEF Succeeds
  <1>9. CASE o.op = "pause"
    BY <1>3, <1>9 DEF Succeeds
  <1> QED BY <1>4, <1>5, <1>6, <1>7, <1>8, <1>9 DEF Succeeds

\* A session whose accounts did not move, or that knows they did.
LEMMA StillWell ==
  ASSUME IInv, IInv', NEW most \in Nat, Orderly(most), NEW r, Deal(r), Well(r),
         r.phase = "reading" => ~r.got.known,
         NEW x, x.phase = r.phase, x.cmd = r.cmd, x.mint = r.mint,
         x.known = r.known, x.curve = r.curve, x.config = r.config,
         x.quote = r.quote, x.order = r.order, x.got = r.got,
         x.unsure = r.unsure,
         ~x.moved => ~r.moved /\ (Waiting(r) => SameTerms(r.mint))
  PROVE  Well(x)'
  <1> DEFINE m == r.mint
  <1>1. AsQuoted(x)
    BY DEF Well, AsQuoted
  <1>2. Poised(x)'
    <2> SUFFICES ASSUME r.phase = "reading", ~x.moved, ~r.unsure
                 PROVE  /\ "config" \in r.known => ~r.config.tradingPaused
                        /\ "curve" \in r.known =>
                             /\ r.curve = curve'[m]
                             /\ Tradable(r.cmd.op, curve'[m], now')
                        /\ r.cmd.op = "create" => curve'[m].status = "Absent"
      BY DEF Poised
    <2>1. m \in Mints
      BY DEF Deal, Asked
    <2>2. SameTerms(m)
      BY DEF Waiting
    <2>3. Tradable(r.cmd.op, curve[m], now) => Tradable(r.cmd.op, curve[m], now')
      BY <2>1, StuckStays DEF Tradable, CanSell, Stuck
    <2> QED BY <2>2, <2>3 DEF Well, Poised, SameTerms
  <1>3. Foresees(x)'
    <2> SUFFICES ASSUME r.phase \in {"signed", "sent", "confirming"},
                        ~r.got.known, ~x.moved, ~r.unsure,
                        r.cmd.op = "update-config" => Valid(r.order.params),
                        NEW o, o = r.order
                 PROVE  Succeeds(o)' /\ Effect(o)' = r.quote
      BY DEF Foresees
    <2>1. SameTerms(m) /\ ~r.moved
      BY DEF Waiting
    <2>2. Succeeds(o) /\ Effect(o) = r.quote
      BY <2>1 DEF Well, Foresees
    <2>3. o.mint = m /\ m \in Mints
      BY DEF Deal, Asked, Agreed
    <2> QED BY <2>1, <2>2, <2>3, StillForeseen
  <1> QED BY <1>1, <1>2, <1>3 DEF Well

\* What a transaction does is its effect, and that only to its own token.
LEMMA ExecutedOrderly ==
  ASSUME IInv, NEW most \in Nat, NEW o, o.mint \in Mints, Execute(o),
         o.op \in {"buy", "create"} => o.budget \in Nat /\ o.budget <= most,
         o.op = "sell" => o.amount \in Int
  PROVE  /\ Orderly(most)
         /\ circulating'[o.mint] - circulating[o.mint] = Effect(o).tokens
         /\ lamports'[o.mint] - lamports[o.mint] = Effect(o).sol
         /\ o.op # "sell" => circulating[o.mint] <= circulating'[o.mint]
         /\ \A n \in Mints : n # o.mint => circulating'[n] = circulating[n]
  <1> DEFINE m == o.mint
  <1>1. Rest /\ MintTypes
    BY IInvParts
  <1>2. CASE o.op = "buy" /\ Buy(m, o.budget, o.least)
    <2>1. Effect(o).tokens = BuyQuote(m, o.budget).tokens
          /\ Effect(o).sol = BuyQuote(m, o.budget).totalCost
      BY <1>2 DEF Effect
    <2>2. \A n \in Mints : n # m => circulating'[n] = circulating[n]
      BY <1>1, <1>2 DEF Buy, MintTypes
    <2> QED BY <1>2, <2>1, <2>2, BuyOrderly
  <1>3. CASE o.op = "create" /\ CreateAndBuy(m, o.budget, o.least)
    <2>1. Effect(o).tokens = FirstQuote(o.budget).tokens
          /\ Effect(o).sol = FirstQuote(o.budget).totalCost
      BY <1>3 DEF Effect
    <2>2. \A n \in Mints : n # m => circulating'[n] = circulating[n]
      BY <1>1, <1>3 DEF CreateAndBuy, MintTypes
    <2> QED BY <1>3, <2>1, <2>2, CreateAndBuyOrderly
  <1>4. CASE o.op = "sell" /\ Sell(m, o.amount, o.least)
    <2>1. Effect(o).tokens = -SellQuote(m, o.amount).tokens
          /\ Effect(o).sol = -SellQuote(m, o.amount).solOut
      BY <1>4 DEF Effect
    <2>2. \A n \in Mints : n # m => circulating'[n] = circulating[n]
      BY <1>1, <1>4 DEF Sell, MintTypes
    <2> QED BY <1>4, <2>1, <2>2, SellOrderly
  <1>5. ASSUME o.op \notin {"buy", "create", "sell"}, Orderly(most),
               UNCHANGED <<lamports, circulating>>
        PROVE  /\ circulating'[m] - circulating[m] = Effect(o).tokens
               /\ lamports'[m] - lamports[m] = Effect(o).sol
               /\ circulating[m] <= circulating'[m]
               /\ \A n \in Mints : n # m => circulating'[n] = circulating[n]
    <2>1. Effect(o).tokens = 0 /\ Effect(o).sol = 0
      BY <1>5 DEF Effect, NoQuote
    <2>2. circulating[m] \in Nat /\ lamports[m] \in Nat
      BY <1>1 DEF MintTypes
    <2> QED BY <1>5, <2>1, <2>2
  <1>6. CASE o.op = "launch" /\ CreateToken(m)
    BY <1>5, <1>6, CreateOrderly
  <1>7. CASE \/ o.op = "update-config" /\ UpdateConfig(config.admin, o.params)
             \/ o.op = "pause" /\ SetPaused(config.admin, o.flags.createPaused,
                                            o.flags.tradingPaused)
    <2>1. UNCHANGED <<curve, lamports, vault, circulating, trades, now>>
      BY <1>7 DEF UpdateConfig, SetPaused, curveVars
    <2>2. Orderly(most)
      BY <1>1, <2>1, NothingOrderly
    <2> QED BY <1>5, <1>7, <2>1, <2>2
  <1> QED BY <1>2, <1>3, <1>4, <1>6, <1>7 DEF Execute

\* The others trade with tokens of their own.
LEMMA WorldOrderly ==
  ASSUME ClientAssumption, IInv, HeldInv, NEW most \in Nat, RoomToTrade(most),
         World
  PROVE  /\ Orderly(most)
         /\ \A m \in Mints : Cardinality(Held(m)) <= circulating'[m]
  <1>1. Rest /\ MintTypes
    BY IInvParts
  <1>2. \A m \in Mints : /\ circulating[m] \in Nat /\ Cardinality(Held(m)) \in Nat
                         /\ Cardinality(Held(m)) <= circulating[m]
    BY <1>1, FS_CardinalityType DEF HeldInv, MintTypes
  <1>3. ASSUME NEW n \in Mints, NEW b \in BuyBudgets, Buy(n, b, 0)
        PROVE  /\ Orderly(most)
               /\ \A m \in Mints : Cardinality(Held(m)) <= circulating'[m]
    <2>1. b \in Nat /\ b <= most
      BY BudgetIsNat DEF RoomToTrade
    <2>2. Orderly(most) /\ circulating[n] <= circulating'[n]
      BY <1>3, <2>1, BuyOrderly
    <2>3. PICK x : circulating' = [circulating EXCEPT ![n] = circulating[n] + x]
      BY <1>3 DEF Buy
    <2>4. \A m \in Mints : m # n => circulating'[m] = circulating[m]
      BY <1>1, <2>3 DEF MintTypes
    <2>5. circulating'[n] \in Nat
      <3>1. IInv'
        BY <1>3, <2>1, BuyStep
      <3> QED BY <3>1 DEF IInv, TypeOK
    <2>6. Cardinality(Held(n)) <= circulating'[n]
      BY <1>2, <2>2, <2>5
    <2> QED BY <1>2, <2>2, <2>4, <2>6
  <1>4. ASSUME NEW n \in Mints, NEW t \in 1 .. Others(n), Sell(n, t, 0)
        PROVE  /\ Orderly(most)
               /\ \A m \in Mints : Cardinality(Held(m)) <= circulating'[m]
    <2>1. Orderly(most)
      BY <1>4, SellOrderly
    <2>2. circulating' = [circulating EXCEPT ![n] = circulating[n] - t]
      BY <1>4 DEF Sell
    <2>3. /\ \A m \in Mints : m # n => circulating'[m] = circulating[m]
          /\ circulating'[n] = circulating[n] - t
      BY <1>1, <2>2 DEF MintTypes
    <2>4. Cardinality(Held(n)) <= circulating'[n]
      BY <1>2, <2>3 DEF Others
    <2> QED BY <1>2, <2>1, <2>3, <2>4
  <1>5. ASSUME NEW n \in Mints, CreateToken(n) \/ Migrate(n)
        PROVE  /\ Orderly(most)
               /\ \A m \in Mints : Cardinality(Held(m)) <= circulating'[m]
    <2>1. Orderly(most)
      BY <1>5, CreateOrderly, MigrateOrderly
    <2>2. circulating' = circulating
      BY <1>5 DEF CreateToken, Migrate
    <2> QED BY <1>2, <2>1, <2>2
  <1>6. ASSUME now' = now \/ now' = now + 1,
               UNCHANGED <<curve, lamports, vault, circulating, trades>>
        PROVE  /\ Orderly(most)
               /\ \A m \in Mints : Cardinality(Held(m)) <= circulating'[m]
    BY <1>1, <1>2, <1>6, NothingOrderly
  <1>7. CASE (\E p \in ParamSets : UpdateConfig(config.admin, p)) \/ Tick
             \/ (\E cp, tp \in BOOLEAN : SetPaused(config.admin, cp, tp))
    <2>1. now' = now \/ now' = now + 1
      BY <1>7 DEF UpdateConfig, SetPaused, Tick
    <2>2. UNCHANGED <<curve, lamports, vault, circulating, trades>>
      BY <1>7 DEF UpdateConfig, SetPaused, Tick, curveVars
    <2> QED BY <1>6, <2>1, <2>2
  <1> QED BY <1>3, <1>4, <1>5, <1>7 DEF World

\* SOL is raised by at most so much a trade.
LEMMA RaisedKept ==
  ASSUME IInv, IInv', NEW most \in Nat, RaisedInv(most), Orderly(most)
  PROVE  RaisedInv(most)'
  <1> SUFFICES ASSUME NEW m \in Mints
               PROVE  lamports'[m] <= trades' * most
    BY DEF RaisedInv
  <1>1. /\ lamports[m] \in Nat /\ lamports'[m] \in Nat /\ trades \in Nat
        /\ lamports[m] <= trades * most
    BY LaunchpadAssumption DEF IInv, TypeOK, RaisedInv
  <1>2. (trades + 1) * most = trades * most + most
    BY <1>1
  <1> DEFINE x == trades * most
  <1>3. x \in Nat
    BY <1>1
  <1>4. \/ trades' = trades /\ lamports'[m] <= lamports[m]
        \/ trades' = trades + 1 /\ lamports'[m] <= lamports[m] + most
    BY DEF Orderly, Spent
  <1>5. CASE trades' = trades /\ lamports'[m] <= lamports[m]
    <2>1. lamports'[m] <= x
      <3> HIDE DEF x
      <3> QED BY <1>1, <1>3, <1>5 DEF x
    <2> QED BY <1>5, <2>1
  <1>6. CASE trades' = trades + 1 /\ lamports'[m] <= lamports[m] + most
    <2>1. lamports[m] <= x
      BY <1>1
    <2>2. lamports'[m] <= x + most
      <3> HIDE DEF x
      <3> QED BY <1>1, <1>3, <1>6, <2>1
    <2> QED BY <1>2, <1>6, <2>2
  <1> QED BY <1>4, <1>5, <1>6

-----------------------------------------------------------------------------
(***************************************************************************)
(* The invariant is kept.                                                  *)
(***************************************************************************)

LEMMA WellPrimed ==
  ASSUME NEW t, NEW x, x = session'[t], Well(x)'
  PROVE  Well(session[t])'
  BY DEF Well, Poised, Foresees, AsQuoted

LEMMA SameWell ==
  ASSUME UNCHANGED chainVars, NEW x, Well(x)
  PROVE  Well(x)'
  <1>1. UNCHANGED <<config, curve, lamports, vault, circulating, now>>
    BY DEF chainVars, curveVars
  <1>2. \A o : /\ BuyQuote(o.mint, o.budget)' = BuyQuote(o.mint, o.budget)
               /\ SellQuote(o.mint, o.amount)' = SellQuote(o.mint, o.amount)
               /\ FirstQuote(o.budget)' = FirstQuote(o.budget)
    BY <1>1 DEF BuyQuote, SellQuote, FirstQuote
  <1>3. \A o : Effect(o)' = Effect(o)
    BY <1>2 DEF Effect
  <1>4. \A o : Succeeds(o) => Succeeds(o)'
    BY <1>1, <1>2 DEF Succeeds, CreateAccepted, CreateAndBuyAccepted,
                      BuyAccepted, SellAccepted
  <1> QED BY <1>1, <1>3, <1>4 DEF Well, Poised, Foresees, AsQuoted

Offers(s, r) ==
  Waiting(r) /\ r.cmd.op = "sell" => r.amount = balance[s][r.mint]

\* The chain rests.
LEMMA CalmFore ==
  ASSUME NEW most \in Nat, ForeseenInv(most), ReadInv',
         UNCHANGED <<chainVars, balance>>,
         \A t \in Sessions : \A x : x = session'[t] => Well(x) /\ Offers(t, x)
  PROVE  ForeseenInv(most)'
  <1>1. UNCHANGED <<circulating, lamports, trades>>
    BY DEF chainVars, curveVars
  <1>2. RaisedInv(most)'
    BY <1>1 DEF ForeseenInv, RaisedInv
  <1>3. \A m : Held(m)' = Held(m)
    BY DEF Held
  <1>4. HeldInv'
    BY <1>1, <1>3 DEF ForeseenInv, HeldInv, Offers, Waiting
  <1>5. ASSUME NEW t \in Sessions
        PROVE  Well(session[t])'
    <2>1. ASSUME NEW x, x = session'[t]
          PROVE  Well(x)'
      BY <2>1, SameWell
    <2> QED BY <2>1, WellPrimed
  <1> QED BY <1>2, <1>4, <1>5 DEF ForeseenInv

LEMMA ForeStep ==
  ASSUME NEW most \in Nat, ForeseenInv(most), ReadInv',
         UNCHANGED <<chainVars, balance>>,
         NEW s \in Sessions, NEW r, session' = [session EXCEPT ![s] = r],
         Well(r), Offers(s, r)
  PROVE  ForeseenInv(most)'
  <1>1. DOMAIN session = Sessions
    BY DEF ForeseenInv, ReadInv, DealInv, WaitInv, SessionsShaped
  <1>2. ASSUME NEW t \in Sessions, NEW x, x = session'[t]
        PROVE  Well(x) /\ Offers(t, x)
    <2>1. CASE t = s
      BY <1>1, <1>2, <2>1
    <2>2. CASE t # s
      <3>1. x = session[t]
        BY <1>1, <1>2, <2>2
      <3>2. Well(x)
        BY <3>1 DEF ForeseenInv
      <3>3. Offers(t, x)
        BY <3>1 DEF ForeseenInv, HeldInv, Offers
      <3> QED BY <3>2, <3>3
    <2> QED BY <2>1, <2>2
  <1> QED BY <1>2, CalmFore

LEMMA IdleWell ==
  ASSUME NEW x \in {Idle, [Idle EXCEPT !.phase = "thrown"]}, NEW s
  PROVE  Well(x) /\ Offers(s, x)
  <1>1. /\ x.phase \in {"idle", "thrown"} /\ ~x.got.known
    <2>1. CASE x = Idle
      BY <2>1, IdleShaped
    <2>2. CASE x = [Idle EXCEPT !.phase = "thrown"]
      BY <2>2, IdleShaped, PhaseOnly
    <2> QED BY <2>1, <2>2
  <1> QED BY <1>1 DEF Well, Poised, Foresees, AsQuoted, Offers, Waiting

\* A new phase of a session that waits, or stops waiting.
LEMMA PhaseWell ==
  ASSUME NEW r, Well(r), NEW s, Offers(s, r), NEW x,
         {r.phase, x.phase} \subseteq {"signed", "sent", "confirming"}
           \/ (x.phase \in {"done", "expired"}
                 \/ (x.phase = "refused" /\ r.got.known)),
         x.cmd = r.cmd, x.mint = r.mint, x.amount = r.amount,
         x.quote = r.quote, x.order = r.order, x.got = r.got,
         x.moved = r.moved, x.unsure = r.unsure
  PROVE  Well(x) /\ Offers(s, x)
  <1>1. Poised(x)
    BY DEF Poised
  <1>2. Foresees(x)
    BY DEF Well, Foresees
  <1>3. AsQuoted(x)
    BY DEF Well, AsQuoted
  <1>4. Offers(s, x)
    BY DEF Offers, Waiting
  <1> QED BY <1>1, <1>2, <1>3, <1>4 DEF Well

LEMMA StepFore ==
  ASSUME ClientAssumption, NEW most \in Nat, RoomToTrade(most),
         ForeseenInv(most), ReadInv', NEW s \in Sessions, Step(s)
  PROVE  ForeseenInv(most)'
  <1> DEFINE r == session[s]
  <1>r. /\ Deal(r) /\ Fresh(r) /\ IInv /\ HeldInv /\ RaisedInv(most)
        /\ Well(r) /\ Offers(s, r) /\ DealFields \subseteq DOMAIN r
        /\ DOMAIN session = Sessions
        /\ r.phase \in {"reading", "signed"} => ~r.got.known
    BY DEF ForeseenInv, ReadInv, DealInv, WaitInv, Unsent, SessionsShaped, Deal,
           HeldInv, Offers
  <1>0. ASSUME NEW x, session' = [session EXCEPT ![s] = x], Well(x),
               Offers(s, x), UNCHANGED <<chainVars, balance>>
        PROVE  ForeseenInv(most)'
    BY <1>0, ForeStep
  <1>1. ASSUME NEW m \in Mints, NEW cmd \in Commands, Begin(s, m, cmd)
        PROVE  ForeseenInv(most)'
    <2> DEFINE x == [Idle EXCEPT !.phase = "reading", !.cmd = cmd, !.mint = m,
                       !.amount = IF cmd.op = "sell" THEN balance[s][m] ELSE 0]
    <2>1. /\ session' = [session EXCEPT ![s] = x]
          /\ UNCHANGED <<chainVars, balance>>
          /\ cmd.op = "create" => curve[m].status = "Absent"
      BY <1>1 DEF Begin
    <2>2. /\ x.phase = "reading" /\ ~x.got.known /\ x.known = {}
          /\ x.cmd = cmd /\ x.mint = m
          /\ x.amount = IF cmd.op = "sell" THEN balance[s][m] ELSE 0
      BY DEF Idle, Pending
    <2> HIDE DEF x
    <2>3. Well(x)
      BY <2>1, <2>2 DEF Well, Poised, Foresees, AsQuoted
    <2>4. Offers(s, x)
      BY <2>2 DEF Offers
    <2> QED BY <1>0, <2>1, <2>3, <2>4
  <1>2. ASSUME NEW skew \in Skews, ReadCurve(s, skew)
        PROVE  ForeseenInv(most)'
    <2> DEFINE m == r.mint
               c == curve[m]
               x == [r EXCEPT !.known = @ \cup {"curve"}, !.curve = c,
                              !.unsure = @ \/ (c.status = "Complete" /\ skew > 0)]
    <2>1. r.phase = "reading" /\ UNCHANGED <<chainVars, balance>>
      BY <1>2 DEF ReadCurve, Reads
    <2>2. \/ session' = [session EXCEPT ![s] = [Idle EXCEPT !.phase = "thrown"]]
          \/ /\ session' = [session EXCEPT ![s] = x]
             /\ Tradable(r.cmd.op, c, now + skew)
      BY <1>2 DEF ReadCurve
    <2>3. CASE session' = [session EXCEPT ![s] = [Idle EXCEPT !.phase = "thrown"]]
      BY <1>0, <2>1, <2>3, IdleWell
    <2>4. CASE /\ session' = [session EXCEPT ![s] = x]
               /\ Tradable(r.cmd.op, c, now + skew)
      <3>1. /\ x.phase = "reading" /\ ~x.got.known /\ x.mint = m
            /\ x.cmd = r.cmd /\ x.amount = r.amount /\ x.config = r.config
            /\ x.known = r.known \cup {"curve"} /\ x.curve = c
            /\ x.moved = r.moved
            /\ x.unsure = (r.unsure \/ (c.status = "Complete" /\ skew > 0))
            /\ x.got = r.got
        BY <1>r, <2>1 DEF DealFields
      <3>2. ~(c.status = "Complete" /\ skew > 0) => Tradable(r.cmd.op, c, now)
        <4>1. m \in Mints
          BY <1>r, <2>1 DEF Deal, Asked
        <4>2. skew \in Int /\ now \in Nat /\ c.completedAt \in Nat
              /\ MigrationTimeout \in Nat
          BY <1>r, <4>1, IInvParts, TimeIsNat, CurveFields, LaunchpadAssumption
             DEF ClientAssumption, MintTypes
        <4> HIDE DEF c
        <4> QED BY <2>4, <4>2 DEF Tradable, CanSell
      <3> HIDE DEF x
      <3>3. Poised(x)
        BY <1>r, <2>1, <3>1, <3>2 DEF Well, Poised
      <3>4. Well(x)
        BY <3>1, <3>3 DEF Well, Foresees, AsQuoted
      <3>5. Offers(s, x)
        BY <1>r, <2>1, <3>1 DEF Offers, Waiting
      <3> QED BY <1>0, <2>1, <2>4, <3>4, <3>5
    <2> QED BY <2>2, <2>3, <2>4
  <1>3. CASE ReadConfig(s)
    <2> DEFINE x == [r EXCEPT !.known = @ \cup {"config"}, !.config = Seen,
                              !.unsure = @ \/ config.tradingPaused]
    <2>1. r.phase = "reading" /\ UNCHANGED <<chainVars, balance>>
      BY <1>3 DEF ReadConfig, Reads
    <2>2. session' = [session EXCEPT ![s] = x]
      BY <1>r, <1>3 DEF ReadConfig, Seen
    <2>3. /\ x.phase = "reading" /\ ~x.got.known /\ x.mint = r.mint
          /\ x.cmd = r.cmd /\ x.amount = r.amount
          /\ x.config.tradingPaused = config.tradingPaused
          /\ x.known = r.known \cup {"config"} /\ x.curve = r.curve
          /\ x.moved = r.moved /\ x.got = r.got
          /\ x.unsure = (r.unsure \/ config.tradingPaused)
      BY <1>r, <2>1 DEF DealFields, Seen
    <2> HIDE DEF x
    <2>4. Poised(x)
      BY <1>r, <2>1, <2>3 DEF Well, Poised
    <2>5. Well(x)
      BY <2>3, <2>4 DEF Well, Foresees, AsQuoted
    <2>6. Offers(s, x)
      BY <1>r, <2>1, <2>3 DEF Offers, Waiting
    <2> QED BY <1>0, <2>1, <2>2, <2>5, <2>6
  <1>4. CASE Build(s)
    <2>1. /\ r.phase = "reading" /\ r.known = Needs(r.cmd.op)
          /\ UNCHANGED <<chainVars, balance>>
      BY <1>4 DEF Build
    <2>2. PICK x : /\ session' = [session EXCEPT ![s] = x]
                   /\ \/ x = [Idle EXCEPT !.phase = "thrown"]
                      \/ /\ Quoted(r)
                         /\ x = [r EXCEPT !.phase = "signed", !.quote = Quote(r),
                                   !.order = Order(r), !.last = height + Window,
                                   !.curve = NoCurve, !.config = NoConfig]
      BY <1>4 DEF Build
    <2>3. CASE x = [Idle EXCEPT !.phase = "thrown"]
      BY <1>0, <2>1, <2>2, <2>3, IdleWell
    <2>4. CASE /\ Quoted(r)
               /\ x = [r EXCEPT !.phase = "signed", !.quote = Quote(r),
                         !.order = Order(r), !.last = height + Window,
                         !.curve = NoCurve, !.config = NoConfig]
      <3>1. /\ x.phase = "signed" /\ x.got = r.got /\ x.mint = r.mint
            /\ x.cmd = r.cmd /\ x.amount = r.amount /\ x.quote = Quote(r)
            /\ x.order = Order(r) /\ x.moved = r.moved /\ x.unsure = r.unsure
        BY <1>r, <2>4 DEF DealFields
      <3>2. Foresees(x)
        <4> SUFFICES ASSUME ~r.moved, ~r.unsure, NEW o, o = Order(r),
                            r.cmd.op = "update-config" => Valid(o.params)
                     PROVE  Succeeds(o) /\ Effect(o) = Quote(r)
          BY <3>1 DEF Foresees
        <4>1. Poised(r) /\ ~r.got.known
          BY <1>r, <2>1 DEF Well
        <4> QED BY <1>r, <2>1, <2>4, <4>1, BuildForeseen
      <3>3. ~x.got.known
        BY <1>r, <2>1, <3>1
      <3>4. Well(x)
        BY <3>1, <3>2, <3>3 DEF Well, Poised, AsQuoted
      <3>5. Offers(s, x)
        BY <1>r, <2>1, <3>1 DEF Offers, Waiting
      <3> QED BY <1>0, <2>1, <2>2, <3>4, <3>5
    <2> QED BY <2>2, <2>3, <2>4
  <1>5. ASSUME NEW p, UNCHANGED <<chainVars, balance>>,
               session' = [session EXCEPT ![s] = [r EXCEPT !.phase = p]],
               {r.phase, p} \subseteq {"signed", "sent", "confirming"}
                 \/ (p \in {"done", "expired"} \/ (p = "refused" /\ r.got.known))
        PROVE  ForeseenInv(most)'
    <2> DEFINE x == [r EXCEPT !.phase = p]
    <2>1. /\ x.phase = p /\ x.cmd = r.cmd /\ x.mint = r.mint
          /\ x.amount = r.amount /\ x.quote = r.quote /\ x.order = r.order
          /\ x.got = r.got /\ x.moved = r.moved /\ x.unsure = r.unsure
      BY <1>r DEF DealFields
    <2>2. session' = [session EXCEPT ![s] = x]
      BY <1>5
    <2> HIDE DEF x
    <2>3. Well(x) /\ Offers(s, x)
      BY <1>r, <1>5, <2>1, PhaseWell
    <2> QED BY <1>0, <1>5, <2>2, <2>3
  <1>6. CASE Send(s)
    <2>1. r.phase = "signed" /\ UNCHANGED <<chainVars, balance>>
      BY <1>6 DEF Send
    <2>2. CASE session' = [session EXCEPT ![s].phase = "sent"]
      BY <1>5, <2>1, <2>2
    <2>3. CASE /\ ~Succeeds(r.order)
               /\ session' = [session EXCEPT ![s].phase = "refused"]
      <3> DEFINE x == [r EXCEPT !.phase = "refused"]
                 o == r.order
      <3>1. /\ x.phase = "refused" /\ x.cmd = r.cmd /\ x.order = r.order
            /\ x.got = r.got /\ x.moved = r.moved /\ x.unsure = r.unsure
        BY <1>r DEF DealFields
      <3>2. session' = [session EXCEPT ![s] = x]
        BY <2>3
      <3> HIDE DEF x
      <3>3. r.moved \/ r.unsure
              \/ (r.cmd.op = "update-config" /\ ~Valid(r.order.params))
        <4>1. ~Succeeds(o) /\ Foresees(r) /\ ~r.got.known
          BY <1>r, <2>1, <2>3 DEF Well
        <4> QED BY <2>1, <4>1 DEF Foresees
      <3>4. Well(x)
        BY <3>1, <3>3 DEF Well, Poised, Foresees, AsQuoted
      <3>5. Offers(s, x)
        BY <3>1 DEF Offers, Waiting
      <3> QED BY <1>0, <2>1, <3>2, <3>4, <3>5
    <2> QED BY <1>6, <2>2, <2>3 DEF Send
  <1>7. CASE SendTooLate(s) \/ End(s)
    <2>1. PICK x \in {Idle, [Idle EXCEPT !.phase = "thrown"]} :
            session' = [session EXCEPT ![s] = x]
      BY <1>7 DEF SendTooLate, End
    <2>2. UNCHANGED <<chainVars, balance>>
      BY <1>7 DEF SendTooLate, End
    <2> QED BY <1>0, <2>1, <2>2, IdleWell
  <1>8. CASE Watch(s)
    <2> DEFINE x == [r EXCEPT !.phase = "confirming", !.until = Until]
    <2>1. r.phase = "sent" /\ UNCHANGED <<chainVars, balance>>
      BY <1>8 DEF Watch
    <2>2. session' = [session EXCEPT ![s] = x]
      BY <1>r, <1>8 DEF Watch
    <2>3. /\ x.phase = "confirming" /\ x.cmd = r.cmd /\ x.mint = r.mint
          /\ x.amount = r.amount /\ x.quote = r.quote /\ x.order = r.order
          /\ x.got = r.got /\ x.moved = r.moved /\ x.unsure = r.unsure
      BY <1>r DEF DealFields
    <2> HIDE DEF x
    <2>4. Well(x) /\ Offers(s, x)
      BY <1>r, <2>1, <2>3, PhaseWell
    <2> QED BY <1>0, <2>1, <2>2, <2>4
  <1>9. CASE Confirm(s) \/ Expire(s)
    <2>1. PICK p \in {"done", "refused", "expired"} :
            /\ session' = [session EXCEPT ![s] = [r EXCEPT !.phase = p]]
            /\ p = "refused" => r.got.known
      BY <1>9 DEF Confirm, Expire
    <2>2. UNCHANGED <<chainVars, balance>>
      BY <1>9 DEF Confirm, Expire
    <2>3. p \in {"done", "expired"} \/ (p = "refused" /\ r.got.known)
      BY <2>1
    <2>4. session' = [session EXCEPT ![s] = [r EXCEPT !.phase = p]]
      BY <2>1
    <2> HIDE DEF r
    <2> QED BY <1>5, <2>2, <2>3, <2>4
  <1> QED BY <1>1, <1>2, <1>3, <1>4, <1>6, <1>7, <1>8, <1>9 DEF Step

\* An order is one of a command, on the token the session is about.
LEMMA OrderWell ==
  ASSUME ClientAssumption, NEW most \in Nat, RoomToTrade(most),
         NEW r, Asked(r), Agreed(r), NEW o, o = r.order
  PROVE  /\ o.mint = r.mint /\ o.mint \in Mints
         /\ o.op \in {"buy", "create"} => o.budget \in Nat /\ o.budget <= most
         /\ o.op = "sell" => r.cmd.op = "sell" /\ o.amount = r.amount
                               /\ o.amount \in Int
  <1>1. /\ r.cmd \in Commands /\ r.cmd.budget \in Nat /\ r.cmd.budget <= most
        /\ r.cmd.op \in {"create", "buy", "sell", "update-config", "pause"}
    BY CommandFields DEF Asked, RoomToTrade
  <1>2. CASE Buys(r.cmd)
    BY <1>1, <1>2 DEF Agreed, Asked, Buys
  <1>3. CASE ~Buys(r.cmd) /\ r.cmd.op = "create"
    BY <1>3 DEF Agreed, Asked
  <1>4. CASE r.cmd.op \in {"sell", "update-config", "pause"}
    BY <1>4 DEF Agreed, Asked
  <1> QED BY <1>1, <1>2, <1>3, <1>4 DEF Buys

\* Somebody else's step.
LEMMA StirredWell ==
  ASSUME DealInv, IInv', NEW most \in Nat, Orderly(most),
         NEW t \in Sessions, Well(session[t]), Offers(t, session[t]),
         NEW x, x = Stirred(t)
  PROVE  /\ Well(x)'
         /\ Waiting(x) /\ x.cmd.op = "sell" => x.amount = balance[t][x.mint]
  <1> DEFINE r == session[t]
  <1>1. /\ Deal(r) /\ IInv /\ DealFields \subseteq DOMAIN r
        /\ r.phase = "reading" => ~r.got.known
    BY DEF DealInv, WaitInv, Unsent, Deal
  <1>2. /\ x.phase = r.phase /\ x.cmd = r.cmd /\ x.mint = r.mint
        /\ x.known = r.known /\ x.curve = r.curve /\ x.config = r.config
        /\ x.quote = r.quote /\ x.order = r.order /\ x.got = r.got
        /\ x.unsure = r.unsure /\ x.amount = r.amount
        /\ x.moved = (r.moved \/ (/\ r.phase \in {"reading", "signed", "sent",
                                                  "confirming"}
                                  /\ ~r.got.known /\ Moves(r.mint)))
    BY <1>1 DEF Stirred, DealFields
  <1>3. ~x.moved => ~r.moved /\ (Waiting(r) => SameTerms(r.mint))
    BY <1>2 DEF Waiting, Moves, SameTerms
  <1> HIDE DEF r
  <1>4. Well(r)
    BY DEF r
  <1>5. Well(x)'
    BY <1>1, <1>2, <1>3, <1>4, StillWell
  <1>6. Waiting(x) /\ x.cmd.op = "sell" => x.amount = balance[t][x.mint]
    BY <1>2 DEF Offers, Waiting, r
  <1> QED BY <1>5, <1>6

LEMMA WorldFore ==
  ASSUME ClientAssumption, NEW most \in Nat, RoomToTrade(most),
         ForeseenInv(most), ReadInv', World
  PROVE  ForeseenInv(most)'
  <1>1. DealInv /\ IInv /\ IInv' /\ HeldInv /\ RaisedInv(most)
    BY DEF ForeseenInv, ReadInv, DealInv
  <1>2. /\ Orderly(most)
        /\ \A m \in Mints : Cardinality(Held(m)) <= circulating'[m]
    BY <1>1, WorldOrderly
  <1>3. RaisedInv(most)'
    BY <1>1, <1>2, RaisedKept
  <1>4. balance' = balance /\ \A t \in Sessions : session'[t] = Stirred(t)
    BY DEF World
  <1>5. ASSUME NEW t \in Sessions, NEW x, x = session'[t]
        PROVE  /\ Well(x)'
               /\ Waiting(x) /\ x.cmd.op = "sell" => x.amount = balance[t][x.mint]
    <2>1. Well(session[t]) /\ Offers(t, session[t])
      BY <1>1 DEF ForeseenInv, HeldInv, Offers
    <2>2. x = Stirred(t)
      BY <1>4, <1>5
    <2> QED BY <1>1, <1>2, <2>1, <2>2, StirredWell
  <1>6. \A m : Held(m)' = Held(m)
    BY <1>4 DEF Held
  <1>7. HeldInv'
    BY <1>1, <1>2, <1>4, <1>5, <1>6 DEF HeldInv, Waiting
  <1>8. \A t \in Sessions : Well(session[t])'
    BY <1>5, WellPrimed
  <1> QED BY <1>3, <1>7, <1>8 DEF ForeseenInv

LEMMA RefusedFore ==
  ASSUME NEW most \in Nat, ForeseenInv(most), ReadInv',
         NEW f \in flight, LandRefused(f)
  PROVE  ForeseenInv(most)'
  <1> DEFINE s == f.by
             r == session[s]
             o == f.order
             x == [r EXCEPT !.got = [r.got EXCEPT !.known = TRUE]]
  <1>1. /\ s \in Sessions /\ r.phase \in {"sent", "confirming"} /\ ~r.got.known
        /\ DealFields \subseteq DOMAIN r /\ Well(r) /\ o = r.order
        /\ DOMAIN session = Sessions
        /\ "known" \in DOMAIN r.got
    BY DEF ForeseenInv, ReadInv, DealInv, WaitInv, SessionsShaped, Awaited, Deal
  <1>2. /\ session' = [session EXCEPT ![s] = x]
        /\ UNCHANGED <<chainVars, balance>> /\ ~Succeeds(o)
    BY <1>1 DEF LandRefused
  <1>3. /\ x.phase = r.phase /\ x.cmd = r.cmd /\ x.order = r.order
        /\ x.got.known /\ x.moved = r.moved /\ x.unsure = r.unsure
    BY <1>1 DEF DealFields
  <1> HIDE DEF x, o, r
  <1>4. r.moved \/ r.unsure
          \/ (r.cmd.op = "update-config" /\ ~Valid(r.order.params))
    BY <1>1, <1>2 DEF Well, Foresees
  <1>5. Well(x)
    BY <1>1, <1>3, <1>4 DEF Well, Poised, Foresees, AsQuoted
  <1>6. Offers(s, x)
    BY <1>3 DEF Offers, Waiting
  <1> QED BY <1>1, <1>2, <1>5, <1>6, ForeStep

\* A transaction is executed as its session foresaw, and everybody learns of
\* what it moved.
LEMMA LandFore ==
  ASSUME ClientAssumption, NEW most \in Nat, RoomToTrade(most),
         ForeseenInv(most), ReadInv', NEW f \in flight, Land(f)
  PROVE  ForeseenInv(most)'
  <1> DEFINE s == f.by
             r == session[s]
             o == f.order
             m == o.mint
             tokens == circulating'[m] - circulating[m]
             sol == lamports'[m] - lamports[m]
             got == [ok |-> TRUE, tokens |-> tokens, sol |-> sol, known |-> TRUE]
  <1>0. PICK x : x = [r EXCEPT !.got = got]
    OBVIOUS
  <1>1. /\ s \in Sessions /\ r.phase \in {"sent", "confirming"} /\ ~r.got.known
        /\ Deal(r) /\ DealFields \subseteq DOMAIN r /\ Well(r) /\ o = r.order
        /\ DealInv /\ IInv /\ HeldInv /\ RaisedInv(most) /\ IInv'
    BY DEF ForeseenInv, ReadInv, DealInv, WaitInv, Awaited, Deal
  <1>2. Asked(r) /\ Agreed(r)
    BY <1>1 DEF Deal
  <1>3. /\ m = r.mint /\ m \in Mints
        /\ o.op \in {"buy", "create"} => o.budget \in Nat /\ o.budget <= most
        /\ o.op = "sell" => r.cmd.op = "sell" /\ o.amount = r.amount
                              /\ o.amount \in Int
    BY <1>1, <1>2, OrderWell
  <1>4. /\ Execute(o)
        /\ balance' = [balance EXCEPT ![s][m] = @ + tokens]
        /\ session' = [t \in Sessions |-> IF t # s THEN Stirred(t) ELSE x]
    BY <1>0 DEF Land
  <1>5. /\ \A t \in Sessions : t # s => session'[t] = Stirred(t)
        /\ session'[s] = x
    BY <1>1, <1>4
  <1>6. /\ Orderly(most)
        /\ tokens = Effect(o).tokens /\ sol = Effect(o).sol
        /\ o.op # "sell" => circulating[m] <= circulating'[m]
        /\ \A n \in Mints : n # m => circulating'[n] = circulating[n]
    BY <1>1, <1>3, <1>4, ExecutedOrderly
  <1>7. RaisedInv(most)'
    BY <1>1, <1>6, RaisedKept
  <1>8. balance[s][m] \in Nat /\ circulating[m] \in Nat /\ circulating'[m] \in Nat
    BY <1>1, <1>3 DEF HeldInv, IInv, TypeOK
  <1>9. tokens \in Int /\ balance[s][m] + tokens \in Nat
    <2>1. CASE o.op # "sell"
      BY <1>6, <1>8, <2>1
    <2>2. CASE o.op = "sell"
      <3>1. Sell(m, o.amount, o.least)
        BY <1>4, <2>2 DEF Execute
      <3>2. tokens = -o.amount
        BY <1>1, <1>3, <2>2, <3>1, SellPays
      <3>3. o.amount = balance[s][m]
        BY <1>1, <1>3, <2>2 DEF HeldInv, Waiting
      <3> QED BY <1>8, <3>2, <3>3
    <2> QED BY <2>1, <2>2
  <1>10. /\ x.phase = r.phase /\ x.cmd = r.cmd /\ x.order = r.order
         /\ x.quote = r.quote /\ x.got = got /\ x.moved = r.moved
         /\ x.unsure = r.unsure
    BY <1>0, <1>1 DEF DealFields
  <1>11. Well(x)'
    <2>1. x.got.known
      BY <1>10
    <2>2. AsQuoted(x)
      <3> SUFFICES ASSUME ~r.moved, ~r.unsure,
                          r.cmd.op = "update-config" => Valid(r.order.params)
                   PROVE  x.got = [ok |-> TRUE, tokens |-> r.quote.tokens,
                                   sol |-> r.quote.sol, known |-> TRUE]
        BY <1>10 DEF AsQuoted
      <3>1. Effect(o) = r.quote
        BY <1>1 DEF Well, Foresees
      <3> QED BY <1>6, <1>10, <3>1
    <2> QED BY <1>1, <1>10, <2>1, <2>2 DEF Well, Poised, Foresees
  <1>12. ASSUME NEW t \in Sessions, NEW y, y = session'[t], t # s
         PROVE  /\ Well(y)'
                /\ Waiting(y) /\ y.cmd.op = "sell" => y.amount = balance[t][y.mint]
    <2>1. Well(session[t]) /\ Offers(t, session[t])
      BY <1>1 DEF ForeseenInv, HeldInv, Offers
    <2>2. y = Stirred(t)
      BY <1>5, <1>12
    <2> QED BY <1>1, <1>6, <2>1, <2>2, StirredWell
  <1>13. \A t \in Sessions : Well(session[t])'
    BY <1>5, <1>11, <1>12, WellPrimed
  <1> HIDE DEF tokens
  <1>14. /\ balance' \in [Sessions -> [Mints -> Nat]]
         /\ \A t \in Sessions : t # s => balance'[t] = balance[t]
         /\ \A t \in Sessions, n \in Mints : n # m => balance'[t][n] = balance[t][n]
    <2>1. balance \in [Sessions -> [Mints -> Nat]]
      BY <1>1 DEF HeldInv
    <2> QED BY <1>1, <1>3, <1>4, <1>9, <2>1
  <1>15. ASSUME NEW n \in Mints
         PROVE  /\ IsFiniteSet(Held(n)')
                /\ Cardinality(Held(n)') <= circulating'[n]
    <2>1. /\ IsFiniteSet(Held(n)) /\ Cardinality(Held(n)) <= circulating[n]
          /\ balance \in [Sessions -> [Mints -> Nat]]
      BY <1>1 DEF HeldInv
    <2>2. CASE n = m
      <3>1. /\ IsFiniteSet(Held(m)')
            /\ Cardinality(Held(m)') = Cardinality(Held(m)) + tokens
        BY <1>1, <1>3, <1>4, <1>9, <2>1, <2>2, HeldAfter
      <3>2. Cardinality(Held(m)) \in Nat
        BY <2>1, <2>2, FS_CardinalityType
      <3> QED BY <1>8, <1>9, <2>1, <2>2, <3>1, <3>2 DEF tokens
    <2>3. CASE n # m
      <3>1. Held(n)' = Held(n)
        BY <1>14, <2>3 DEF Held
      <3> QED BY <1>6, <2>1, <2>3, <3>1
    <2> QED BY <2>2, <2>3
  <1>16. ASSUME NEW t \in Sessions, Waiting(session'[t]),
                session'[t].cmd.op = "sell"
         PROVE  session'[t].amount = balance'[t][session'[t].mint]
    <2>1. t # s
      BY <1>5, <1>10, <1>16 DEF Waiting
    <2> QED BY <1>12, <1>14, <1>16, <2>1
  <1>17. HeldInv'
    BY <1>14, <1>15, <1>16 DEF HeldInv, Waiting
  <1> QED BY <1>7, <1>13, <1>17 DEF ForeseenInv

LEMMA ForeAtFirst ==
  ASSUME NEW most \in Nat, ClientInit
  PROVE  ForeseenInv(most)
  <1>1. ReadInv
    BY ReadsAtFirst
  <1>2. /\ balance = [s \in Sessions |-> [m \in Mints |-> 0]]
        /\ session = [s \in Sessions |-> Idle]
        /\ circulating = [m \in Mints |-> 0] /\ lamports = [m \in Mints |-> 0]
        /\ trades = 0
    BY DEF ClientInit, Init
  <1>3. RaisedInv(most)
    BY <1>2 DEF RaisedInv
  <1>4. \A m \in Mints : Held(m) = {}
    BY <1>2 DEF Held
  <1>5. \A m \in Mints : IsFiniteSet(Held(m)) /\ Cardinality(Held(m)) = 0
    BY <1>4, FS_EmptySet
  <1>6. \A s \in Sessions : Well(session[s]) /\ Offers(s, session[s])
    BY <1>2, IdleWell
  <1>7. HeldInv
    BY <1>2, <1>5, <1>6 DEF HeldInv, Offers
  <1> QED BY <1>1, <1>3, <1>6, <1>7 DEF ForeseenInv

LEMMA ForeKept ==
  ASSUME ClientAssumption, NEW most \in Nat, RoomToTrade(most),
         ForeseenInv(most), [ClientNext]_<<chainVars, clientVars>>
  PROVE  ForeseenInv(most)'
  <1>1. ReadInv'
    BY ReadsKept DEF ForeseenInv
  <1>2. CASE UNCHANGED <<chainVars, balance, session>>
    <2>1. ASSUME NEW t \in Sessions, NEW x, x = session'[t]
          PROVE  Well(x) /\ Offers(t, x)
      BY <1>2, <2>1 DEF ForeseenInv, HeldInv, Offers
    <2> QED BY <1>1, <1>2, <2>1, CalmFore
  <1>3. CASE NewBlock
    BY <1>2, <1>3 DEF NewBlock
  <1>4. CASE UNCHANGED <<chainVars, clientVars>>
    BY <1>2, <1>4 DEF clientVars
  <1> QED BY <1>1, <1>3, <1>4, StepFore, LandFore, RefusedFore, WorldFore
          DEF ClientNext

\* If nothing moved while it was under way, a transaction that the client
\* built on what it read is carried out, and exactly as quoted, for any number
\* of wallets, commands, tokens and curves: the client's checks and quotes are
\* those of the program.  For the sums of the program to stay within a u64, no
\* budget may exceed `most', and the trades with that budget must leave room
\* above the virtual reserve of the launch.
THEOREM QuotesHold ==
  ASSUME NEW most \in Nat, RoomToTrade(most)
  PROVE  ClientSpec => []QuoteHoldsUnlessMoved
  <1>1. ClientInit => ForeseenInv(most)
    BY ForeAtFirst
  <1>2. ForeseenInv(most) /\ [ClientNext]_<<chainVars, clientVars>>
          => ForeseenInv(most)'
    BY ForeKept, ClientAssumption
  <1>3. ForeseenInv(most) => QuoteHoldsUnlessMoved
    BY DEF ForeseenInv, Well, QuoteHoldsUnlessMoved
  <1> QED BY <1>1, <1>2, <1>3, PTL DEF ClientSpec

=============================================================================
