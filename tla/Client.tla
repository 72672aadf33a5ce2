------------------------------- MODULE Client -------------------------------
(***************************************************************************)
(* People who use the program through the SDK client and the command line  *)
(* (sdk/src/client.ts, scripts/cli.ts), while everybody else goes on       *)
(* trading, migrating and administering.  A command reads accounts one by  *)
(* one, quotes, asks for a blockhash, signs, sends and waits; every await  *)
(* is a step, and the chain moves in between.                              *)
(***************************************************************************)
EXTENDS Launchpad, SdkMath, FiniteSets

CONSTANTS
  Sessions,     \* processes of the command line, each with its own wallet
  Commands,     \* [op, budget, changes]: what may be asked of the command line
  SlippageBps,  \* --slippage-bps
  Skews,        \* seconds the clock of a client is ahead of the chain's
  Window,       \* blocks for which a blockhash can be used
  MaxHeight,    \* bound: blocks
  MaxCommands,  \* bound: commands
  MaxOthers     \* bound: trades of other people

PauseFlags == [createPaused : BOOLEAN, tradingPaused : BOOLEAN]

\* The values with those that are given replaced.
Amended(values, changes) ==
  [x \in DOMAIN values |-> IF x \in DOMAIN changes THEN changes[x] ELSE values[x]]

\* Terms and flags stay terms and flags when a command replaces some of them.
ASSUME ClientAssumption ==
  /\ SlippageBps \in 0 .. BPS
  /\ \A cmd \in Commands :
       /\ cmd.op \in {"create", "buy", "sell", "update-config", "pause"}
       /\ cmd.budget \in Amount
       /\ cmd.op = "update-config" =>
            \A p \in ParamSets : Amended(p, cmd.changes) \in ParamSets
       /\ cmd.op = "pause" =>
            \A f \in PauseFlags : Amended(f, cmd.changes) \in PauseFlags
  /\ Skews \subseteq Int
  /\ Window \in Nat \ {0}
  /\ MaxTrades >= MaxOthers + MaxCommands

\* The widths of the accounts leave room for MaxTrades trades, and one more,
\* of at most most each: the client does not look at them.  (All lamports
\* there are, about 6 * 10^17, are a thirtieth of what a u64 holds.)
RoomToTrade(most) ==
  /\ \A b \in BuyBudgets : b <= most
  /\ \A cmd \in Commands : cmd.budget <= most
  /\ \A p \in ValidParams : p.vs + (MaxTrades + 1) * most <= MaxU64

VARIABLES
  session,    \* the command each session is at
  balance,    \* tokens of each session's wallet, part of circulating
  flight,     \* transactions that may still be executed
  height,     \* block height
  commands    \* bound: commands so far

clientVars == <<session, balance, flight, height, commands>>
chainVars == <<config, curveVars, amm, now, trades>>

-----------------------------------------------------------------------------
(***************************************************************************)
(* Quoting.  A reading session r knows of curve and config what it read.   *)
(***************************************************************************)

\* Mutation: a complete curve is taken to accept sells.
CanSellComplete(c, nowSecs) == c.status \in {"Trading", "Complete"}

CanSell(c, nowSecs) ==
  \/ c.status = "Trading"
  \/ c.status = "Complete" /\ nowSecs >= c.completedAt + MigrationTimeout

\* requireTradingCurve returns instead of throwing.
Tradable(op, c, nowSecs) ==
  c.status = "Trading" \/ (op = "sell" /\ CanSell(c, nowSecs))

\* A launch is quoted against the reserves its curve will start with.
QuotedCurve(r) ==
  IF r.cmd.op = "create"
  THEN [vs |-> r.config.params.vs, vt |-> r.config.params.vt, rs |-> 0,
        rt |-> r.config.params.rt]
  ELSE r.curve

Buys(cmd) == cmd.op = "buy" \/ (cmd.op = "create" /\ cmd.budget > 0)

\* The quote as the change it announces: tokens to the wallet, SOL to the curve.
Quote(r) ==
  LET fees == r.config.params.fees
      b    == SdkQuoteBuy(QuotedCurve(r), r.cmd.budget, fees)
      s    == SdkQuoteSell(QuotedCurve(r), r.amount, fees)
  IN CASE Buys(r.cmd) -> [tokens |-> b.tokens, sol |-> b.totalCost]
       [] r.cmd.op = "sell" -> [tokens |-> -s.tokens, sol |-> -s.solOut]
       [] OTHER -> [tokens |-> 0, sol |-> 0]

\* The client builds the transaction instead of throwing.
Quoted(r) ==
  LET fees == r.config.params.fees
  IN /\ r.cmd.op = "create" => ~r.config.createPaused
     /\ Buys(r.cmd) => SdkBuyQuoted(QuotedCurve(r), r.cmd.budget, fees)
     /\ r.cmd.op = "sell" => SdkSellQuoted(r.curve, r.amount, fees)

Flags(c) == [createPaused |-> c.createPaused, tradingPaused |-> c.tradingPaused]

\* Mutation: an option that is not given is switched off.
UngivenOff(r) ==
  Amended([flag \in {"createPaused", "tradingPaused"} |-> FALSE], r.cmd.changes)

\* pause without an option keeps the flag that was read.
FlagsAfter(r) == Amended(Flags(r.config), r.cmd.changes)

\* The instructions, with the arguments the program will see.  update-config
\* fills in the values that were read for the options it is not given.
Order(r) ==
  LET q == Quote(r)
  IN CASE Buys(r.cmd) ->
            [op |-> r.cmd.op, mint |-> r.mint, budget |-> r.cmd.budget,
             least |-> ApplySlippageDown(q.tokens, SlippageBps)]
       [] r.cmd.op = "sell" ->
            [op |-> "sell", mint |-> r.mint, amount |-> r.amount,
             least |-> ApplySlippageDown(-q.sol, SlippageBps)]
       [] r.cmd.op = "create" /\ ~Buys(r.cmd) -> [op |-> "launch", mint |-> r.mint]
       [] r.cmd.op = "update-config" ->
            [op |-> "update-config", mint |-> r.mint,
             params |-> Amended(r.config.params, r.cmd.changes)]
       [] r.cmd.op = "pause" ->
            [op |-> "pause", mint |-> r.mint, flags |-> FlagsAfter(r)]

-----------------------------------------------------------------------------
(***************************************************************************)
(* Execution.                                                              *)
(***************************************************************************)

FirstQuote(budget) ==
  LET c == NewCurve(config.params)
  IN QuoteBuy(c.vs, c.vt, c.rt, budget, config.params.fees)

\* create_token goes through, and then the creator's first buy.
CreateAndBuyAccepted(m, budget, minTokens) ==
  LET c == NewCurve(config.params)
      q == FirstQuote(budget)
  IN /\ CreateAccepted(m)
     /\ ~config.tradingPaused
     /\ BuyQuoted(c.vs, c.vt, c.rt, budget, config.params.fees)
     /\ q.tokens >= minTokens
     /\ Fits(c.vs + q.sol)

\* create_token and the creator's first buy, in one transaction.
CreateAndBuy(m, budget, minTokens) ==
  LET p == config.params
      c == NewCurve(p)
      q == FirstQuote(budget)
  IN /\ trades < MaxTrades
     /\ CreateAndBuyAccepted(m, budget, minTokens)
     /\ curve' = [curve EXCEPT ![m] = AfterBuy(c, q, now)]
     /\ lamports' = [lamports EXCEPT ![m] = @ + q.totalCost]
     /\ vault' = [vault EXCEPT ![m] = p.supply - q.tokens]
     /\ circulating' = [circulating EXCEPT ![m] = q.tokens]
     /\ launch' = [launch EXCEPT ![m] = p]
     /\ trades' = trades + 1
     /\ UNCHANGED <<config, stray, pool, burned, amm, now, gifts>>

\* What the program does with a transaction.  The sessions of the admin sign
\* with the admin's key.
Execute(o) ==
  \/ o.op = "launch" /\ CreateToken(o.mint)
  \/ o.op = "create" /\ CreateAndBuy(o.mint, o.budget, o.least)
  \/ o.op = "buy" /\ Buy(o.mint, o.budget, o.least)
  \/ o.op = "sell" /\ Sell(o.mint, o.amount, o.least)
  \/ o.op = "update-config" /\ UpdateConfig(config.admin, o.params)
  \/ o.op = "pause" /\ SetPaused(config.admin, o.flags.createPaused,
                                 o.flags.tradingPaused)

\* The program refuses it if and only if this is false.
Succeeds(o) ==
  \/ o.op = "launch" /\ CreateAccepted(o.mint)
  \/ o.op = "create" /\ CreateAndBuyAccepted(o.mint, o.budget, o.least)
  \/ o.op = "buy" /\ BuyAccepted(o.mint, o.budget, o.least)
  \/ o.op = "sell" /\ SellAccepted(o.mint, o.amount, o.least)
  \/ o.op = "update-config" /\ Valid(o.params)
  \/ o.op = "pause"

-----------------------------------------------------------------------------
(***************************************************************************)
(* A session: [phase, cmd, mint, amount, known, curve, config, quote,      *)
(* order, last, until, got] and two histories.  moved: what the command depends  *)
(* on has changed since it began and before it was executed.  unsure: the  *)
(* client saw trading paused, or its clock was ahead, and went on.         *)
(***************************************************************************)

NoCommand == [op |-> "none", budget |-> 0, changes |-> <<>>]
NoOrder == [op |-> "none"]
Pending == [ok |-> FALSE, tokens |-> 0, sol |-> 0, known |-> FALSE]
NoQuote == [tokens |-> 0, sol |-> 0]

\* No account read yet.
NoConfig == [params |-> <<>>, createPaused |-> FALSE, tradingPaused |-> FALSE]

Idle ==
  [phase |-> "idle", cmd |-> NoCommand, mint |-> CHOOSE m \in Mints : TRUE,
   amount |-> 0, known |-> {}, curve |-> NoCurve, config |-> NoConfig,
   quote |-> NoQuote, order |-> NoOrder, last |-> 0, until |-> 0, got |-> Pending,
   moved |-> FALSE, unsure |-> FALSE]

\* The accounts a command reads first.
Needs(op) == IF op \in {"buy", "sell"} THEN {"curve", "config"} ELSE {"config"}

Creating(m) ==
  \E s \in Sessions : session[s].cmd.op = "create" /\ session[s].mint = m

\* What sell --all sells is read first; a launch generates its mint.
Begin(s, m, cmd) ==
  /\ session[s].phase = "idle"
  /\ commands < MaxCommands
  /\ cmd.op = "create" => curve[m].status = "Absent" /\ ~Creating(m)
  /\ session' = [session EXCEPT ![s] =
       [Idle EXCEPT !.phase = "reading", !.cmd = cmd, !.mint = m,
                    !.amount = IF cmd.op = "sell" THEN balance[s][m] ELSE 0]]
  /\ commands' = commands + 1
  /\ UNCHANGED <<chainVars, balance, flight, height>>

Reads(s, account) ==
  /\ session[s].phase = "reading"
  /\ account \in Needs(session[s].cmd.op) \ session[s].known

\* fetchBondingCurve and the check that follows it, by the local clock.
ReadCurve(s, skew) ==
  LET r == session[s]
      c == curve[r.mint]
  IN /\ Reads(s, "curve")
     /\ session' = [session EXCEPT ![s] =
          IF Tradable(r.cmd.op, c, now + skew)
          THEN [r EXCEPT !.known = @ \cup {"curve"}, !.curve = c,
                         !.unsure = @ \/ (c.status = "Complete" /\ skew > 0)]
          ELSE [Idle EXCEPT !.phase = "thrown"]]
     /\ UNCHANGED <<chainVars, balance, flight, height, commands>>

ReadConfig(s) ==
  /\ Reads(s, "config")
  /\ session' = [session EXCEPT ![s].known = @ \cup {"config"},
       ![s].config = [params |-> config.params,
                      createPaused |-> config.createPaused,
                      tradingPaused |-> config.tradingPaused],
       ![s].unsure = @ \/ config.tradingPaused]
  /\ UNCHANGED <<chainVars, balance, flight, height, commands>>

\* The quote and, after one more request, the transaction and its blockhash.
Build(s) ==
  LET r == session[s]
  IN /\ r.phase = "reading" /\ r.known = Needs(r.cmd.op)
     /\ session' = [session EXCEPT ![s] =
          IF Quoted(r)
          THEN [r EXCEPT !.phase = "signed", !.quote = Quote(r),
                         !.order = Order(r), !.last = height + Window,
                         !.curve = NoCurve, !.config = NoConfig]
          ELSE [Idle EXCEPT !.phase = "thrown"]]
     /\ UNCHANGED <<chainVars, balance, flight, height, commands>>

\* sendTransaction: the node simulates before it passes the transaction on.
Send(s) ==
  LET r == session[s]
  IN /\ r.phase = "signed"
     /\ height <= r.last
     /\ IF Succeeds(r.order)
        THEN /\ session' = [session EXCEPT ![s].phase = "sent"]
             /\ flight' = flight \cup {[by |-> s, order |-> r.order, last |-> r.last]}
        ELSE /\ session' = [session EXCEPT ![s].phase = "refused"]
             /\ UNCHANGED flight
     /\ UNCHANGED <<chainVars, balance, height, commands>>

\* The node does not know the blockhash any more.
SendTooLate(s) ==
  /\ session[s].phase = "signed"
  /\ height > session[s].last
  /\ session' = [session EXCEPT ![s] = [Idle EXCEPT !.phase = "thrown"]]
  /\ UNCHANGED <<chainVars, balance, flight, height, commands>>

\* Mutation: the transaction is given up when the height is the one just seen.
UntilNow == height

\* The last height at which the latest blockhash can be used.
Until == height + Window

\* The blockhash fetched after sending says how long to wait.
Watch(s) ==
  /\ session[s].phase = "sent"
  /\ session' = [session EXCEPT ![s].phase = "confirming", ![s].until = Until]
  /\ UNCHANGED <<chainVars, balance, flight, height, commands>>

Confirm(s) ==
  /\ session[s].phase = "confirming"
  /\ session[s].got.known
  /\ session' = [session EXCEPT ![s].phase =
                   IF session[s].got.ok THEN "done" ELSE "refused"]
  /\ UNCHANGED <<chainVars, balance, flight, height, commands>>

Expire(s) ==
  /\ session[s].phase = "confirming"
  /\ height > session[s].until
  /\ session' = [session EXCEPT ![s].phase = "expired"]
  /\ UNCHANGED <<chainVars, balance, flight, height, commands>>

\* The process ends, whatever it has reported.
End(s) ==
  /\ session[s].phase \in {"done", "refused", "expired", "thrown"}
  /\ session' = [session EXCEPT ![s] = Idle]
  /\ UNCHANGED <<chainVars, balance, flight, height, commands>>

-----------------------------------------------------------------------------
(***************************************************************************)
(* The chain.                                                              *)
(***************************************************************************)

\* This step changes what a trade of m depends on.
Moves(m) ==
  \/ curve'[m] # curve[m]
  \/ config'.params # config.params
  \/ config'.createPaused # config.createPaused
  \/ config'.tradingPaused # config.tradingPaused

\* The session after a step of the chain that is not its own.
Stirred(s) ==
  [session[s] EXCEPT !.moved =
     @ \/ (session[s].phase \in {"reading", "signed", "sent", "confirming"}
             /\ ~session[s].got.known /\ Moves(session[s].mint))]

\* A transaction is executed, for its own session's account.
Land(f) ==
  LET s == f.by
      m == f.order.mint
      tokens == circulating'[m] - circulating[m]
  IN /\ height <= f.last
     /\ Execute(f.order)
     /\ flight' = flight \ {f}
     /\ balance' = [balance EXCEPT ![s][m] = @ + tokens]
     /\ session' = [t \in Sessions |->
          IF t # s THEN Stirred(t)
          ELSE [session[s] EXCEPT !.got =
                  [ok |-> TRUE, tokens |-> tokens,
                   sol |-> lamports'[m] - lamports[m], known |-> TRUE]]]
     /\ UNCHANGED <<height, commands>>

\* It is executed and fails.
LandRefused(f) ==
  /\ height <= f.last
  /\ ~Succeeds(f.order)
  /\ flight' = flight \ {f}
  /\ session' = [session EXCEPT ![f.by].got.known = TRUE]
  /\ UNCHANGED <<chainVars, balance, height, commands>>

\* A block later, the transactions whose blockhash is too old are no more.
NewBlock ==
  /\ height < MaxHeight
  /\ height' = height + 1
  /\ flight' = {f \in flight : f.last >= height'}
  /\ UNCHANGED <<chainVars, session, balance, commands>>

\* The tokens of m in the wallets of the sessions, one by one.
Held(m) == UNION {{s} \X (1 .. balance[s][m]) : s \in Sessions}

\* How many tokens are in no session's wallet.
Others(m) == circulating[m] - Cardinality(Held(m))

\* Everybody else: what changes a quote or the outcome of a trade.
World ==
  /\ \/ \E m \in Mints :
          \/ ~Creating(m) /\ CreateToken(m)
          \/ /\ trades < MaxOthers
             /\ \/ \E b \in BuyBudgets : Buy(m, b, 0)
                \/ \E t \in 1 .. Others(m) : Sell(m, t, 0)
          \/ Migrate(m)
     \/ \E p \in ParamSets : UpdateConfig(config.admin, p)
     \/ \E cp, tp \in BOOLEAN : SetPaused(config.admin, cp, tp)
     \/ Tick
  /\ session' = [s \in Sessions |-> Stirred(s)]
  /\ UNCHANGED <<balance, flight, height, commands>>

-----------------------------------------------------------------------------

ClientInit ==
  /\ Init
  /\ session = [s \in Sessions |-> Idle]
  /\ balance = [s \in Sessions |-> [m \in Mints |-> 0]]
  /\ flight = {}
  /\ height = 0
  /\ commands = 0

Step(s) ==
  \/ \E m \in Mints, cmd \in Commands : Begin(s, m, cmd)
  \/ \E skew \in Skews : ReadCurve(s, skew)
  \/ ReadConfig(s) \/ Build(s)
  \/ Send(s) \/ SendTooLate(s) \/ Watch(s)
  \/ Confirm(s) \/ Expire(s) \/ End(s)

ClientNext ==
  \/ \E s \in Sessions : Step(s)
  \/ \E f \in flight : Land(f) \/ LandRefused(f)
  \/ NewBlock
  \/ World

ClientSpec == ClientInit /\ [][ClientNext]_<<chainVars, clientVars>>

-----------------------------------------------------------------------------
(***************************************************************************)
(* Properties.                                                             *)
(***************************************************************************)

\* At least what was quoted less the tolerance, rounded down.
Enough(got, quoted) == got * BPS > quoted * (BPS - SlippageBps) - BPS

AsAgreed(r) ==
  /\ Buys(r.cmd) => /\ r.got.sol <= r.cmd.budget
                    /\ Enough(r.got.tokens, r.quote.tokens)
  /\ r.cmd.op = "sell" => /\ r.got.tokens = r.quote.tokens
                          /\ Enough(-r.got.sol, -r.quote.sol)

\* However far curve and configuration moved between the reads, the quote and
\* the execution, a trade costs at most what was offered and brings at least
\* the quote less the tolerance (client.ts:296-353), also the first buy of a
\* launch whose terms changed under it (client.ts:208-266).
NoLessThanAgreed ==
  \A s \in Sessions : session[s].got.ok => AsAgreed(session[s])

\* The outcome is the quote, if nothing moved, the client was sure, and the
\* new terms it may have been given are not refused by validate.
AsQuoted(r) ==
  /\ r.got.known \/ r.phase = "refused"
  /\ ~r.moved /\ ~r.unsure
  /\ r.cmd.op = "update-config" => Valid(r.order.params)
  => r.got = [ok |-> TRUE, tokens |-> r.quote.tokens, sol |-> r.quote.sol,
              known |-> TRUE]

\* The client foresees exactly what the program does: if nothing moved, a
\* transaction it builds is not refused and changes the balances by its quote,
\* unless trading was paused, which it does not look at, its clock was ahead
\* of the chain's, or it was given terms it cannot know to be refused
\* (client.ts:183-204, 561-573).
QuoteHoldsUnlessMoved == \A s \in Sessions : AsQuoted(session[s])

\* A transaction reported as expired is never executed afterwards, so that its
\* owner can safely send another (cli.ts:93-100 waits by a later blockhash
\* than the one it signed).
ExpiryIsFinal ==
  \A s \in Sessions : session[s].phase = "expired" =>
    \A f \in flight : f.by # s

\* "Unspecified values are kept" (cli.ts:16): update-config and pause change
\* nothing but the options they are given, unless somebody else changed the
\* configuration after it was read: then they put back the older values.
UnspecifiedKept ==
  [][\A f \in flight :
       /\ f.order.op \in {"update-config", "pause"}
       /\ ~session[f.by].moved
       /\ Land(f)
       => LET given == DOMAIN session[f.by].cmd.changes
          IN /\ \A x \in DOMAIN config.params \ given :
                  config'.params[x] = config.params[x]
             /\ \A x \in DOMAIN Flags(config) \ given :
                  Flags(config')[x] = Flags(config)[x]]_<<chainVars, clientVars>>

\* LaunchpadClient.metrics: the progress of a curve, as a share of BPS.
Progress(c, p) == IF c.status = "Trading" THEN BondingProgress(c, p.rt) ELSE BPS

\* client.ts:82, math.ts:192: the progress shown for a curve is "0 -> 100".
ProgressInRange ==
  \A m \in Mints : Live(m) => Progress(curve[m], config.params) \in 0 .. BPS

=============================================================================
