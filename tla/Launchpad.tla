----------------------------- MODULE Launchpad -----------------------------
(***************************************************************************)
(* The on-chain program (programs/launchpad/src): the configuration its    *)
(* admin controls and, for every mint, the bonding curve that sells the    *)
(* token, holds the SOL it raises and finally graduates to a Raydium pool. *)
(*                                                                         *)
(* One action per instruction.  A Solana transaction is atomic and the     *)
(* runtime serialises transactions that write the same account, so an      *)
(* instruction is one step; an instruction that returns an error changes   *)
(* nothing and is no step at all.                                          *)
(*                                                                         *)
(* Lamports are counted above the rent-exempt minimum of their account.    *)
(* circulating[m] stands for the balances of all the holders of a token    *)
(* together: holders trade freely among themselves, so any of them may     *)
(* come to own, and sell, any part of it.                                  *)
(***************************************************************************)
EXTENDS CurveMath

CONSTANTS
  Mints,                   \* the tokens that may be launched
  Keys,                    \* the keys that may administer the program
  NoKey,                   \* Pubkey::default()
  AmmConfigs,              \* addresses usable as raydium_amm_config
  AmmStates,               \* [open, cost] a Raydium AmmConfig may be in
  ParamSets,               \* the ConfigParams an admin may submit
  BuyBudgets,              \* sol_amount arguments of buy
  MinOuts,                 \* min_token_amount / min_sol_amount arguments
  MaxTotalFeeBps,          \* constants.rs, with the next three
  MaxMigrationFee,
  MinGraduationLiquidity,
  MigrationTimeout,
  MaxTrades,               \* bound: buys and sells in a behaviour
  MaxTime,                 \* bound: the clock
  MaxGift                  \* bound: lamports or tokens given away to a curve

Fees == [protocol : Amount, creator : Amount]

ConfigParams ==
  [vs : Amount, vt : Amount, rt : Amount, supply : Amount, fees : Fees,
   migrationFee : Amount, ammConfig : AmmConfigs]

ASSUME LaunchpadAssumption ==
  /\ NoKey \notin Keys
  /\ AmmStates \subseteq [open : BOOLEAN, cost : Amount]
  /\ ParamSets \subseteq ConfigParams
  /\ BuyBudgets \subseteq Amount
  /\ MinOuts \subseteq Amount
  /\ MaxTotalFeeBps \in 0 .. BPS
  /\ MaxMigrationFee \in Amount
  /\ MinGraduationLiquidity \in Amount \ {0}
  /\ MigrationTimeout \in Nat \ {0}
  /\ MaxTrades \in Nat
  /\ MaxTime \in Nat \ {0}
  /\ MaxGift \in Nat

VARIABLES
  config,       \* the Config account
  curve,        \* the BondingCurve account of each mint
  lamports,     \* lamports of each BondingCurve account
  vault,        \* tokens in each curve's vault
  circulating,  \* tokens held by everybody else
  stray,        \* tokens somebody sent to the pool creator's token account
  pool,         \* what the Raydium pool of each mint was opened with
  burned,       \* tokens burned at graduation
  amm,          \* Raydium's AmmConfig accounts
  now,          \* the clock sysvar
  trades,       \* bound: trades so far
  launch,       \* history: the parameters each mint was launched with
  gifts         \* history: lamports and tokens given to curve and vault

curveVars == <<curve, lamports, vault, circulating, stray, pool, burned,
               launch, gifts>>
vars == <<config, curveVars, amm, now, trades>>

Status == {"Absent", "Trading", "Complete", "Migrated"}

Curve ==
  [status : Status, vs : Amount, vt : Amount, rs : Amount, rt : Amount,
   supply : Amount, protocolFees : Amount, creatorFees : Amount,
   completedAt : Nat, migrationFee : Amount]

NoCurve ==
  [status |-> "Absent", vs |-> 0, vt |-> 0, rs |-> 0, rt |-> 0, supply |-> 0,
   protocolFees |-> 0, creatorFees |-> 0, completedAt |-> 0,
   migrationFee |-> 0]

-----------------------------------------------------------------------------
(***************************************************************************)
(* Configuration.                                                          *)
(***************************************************************************)

\* Mutation: the supply kept for the pool is not compared with its size.
ValidWithoutPoolSupply(p) ==
  /\ TotalBps(p.fees) <= MaxTotalFeeBps
  /\ p.vs > 0 /\ p.rt > 0 /\ p.vt > p.rt /\ p.supply > p.rt
  /\ p.migrationFee <= MaxMigrationFee
  /\ SolToComplete(p.vs, p.vt, p.rt) >= p.migrationFee + MinGraduationLiquidity

\* ConfigParams::validate.  The fee recipient, the creation fee and the
\* Raydium keys it also checks touch no state of a curve.
Valid(p) ==
  /\ TotalBps(p.fees) <= MaxTotalFeeBps
  /\ p.vs > 0 /\ p.rt > 0 /\ p.vt > p.rt /\ p.supply > p.rt
  /\ p.migrationFee <= MaxMigrationFee
  /\ p.supply - p.rt >= MaxPoolTokens(p.vt, p.rt)
  /\ LET raised == SolToComplete(p.vs, p.vt, p.rt)
     IN /\ Fits(raised)
        /\ Fits(p.migrationFee + MinGraduationLiquidity)
        /\ raised >= p.migrationFee + MinGraduationLiquidity

ValidParams == {p \in ParamSets : Valid(p)}

Config ==
  [admin : Keys, pendingAdmin : Keys \cup {NoKey}, params : ValidParams,
   createPaused : BOOLEAN, tradingPaused : BOOLEAN]

\* handle_initialize has run: until then no other instruction can.
Init ==
  /\ config \in [admin : Keys, pendingAdmin : {NoKey}, params : ValidParams,
                 createPaused : {FALSE}, tradingPaused : {FALSE}]
  /\ curve = [m \in Mints |-> NoCurve]
  /\ lamports = [m \in Mints |-> 0]
  /\ vault = [m \in Mints |-> 0]
  /\ circulating = [m \in Mints |-> 0]
  /\ stray = [m \in Mints |-> 0]
  /\ pool = [m \in Mints |-> [sol |-> 0, tokens |-> 0]]
  /\ burned = [m \in Mints |-> 0]
  /\ amm \in [AmmConfigs -> AmmStates]
  /\ now = 1
  /\ trades = 0
  /\ launch = [m \in Mints |-> config.params]
  /\ gifts = [m \in Mints |-> [sol |-> 0, tokens |-> 0]]

UpdateConfig(key, p) ==
  /\ key = config.admin
  /\ Valid(p)
  /\ config' = [config EXCEPT !.params = p]
  /\ UNCHANGED <<curveVars, amm, now, trades>>

SetPaused(key, createPaused, tradingPaused) ==
  /\ key = config.admin
  /\ config' = [config EXCEPT !.createPaused = createPaused,
                              !.tradingPaused = tradingPaused]
  /\ UNCHANGED <<curveVars, amm, now, trades>>

TransferAdmin(key, newAdmin) ==
  /\ key = config.admin
  /\ config' = [config EXCEPT !.pendingAdmin = newAdmin]
  /\ UNCHANGED <<curveVars, amm, now, trades>>

AcceptAdmin(key) ==
  /\ config.pendingAdmin # NoKey
  /\ key = config.pendingAdmin
  /\ config' = [config EXCEPT !.admin = config.pendingAdmin,
                              !.pendingAdmin = NoKey]
  /\ UNCHANGED <<curveVars, amm, now, trades>>

-----------------------------------------------------------------------------
(***************************************************************************)
(* create_token: the whole supply is minted to the vault, and the curve    *)
(* takes its terms from the configuration of the moment.                   *)
(***************************************************************************)

NewCurve(p) ==
  [status |-> "Trading", vs |-> p.vs, vt |-> p.vt, rs |-> 0, rt |-> p.rt,
   supply |-> p.supply, protocolFees |-> 0, creatorFees |-> 0,
   completedAt |-> 0, migrationFee |-> p.migrationFee]

\* create_token goes through.
CreateAccepted(m) == curve[m].status = "Absent" /\ ~config.createPaused

CreateToken(m) ==
  /\ CreateAccepted(m)
  /\ curve' = [curve EXCEPT ![m] = NewCurve(config.params)]
  /\ vault' = [vault EXCEPT ![m] = config.params.supply]
  /\ launch' = [launch EXCEPT ![m] = config.params]
  /\ UNCHANGED <<config, lamports, circulating, stray, pool, burned, amm,
                 now, trades, gifts>>

-----------------------------------------------------------------------------
(***************************************************************************)
(* Trading.                                                                *)
(***************************************************************************)

\* Mutation: the sale of the last token does not complete the curve.
AfterBuyLeftOpen(c, q, time) ==
  [c EXCEPT !.vs = @ + q.sol, !.vt = @ - q.tokens,
            !.rs = @ + q.sol, !.rt = @ - q.tokens,
            !.protocolFees = @ + q.protocolFee,
            !.creatorFees = @ + q.creatorFee]

\* Mutation: a buy renews the terms of the curve from the configuration.
AfterBuyRenewsTerms(c, q, time) ==
  [AfterBuyLeftOpen(c, q, time) EXCEPT
     !.migrationFee = config.params.migrationFee,
     !.status = IF c.rt = q.tokens THEN "Complete" ELSE @,
     !.completedAt = IF c.rt = q.tokens THEN time ELSE @]

\* The curve after a buy with quote q; the last token sold completes it.
AfterBuy(c, q, time) ==
  LET last == c.rt = q.tokens
  IN [c EXCEPT !.vs = @ + q.sol, !.vt = @ - q.tokens,
               !.rs = @ + q.sol, !.rt = @ - q.tokens,
               !.protocolFees = @ + q.protocolFee,
               !.creatorFees = @ + q.creatorFee,
               !.status = IF last THEN "Complete" ELSE @,
               !.completedAt = IF last THEN time ELSE @]

BuyQuote(m, budget) ==
  QuoteBuy(curve[m].vs, curve[m].vt, curve[m].rt, budget, config.params.fees)

\* buy goes through.
BuyAccepted(m, budget, minTokens) ==
  LET c == curve[m]
      q == BuyQuote(m, budget)
  IN /\ ~config.tradingPaused
     /\ c.status = "Trading"
     /\ BuyQuoted(c.vs, c.vt, c.rt, budget, config.params.fees)
     /\ q.tokens >= minTokens
     /\ q.tokens <= vault[m]
     /\ Fits(c.vs + q.sol) /\ Fits(c.rs + q.sol)
     /\ Fits(c.protocolFees + q.protocolFee)
     /\ Fits(c.creatorFees + q.creatorFee)

Buy(m, budget, minTokens) ==
  LET c == curve[m]
      q == BuyQuote(m, budget)
  IN /\ trades < MaxTrades
     /\ BuyAccepted(m, budget, minTokens)
     /\ curve' = [curve EXCEPT ![m] = AfterBuy(c, q, now)]
     /\ lamports' = [lamports EXCEPT ![m] = @ + q.totalCost]
     /\ vault' = [vault EXCEPT ![m] = @ - q.tokens]
     /\ circulating' = [circulating EXCEPT ![m] = @ + q.tokens]
     /\ trades' = trades + 1
     /\ UNCHANGED <<config, stray, pool, burned, amm, now, launch, gifts>>

\* A completed curve that could not graduate in time.
Stuck(c, time) ==
  c.status = "Complete" /\ time >= c.completedAt + MigrationTimeout

\* Mutation: the tokens bought back are not offered for sale again.
AfterSellNotRestocked(c, q, time) ==
  [c EXCEPT !.vs = @ - q.sol, !.vt = @ + q.tokens,
            !.rs = @ - q.sol,
            !.protocolFees = @ + q.protocolFee,
            !.creatorFees = @ + q.creatorFee,
            !.status = "Trading",
            !.completedAt = IF Stuck(c, time) THEN 0 ELSE @]

\* Mutation: the SOL paid out is not taken off the virtual reserve.
AfterSellPriceKept(c, q, time) ==
  [AfterSellNotRestocked(c, q, time) EXCEPT !.vs = c.vs, !.rt = @ + q.tokens]

\* The curve after a sell with quote q; a stuck curve is reopened by it.
AfterSell(c, q, time) ==
  [c EXCEPT !.vs = @ - q.sol, !.vt = @ + q.tokens,
            !.rs = @ - q.sol, !.rt = @ + q.tokens,
            !.protocolFees = @ + q.protocolFee,
            !.creatorFees = @ + q.creatorFee,
            !.status = "Trading",
            !.completedAt = IF Stuck(c, time) THEN 0 ELSE @]

SellQuote(m, tokens) ==
  QuoteSell(curve[m].vs, curve[m].vt, tokens, config.params.fees)

\* sell goes through.
SellAccepted(m, tokens, minSol) ==
  LET c == curve[m]
      q == SellQuote(m, tokens)
  IN /\ ~config.tradingPaused
     /\ c.status = "Trading" \/ Stuck(c, now)
     /\ SellQuoted(c.vs, c.vt, c.rs, tokens, config.params.fees)
     /\ q.solOut >= minSol
     /\ tokens <= circulating[m]
     /\ q.solOut <= lamports[m]
     /\ Fits(c.vt + tokens) /\ Fits(c.rt + tokens)
     /\ Fits(c.protocolFees + q.protocolFee)
     /\ Fits(c.creatorFees + q.creatorFee)

Sell(m, tokens, minSol) ==
  LET c == curve[m]
      q == SellQuote(m, tokens)
  IN /\ trades < MaxTrades
     /\ SellAccepted(m, tokens, minSol)
     /\ curve' = [curve EXCEPT ![m] = AfterSell(c, q, now)]
     /\ lamports' = [lamports EXCEPT ![m] = @ - q.solOut]
     /\ vault' = [vault EXCEPT ![m] = @ + tokens]
     /\ circulating' = [circulating EXCEPT ![m] = @ - tokens]
     /\ trades' = trades + 1
     /\ UNCHANGED <<config, stray, pool, burned, amm, now, launch, gifts>>

-----------------------------------------------------------------------------
(***************************************************************************)
(* Fees.  Neither instruction looks at the pause flags or at the status.   *)
(***************************************************************************)

ClaimCreatorFees(m) ==
  LET fees == curve[m].creatorFees
  IN /\ fees > 0
     /\ fees <= lamports[m]
     /\ curve' = [curve EXCEPT ![m].creatorFees = 0]
     /\ lamports' = [lamports EXCEPT ![m] = @ - fees]
     /\ UNCHANGED <<config, vault, circulating, stray, pool, burned, amm, now,
                    trades, launch, gifts>>

CollectProtocolFees(m) ==
  LET fees == curve[m].protocolFees
  IN /\ fees > 0
     /\ fees <= lamports[m]
     /\ curve' = [curve EXCEPT ![m].protocolFees = 0]
     /\ lamports' = [lamports EXCEPT ![m] = @ - fees]
     /\ UNCHANGED <<config, vault, circulating, stray, pool, burned, amm, now,
                    trades, launch, gifts>>

-----------------------------------------------------------------------------
(***************************************************************************)
(* Graduation.  Raydium's cost (the rent of its accounts and the pool      *)
(* creation fee) is read when migrate runs, from the AmmConfig the         *)
(* configuration names at that moment; the migration fee is the curve's.   *)
(***************************************************************************)

\* Mutation: protocol fees paid out by migrate stay on the books.
AfterMigrateFeesKept(c) ==
  [c EXCEPT !.status = "Migrated", !.rs = 0, !.rt = 0]

AfterMigrate(c) ==
  [c EXCEPT !.status = "Migrated", !.rs = 0, !.rt = 0, !.protocolFees = 0]

PoolSol(c, cost) == c.rs - c.migrationFee - cost

PoolTokens(m, sol) ==
  PoolTokenAmount(curve[m].vs, curve[m].vt, sol, vault[m])

\* Mutation: tokens left in the pool creator's account are not burned.
SurplusInVault(m, tokens) == vault[m] - tokens

\* Tokens migrate burns: the rest of the vault and the stray tokens.
Surplus(m, tokens) == (vault[m] - tokens) + stray[m]

\* Raydium lets the pool be created and the curve can pay for it.
CanGraduate(m) ==
  LET c   == curve[m]
      a   == amm[config.params.ammConfig]
      sol == PoolSol(c, a.cost)
  IN /\ c.status = "Complete"
     /\ a.open
     /\ sol > 0
     /\ PoolTokens(m, sol) > 0
     /\ Fits(c.migrationFee + c.protocolFees)

Migrate(m) ==
  LET c      == curve[m]
      cost   == amm[config.params.ammConfig].cost
      sol    == PoolSol(c, cost)
      tokens == PoolTokens(m, sol)
      paid   == sol + cost + c.migrationFee + c.protocolFees
  IN /\ CanGraduate(m)
     /\ paid <= lamports[m]
     /\ curve' = [curve EXCEPT ![m] = AfterMigrate(c)]
     /\ lamports' = [lamports EXCEPT ![m] = @ - paid]
     /\ vault' = [vault EXCEPT ![m] = 0]
     /\ pool' = [pool EXCEPT ![m] = [sol |-> sol, tokens |-> tokens]]
     /\ burned' = [burned EXCEPT ![m] = @ + Surplus(m, tokens)]
     /\ stray' = [stray EXCEPT ![m] = 0]
     /\ UNCHANGED <<config, circulating, amm, now, trades, launch, gifts>>

-----------------------------------------------------------------------------
(***************************************************************************)
(* What happens around the program.                                        *)
(***************************************************************************)

\* Anybody may send lamports to the curve's account.
GiveSol(m, amount) ==
  /\ curve[m].status # "Absent"
  /\ gifts[m].sol + amount <= MaxGift
  /\ lamports' = [lamports EXCEPT ![m] = @ + amount]
  /\ gifts' = [gifts EXCEPT ![m].sol = @ + amount]
  /\ UNCHANGED <<config, curve, vault, circulating, stray, pool, burned, amm,
                 now, trades, launch>>

\* A holder may send tokens to the vault, while it exists,
GiveTokens(m, amount) ==
  /\ curve[m].status \in {"Trading", "Complete"}
  /\ gifts[m].tokens + amount <= MaxGift
  /\ amount <= circulating[m]
  /\ circulating' = [circulating EXCEPT ![m] = @ - amount]
  /\ vault' = [vault EXCEPT ![m] = @ + amount]
  /\ gifts' = [gifts EXCEPT ![m].tokens = @ + amount]
  /\ UNCHANGED <<config, curve, lamports, stray, pool, burned, amm, now,
                 trades, launch>>

\* or to the token account that migrate will use for the pool creator.
GiveStray(m, amount) ==
  /\ curve[m].status \in {"Trading", "Complete"}
  /\ stray[m] + amount <= MaxGift
  /\ amount <= circulating[m]
  /\ circulating' = [circulating EXCEPT ![m] = @ - amount]
  /\ stray' = [stray EXCEPT ![m] = @ + amount]
  /\ UNCHANGED <<config, curve, lamports, vault, pool, burned, amm, now,
                 trades, launch, gifts>>

\* Raydium changes an AmmConfig: it closes pool creation or sets its fee.
RaydiumChange(a, s) ==
  /\ s # amm[a]
  /\ amm' = [amm EXCEPT ![a] = s]
  /\ UNCHANGED <<config, curveVars, now, trades>>

Tick ==
  /\ now < MaxTime
  /\ now' = now + 1
  /\ UNCHANGED <<config, curveVars, amm, trades>>

-----------------------------------------------------------------------------

Admin ==
  \E key \in Keys :
    \/ \E p \in ParamSets : UpdateConfig(key, p)
    \/ \E cp, tp \in BOOLEAN : SetPaused(key, cp, tp)
    \/ \E k \in Keys \cup {NoKey} : TransferAdmin(key, k)
    \/ AcceptAdmin(key)

Trade(m) ==
  \/ \E b \in BuyBudgets, least \in MinOuts : Buy(m, b, least)
  \/ \E t \in 1 .. circulating[m], least \in MinOuts : Sell(m, t, least)

Gift(m) ==
  \E n \in 1 .. MaxGift : GiveSol(m, n) \/ GiveTokens(m, n) \/ GiveStray(m, n)

Next ==
  \/ Admin
  \/ \E m \in Mints :
       \/ CreateToken(m)
       \/ Trade(m)
       \/ ClaimCreatorFees(m)
       \/ CollectProtocolFees(m)
       \/ Migrate(m)
       \/ Gift(m)
  \/ \E a \in AmmConfigs, s \in AmmStates : RaydiumChange(a, s)
  \/ Tick

Spec == Init /\ [][Next]_vars

-----------------------------------------------------------------------------
(***************************************************************************)
(* Properties.                                                             *)
(***************************************************************************)

Live(m) == curve[m].status \in {"Trading", "Complete"}

\* Every variable keeps its type; in particular every reserve and every fee
\* stays a u64 (add and sub of trade.rs never wrap).
TypeOK ==
  /\ config \in Config
  /\ curve \in [Mints -> Curve]
  /\ lamports \in [Mints -> Nat]
  /\ vault \in [Mints -> Nat]
  /\ circulating \in [Mints -> Nat]
  /\ stray \in [Mints -> Nat]
  /\ pool \in [Mints -> [sol : Nat, tokens : Nat]]
  /\ burned \in [Mints -> Nat]
  /\ amm \in [AmmConfigs -> AmmStates]
  /\ now \in 1 .. MaxTime
  /\ trades \in 0 .. MaxTrades
  /\ launch \in [Mints -> ValidParams]
  /\ gifts \in [Mints -> [sol : Nat, tokens : Nat]]

\* The curve account holds exactly its reserves, the fees nobody claimed yet
\* and what it was given: the invariant documented on BondingCurve, to the
\* lamport, before and after graduation.
Solvency ==
  \A m \in Mints :
    lamports[m] = curve[m].rs + curve[m].protocolFees + curve[m].creatorFees
                    + gifts[m].sol

\* No token is created or lost: the supply minted at launch is in the vault,
\* with the holders, in the pool or burned, whatever was given to whom.
SupplyConserved ==
  \A m \in Mints :
    curve[m].supply =
      vault[m] + circulating[m] + stray[m] + pool[m].tokens + burned[m]

\* Until graduation the vault backs the curve: it holds the tokens still for
\* sale and the whole part of the supply reserved for the pool.
VaultBacksCurve ==
  \A m \in Mints : Live(m) =>
    vault[m] = curve[m].rt + (curve[m].supply - launch[m].rt) + gifts[m].tokens

\* Virtual and real reserves move together from the values of the launch,
\* whatever the configuration has become since.
ReservesTrackLaunch ==
  \A m \in Mints : Live(m) =>
    /\ curve[m].vs = launch[m].vs + curve[m].rs
    /\ curve[m].vt + launch[m].rt = launch[m].vt + curve[m].rt
    /\ curve[m].rt <= launch[m].rt
    /\ curve[m].supply = launch[m].supply
    /\ curve[m].migrationFee = launch[m].migrationFee

\* The constant product never falls below the one of the launch (math.rs: "k
\* never decreases"), so rounding never eats into the reserves.
ProductHolds ==
  \A m \in Mints : Live(m) =>
    launch[m].vs * launch[m].vt <= curve[m].vs * curve[m].vt

\* Holders can always be paid back (math.rs, README): whatever part of the
\* circulating tokens is sold next, the real reserves cover its price, and
\* sell never fails with InsufficientReserves.
HoldersCanBePaid ==
  \A m \in Mints : Live(m) =>
    \A t \in 1 .. circulating[m] :
      SolFor(curve[m].vs, curve[m].vt, t) <= curve[m].rs

\* A curve waits for graduation exactly when it has nothing left to sell, and
\* the migration timeout runs exactly while it waits.
CompleteMeansSoldOut ==
  \A m \in Mints : Live(m) =>
    /\ curve[m].status = "Complete" <=> curve[m].rt = 0
    /\ curve[m].status = "Complete" <=> curve[m].completedAt # 0
    /\ curve[m].completedAt <= now

\* The accounts of a live token stay in step with the terms of its launch and
\* with each other, through reopenings, gifts and changes of configuration.
CurveInOrder ==
  VaultBacksCurve /\ ReservesTrackLaunch /\ ProductHolds /\ CompleteMeansSoldOut

\* Whatever trades led there, under whatever configurations, a completed
\* curve has raised what validate required of its terms: its own migration
\* fee and the minimum liquidity of a pool.
GraduationFunded ==
  \A m \in Mints : curve[m].status = "Complete" =>
    curve[m].rs >= curve[m].migrationFee + MinGraduationLiquidity

\* The pool opens at the curve's final price or above, and above it by less
\* than one token unit unless the whole vault went into the pool.
PoolOpensAtCurvePrice ==
  \A m \in Mints : curve[m].status = "Migrated" =>
    /\ pool[m].sol > 0 /\ pool[m].tokens > 0
    /\ pool[m].tokens * curve[m].vs <= pool[m].sol * curve[m].vt
    /\ \/ pool[m].sol * curve[m].vt < (pool[m].tokens + 1) * curve[m].vs
       \/ pool[m].tokens = curve[m].supply - launch[m].rt + gifts[m].tokens

\* The supply validate keeps for the pool is enough for it (state.rs: "able to
\* pair all the SOL raised at the final curve price"): the vault never limits
\* the pool, which opens within one token unit of the curve's price.
VaultCoversPool ==
  \A m \in Mints : curve[m].status = "Migrated" =>
    pool[m].sol * curve[m].vt < (pool[m].tokens + 1) * curve[m].vs

\* k never decreases from one trade to the next (math.rs).
KNeverDecreases ==
  [][\A m \in Mints : Live(m) /\ Live(m)' =>
       curve[m].vs * curve[m].vt <= (curve[m].vs * curve[m].vt)']_vars

\* No trade is charged more than the hard cap of constants.rs on the SOL it
\* moves, but for the rounding of the fee to a lamport.
FeeCapped ==
  [][\A m \in Mints :
       LET fees(c)  == c.protocolFees + c.creatorFees
           moved    == curve'[m].rs - curve[m].rs
           charged  == fees(curve'[m]) - fees(curve[m])
       IN Live(m) /\ Live(m)' =>
            charged * BPS < (IF moved < 0 THEN -moved ELSE moved)
                              * MaxTotalFeeBps + BPS + MaxTotalFeeBps]_vars

\* constants.rs: "every curve that completes can graduate", as long as Raydium
\* is open and costs less than the liquidity validate sets aside for it.
CompletedCurveCanGraduate ==
  \A m \in Mints :
    LET a == amm[config.params.ammConfig]
    IN curve[m].status = "Complete" /\ a.open /\ a.cost < MinGraduationLiquidity
         => CanGraduate(m)

=============================================================================
