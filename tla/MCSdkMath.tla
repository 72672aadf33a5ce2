----------------------------- MODULE MCSdkMath -----------------------------
(***************************************************************************)
(* The closed forms of the program and of the SDK against what they are    *)
(* meant to compute, over all small reserves, fees and amounts: a user     *)
(* looks at a curve and asks for quotes of one amount after the other.     *)
(***************************************************************************)
EXTENDS SdkMath

CONSTANTS
  MaxReserve,   \* bound of the virtual reserves
  MaxAmount,    \* bound of the amounts
  FeeSets       \* fees of the program's configuration

\* The reserves and the amounts of an instruction are u64s.
ASSUME SdkMathAssumption ==
  /\ MaxReserve \in 1 .. MaxU64
  /\ MaxAmount \in 1 .. MaxU64
  /\ FeeSets \subseteq [protocol : 0 .. BPS, creator : 0 .. BPS]

VARIABLES
  curve,    \* [vs, vt, rs, rt]: the reserves quoted against
  fees,     \* the fees quoted with
  amount    \* lamports of a buy, tokens of a sell or of a cost request

vars == <<curve, fees, amount>>

\* No fee, one-sided fees, and fees whose split leaves dust (BPS = 10).
SomeFees ==
  {[protocol |-> p, creator |-> c] : p \in {0, 2, 3}, c \in {0, 1, 2}}

-----------------------------------------------------------------------------

Init ==
  /\ curve \in {c \in [vs : 1 .. MaxReserve, vt : 1 .. MaxReserve,
                       rs : 0 .. MaxReserve, rt : 0 .. MaxReserve] :
                  c.rt < c.vt /\ c.rs < c.vs}
  /\ fees \in FeeSets
  /\ amount = 1

Another ==
  /\ amount' \in 1 .. MaxAmount
  /\ UNCHANGED <<curve, fees>>

Spec == Init /\ [][Another]_vars

-----------------------------------------------------------------------------
(***************************************************************************)
(* Properties.                                                             *)
(***************************************************************************)

\* quote_buy's net amount is the largest whose fee, rounded up, still fits in
\* the budget: the trader gets every lamport of trade the budget pays for.
NetIsLargest ==
  LET fits(n) == n + FeeOn(n, fees) <= amount
  IN fits(NetOf(amount, fees)) /\ ~fits(NetOf(amount, fees) + 1)

\* A trade is the best one the constant product allows: one more token, or
\* one more lamport, would lower k (math.rs, "rounding favours the curve").
TradesAreTight ==
  LET c == curve
      k == c.vs * c.vt
      t == TokensFor(c.vs, c.vt, amount)
      s == SolFor(c.vs, c.vt, amount)
  IN /\ (c.vs + amount) * (c.vt - t) >= k
     /\ (c.vs + amount) * (c.vt - t - 1) < k
     /\ (c.vs - s) * (c.vt + amount) >= k
     /\ (c.vs - s - 1) * (c.vt + amount) < k

\* sol_to_complete is the least amount of SOL that buys what is left: with a
\* lamport less the curve would keep a token, so completion is never early.
CompletionIsExact ==
  LET c == curve
      all == SolToComplete(c.vs, c.vt, c.rt)
  IN c.rt > 0 =>
       /\ TokensFor(c.vs, c.vt, all) >= c.rt
       /\ TokensFor(c.vs, c.vt, all - 1) < c.rt

\* Every rounding of math.rs is the right one: each closed form is the optimum
\* it stands for, neither party loses a unit the other is not owed.
RoundingIsOptimal == NetIsLargest /\ TradesAreTight /\ CompletionIsExact

\* Selling what was just bought never pays, whatever the fees: the round trip
\* returns at most what the buy cost.
RoundTripLoses ==
  LET c == curve
      q == QuoteBuy(c.vs, c.vt, c.rt, amount, fees)
      back == QuoteSell(c.vs + q.sol, c.vt - q.tokens, q.tokens, fees)
  IN BuyQuoted(c.vs, c.vt, c.rt, amount, fees) => back.solOut <= q.totalCost

\* solCostForTokens is the least budget the program takes: of what the curve
\* still has, it delivers at least the amount asked for, and a lamport less
\* does not.  Asked for more, the SDK prices what is left without a word
\* (math.ts:151): the budget buys the curve out, again with no lamport to spare,
\* and delivers less than was asked for, which is where "the program then
\* delivers at least tokenAmount tokens" (math.ts:146-147) ends.  The SDK
\* computes without a width; a budget that is no u64 cannot be passed.
BudgetIsLeast ==
  LET c == curve
      cost == SolCostForTokens(c, amount, fees)
      bought(b) == IF BuyQuoted(c.vs, c.vt, c.rt, b, fees)
                   THEN QuoteBuy(c.vs, c.vt, c.rt, b, fees).tokens ELSE 0
  IN c.rt > 0 /\ Fits(cost) =>
       /\ amount <= c.rt => bought(cost) >= amount /\ bought(cost - 1) < amount
       /\ amount > c.rt => bought(cost) = c.rt /\ bought(cost - 1) < c.rt

\* The SDK quotes what the program will do, and throws when the program would
\* return an error ("mirrors math::quote_buy", "mirrors math::quote_sell").
SdkMirrorsProgram ==
  LET c == curve
  IN /\ SdkBuyQuoted(c, amount, fees) <=> BuyQuoted(c.vs, c.vt, c.rt, amount, fees)
     /\ SdkBuyQuoted(c, amount, fees) =>
          SdkQuoteBuy(c, amount, fees)
            = QuoteBuy(c.vs, c.vt, c.rt, amount, fees)
     /\ SdkSellQuoted(c, amount, fees) <=>
          SellQuoted(c.vs, c.vt, c.rs, amount, fees)
     /\ SdkSellQuoted(c, amount, fees) =>
          SdkQuoteSell(c, amount, fees) = QuoteSell(c.vs, c.vt, amount, fees)
     /\ SdkSolToComplete(c) =
          IF c.rt = 0 THEN 0 ELSE SolToComplete(c.vs, c.vt, c.rt)
     /\ \A available \in 0 .. MaxReserve :
          SdkPoolTokenAmount(c, amount, available)
            = PoolTokenAmount(c.vs, c.vt, amount, available)

=============================================================================
