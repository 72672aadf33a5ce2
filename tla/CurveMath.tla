----------------------------- MODULE CurveMath -----------------------------
(***************************************************************************)
(* The integer arithmetic of programs/launchpad/src/math.rs: the fee       *)
(* split, the quotes of a buy and of a sell on a constant-product curve    *)
(* over virtual reserves, and the sizes of the pool a completed curve      *)
(* graduates to.  vs and vt are the virtual SOL and token reserves, rs and *)
(* rt the real ones, as in the source.                                     *)
(*                                                                         *)
(* A quote is a record; that the program computes it without returning an  *)
(* error is a predicate of its own (BuyQuoted, SellQuoted).  The products  *)
(* are u128 in the source and two u64 factors always fit, so only the      *)
(* conversions back to u64 can fail: they are the Fits conjuncts.          *)
(***************************************************************************)
EXTENDS Integers

CONSTANTS
  BPS,      \* basis points in one: 10_000 (constants.rs, BPS_DENOMINATOR)
  MaxU64    \* largest u64; a bound of the width, small in the models

ASSUME CurveMathAssumption ==
  /\ BPS \in Nat \ {0}
  /\ MaxU64 \in Nat \ {0}

-----------------------------------------------------------------------------

Amount == 0 .. MaxU64

\* Mutation: sums wider than a u64 are let through.
FitsAnything(x) == TRUE

\* to_u64: the conversion succeeds.
Fits(x) == x <= MaxU64

\* The denominator is positive wherever the source reaches ceil_div.
CeilDiv(a, b) == (a + b - 1) \div b

AtMost(a, b) == IF a <= b THEN a ELSE b

-----------------------------------------------------------------------------
(***************************************************************************)
(* Fees: [protocol |-> bps, creator |-> bps].                              *)
(***************************************************************************)

TotalBps(fees) == fees.protocol + fees.creator

FeeOn(amount, fees) == CeilDiv(amount * TotalBps(fees), BPS)

\* Fees::split, the creator's part; the rest, dust included, is the protocol's.
CreatorShare(fee, fees) ==
  IF TotalBps(fees) = 0 THEN 0 ELSE (fee * fees.creator) \div TotalBps(fees)

-----------------------------------------------------------------------------
(***************************************************************************)
(* Completion.                                                             *)
(***************************************************************************)

\* Mutation: the price of the remaining tokens is rounded down.
SolToCompleteFloored(vs, vt, rt) == (vs * rt) \div (vt - rt)

\* Lamports that buy all the remaining tokens, fees excluded, rounded up.
SolToComplete(vs, vt, rt) == CeilDiv(vs * rt, vt - rt)

\* Tokens that pair, at the final price, all the SOL a curve raises.
MaxPoolTokens(vt, rt) == CeilDiv(rt * (vt - rt), vt)

\* Mutation: the pool takes every token left in the vault.
PoolTakesAll(vs, vt, sol, available) == available

\* Tokens paired with sol lamports so that the pool opens at the curve's price.
PoolTokenAmount(vs, vt, sol, available) ==
  AtMost((sol * vt) \div vs, available)

-----------------------------------------------------------------------------
(***************************************************************************)
(* Quotes.                                                                 *)
(***************************************************************************)

\* Mutation: the fee is taken as a share of the budget, not of the net amount.
NetOfBudgetShare(budget, fees) == (budget * (BPS - TotalBps(fees))) \div BPS

\* Largest net amount whose fee still fits in the budget.
NetOf(budget, fees) == (budget * BPS) \div (BPS + TotalBps(fees))

\* Mutation: a trader is given a token more than the curve's price allows.
TokensForGenerous(vs, vt, sol) == (vt * sol) \div (vs + sol) + 1

\* Tokens the curve gives for sol lamports, rounded down.
TokensFor(vs, vt, sol) == (vt * sol) \div (vs + sol)

\* A buy that takes the last tokens is charged what they cost, not the budget.
QuoteBuy(vs, vt, rt, budget, fees) ==
  LET net       == NetOf(budget, fees)
      completes == TokensFor(vs, vt, net) >= rt
      tokens    == IF completes THEN rt ELSE TokensFor(vs, vt, net)
      sol       == IF completes THEN SolToComplete(vs, vt, rt) ELSE net
      fee       == IF completes THEN FeeOn(sol, fees) ELSE budget - net
      creator   == CreatorShare(fee, fees)
  IN [sol |-> sol, tokens |-> tokens, protocolFee |-> fee - creator,
      creatorFee |-> creator, totalCost |-> sol + fee]

\* quote_buy returns Ok.  The last conjunct is the source's defensive check.
BuyQuoted(vs, vt, rt, budget, fees) ==
  /\ budget > 0
  /\ rt > 0
  /\ vs > 0 /\ vt > rt
  /\ LET q == QuoteBuy(vs, vt, rt, budget, fees)
     IN /\ q.tokens > 0
        /\ Fits(q.sol)
        /\ q.totalCost <= budget

\* Lamports the curve gives up for tokens, fees included, rounded down.
SolFor(vs, vt, tokens) == (vs * tokens) \div (vt + tokens)

QuoteSell(vs, vt, tokens, fees) ==
  LET sol     == SolFor(vs, vt, tokens)
      fee     == FeeOn(sol, fees)
      creator == CreatorShare(fee, fees)
  IN [sol |-> sol, tokens |-> tokens, protocolFee |-> fee - creator,
      creatorFee |-> creator, solOut |-> sol - fee]

\* quote_sell returns Ok.
SellQuoted(vs, vt, rs, tokens, fees) ==
  /\ tokens > 0
  /\ vs > 0 /\ vt > 0
  /\ LET q == QuoteSell(vs, vt, tokens, fees)
     IN /\ Fits(q.sol)
        /\ q.sol <= rs
        /\ q.solOut > 0

=============================================================================
