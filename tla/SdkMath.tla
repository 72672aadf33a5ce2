------------------------------ MODULE SdkMath ------------------------------
(***************************************************************************)
(* The quotes of the TypeScript SDK (sdk/src/math.ts), which its client    *)
(* and the backend show to users before they sign.  They "mirror" the      *)
(* program's, over bigint: no width can be exceeded, and a quote that the  *)
(* program refuses throws instead.  c is the curve quoted against, with    *)
(* the reserves vs, vt, rs and rt; f the fees of the configuration.        *)
(***************************************************************************)
EXTENDS CurveMath

-----------------------------------------------------------------------------
(***************************************************************************)
(* What is left, the pool and the progress.                                *)
(***************************************************************************)

SdkSolToComplete(c) ==
  IF c.rt = 0 THEN 0 ELSE CeilDiv(c.vs * c.rt, c.vt - c.rt)

SdkPoolTokenAmount(c, sol, available) ==
  AtMost((sol * c.vt) \div c.vs, available)

\* bondingProgress, as a share of BPS; a bigint is divided towards zero.
BondingProgress(c, initial) ==
  LET sold == initial - c.rt
  IN IF initial = 0 THEN BPS
     ELSE IF sold >= 0 THEN (sold * BPS) \div initial
     ELSE -((-sold * BPS) \div initial)

\* Mutation: no tolerance at all.
NoLimit(amount, slippageBps) == 0

\* applySlippageDown: the least output still acceptable.
ApplySlippageDown(amount, slippageBps) == (amount * (BPS - slippageBps)) \div BPS

-----------------------------------------------------------------------------
(***************************************************************************)
(* Quotes.                                                                 *)
(***************************************************************************)

\* splitFee: the creator's part of a fee.
SplitCreator(totalFee, f) ==
  IF TotalBps(f) = 0 \/ totalFee = 0 THEN 0
  ELSE (totalFee * f.creator) \div TotalBps(f)

SdkQuoteBuy(c, budget, f) ==
  LET net    == (budget * BPS) \div (BPS + TotalBps(f))
      bought == (c.vt * net) \div (c.vs + net)
      last   == bought >= c.rt
      tokens == IF last THEN c.rt ELSE bought
      sol    == IF last THEN CeilDiv(c.vs * c.rt, c.vt - c.rt) ELSE net
      fee    == IF last THEN CeilDiv(sol * TotalBps(f), BPS) ELSE budget - net
  IN [sol |-> sol, tokens |-> tokens,
      protocolFee |-> fee - SplitCreator(fee, f),
      creatorFee |-> SplitCreator(fee, f), totalCost |-> sol + fee]

\* quoteBuy returns instead of throwing.
SdkBuyQuoted(c, budget, f) ==
  budget > 0 /\ c.rt > 0 /\ SdkQuoteBuy(c, budget, f).tokens # 0

SdkQuoteSell(c, tokens, f) ==
  LET sol == (c.vs * tokens) \div (c.vt + tokens)
      fee == FeeOn(sol, f)
  IN [sol |-> sol, tokens |-> tokens,
      protocolFee |-> fee - SplitCreator(fee, f),
      creatorFee |-> SplitCreator(fee, f), solOut |-> sol - fee]

\* Mutation: the SDK does not look at the real reserves.
SdkSellQuotedBlindly(c, tokens, f) ==
  tokens > 0 /\ SdkQuoteSell(c, tokens, f).solOut > 0

\* quoteSell returns instead of throwing.
SdkSellQuoted(c, tokens, f) ==
  LET q == SdkQuoteSell(c, tokens, f)
  IN tokens > 0 /\ q.sol <= c.rs /\ q.solOut > 0

\* Mutation: the budget is the net amount plus the fee on it, rounded down.
SolCostFloored(c, tokens, f) ==
  LET net == CeilDiv(c.vs * AtMost(tokens, c.rt), c.vt - AtMost(tokens, c.rt))
  IN net + (net * TotalBps(f)) \div BPS

\* solCostForTokens: the budget that buys a given number of tokens.
SolCostForTokens(c, tokens, f) ==
  LET wanted == AtMost(tokens, c.rt)
      net    == CeilDiv(c.vs * wanted, c.vt - wanted)
  IN CeilDiv(net * (BPS + TotalBps(f)), BPS)

=============================================================================
