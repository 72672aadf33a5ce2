-------------------------- MODULE CurveMathProofs --------------------------
(***************************************************************************)
(* What the arithmetic of CurveMath guarantees for every reserve, budget   *)
(* and fee, of any width, and that SdkMath computes the same.              *)
(***************************************************************************)
EXTENDS SdkMath, TLAPS

\* Rounding down, the only fact about \div the other proofs use.
LEMMA DivDown ==
  ASSUME NEW a \in Nat, NEW b \in Nat \ {0}
  PROVE  /\ a \div b \in Nat
         /\ (a \div b) * b <= a
         /\ a < (a \div b) * b + b
  BY SMT

\* CeilDiv rounds up: it is the least number of b's that covers a.
LEMMA CeilDivUp ==
  ASSUME NEW a \in Nat, NEW b \in Nat \ {0}
  PROVE  /\ CeilDiv(a, b) \in Nat
         /\ a <= CeilDiv(a, b) * b
         /\ CeilDiv(a, b) * b < a + b
  BY SMT DEF CeilDiv

\* A sum of products cancels: used to compare two roundings.
LEMMA CancelRight ==
  ASSUME NEW a \in Nat, NEW b \in Nat, NEW c \in Nat \ {0}, a * c < (b + 1) * c
  PROVE  a <= b
  OBVIOUS

-----------------------------------------------------------------------------

LEMMA TotalBpsNat ==
  ASSUME NEW fees \in [protocol : Nat, creator : Nat]
  PROVE  TotalBps(fees) \in Nat
  BY DEF TotalBps

\* Fees::split: the creator never gets more than the fee, so the protocol's
\* part never goes below zero.
LEMMA CreatorShareBound ==
  ASSUME NEW fee \in Nat, NEW fees \in [protocol : Nat, creator : Nat]
  PROVE  CreatorShare(fee, fees) \in 0 .. fee
  <1> DEFINE t == TotalBps(fees)
             x == fee * fees.creator
  <1>1. t \in Nat /\ fees.creator \in 0 .. t
    BY DEF TotalBps
  <1>2. CASE t = 0
    BY <1>2 DEF CreatorShare
  <1>3. CASE t # 0
    <2>1. x \in Nat /\ x <= fee * t
      <3> HIDE DEF t
      <3> QED BY <1>1
    <2>2. (x \div t) \in Nat /\ (x \div t) * t <= x
      <3> HIDE DEF t, x
      <3> QED BY <1>1, <1>3, <2>1, DivDown
    <2>3. (x \div t) <= fee
      <3> DEFINE y == x \div t
      <3> HIDE DEF t, x, y
      <3>1. y * t < (fee + 1) * t
        BY <1>1, <1>3, <2>1, <2>2 DEF y
      <3> QED BY <1>1, <1>3, <2>2, <3>1, CancelRight DEF y
    <2> QED BY <1>3, <2>2, <2>3 DEF CreatorShare
  <1> QED BY <1>2, <1>3

-----------------------------------------------------------------------------

\* fee_on rounds up, and a larger amount never pays a smaller fee.
LEMMA FeeOnUp ==
  ASSUME NEW x \in Nat, NEW fees \in [protocol : Nat, creator : Nat]
  PROVE  /\ FeeOn(x, fees) \in Nat
         /\ x * TotalBps(fees) <= FeeOn(x, fees) * BPS
         /\ FeeOn(x, fees) * BPS < x * TotalBps(fees) + BPS
  <1> DEFINE t == TotalBps(fees)
  <1>1. t \in Nat
    BY TotalBpsNat
  <1> HIDE DEF t
  <1>2. x * t \in Nat
    BY <1>1
  <1> QED BY <1>2, CeilDivUp, CurveMathAssumption DEF FeeOn, t

LEMMA FeeOnMonotone ==
  ASSUME NEW x \in Nat, NEW y \in Nat, x <= y,
         NEW fees \in [protocol : Nat, creator : Nat]
  PROVE  FeeOn(x, fees) <= FeeOn(y, fees)
  <1> DEFINE t == TotalBps(fees)
             f == FeeOn(x, fees)
             g == FeeOn(y, fees)
  <1>1. t \in Nat
    BY TotalBpsNat
  <1>2. /\ f \in Nat /\ g \in Nat
        /\ f * BPS < x * t + BPS
        /\ y * t <= g * BPS
    BY FeeOnUp
  <1> HIDE DEF t, f, g
  <1>3. x * t <= y * t
    BY <1>1
  <1>4. f * BPS < (g + 1) * BPS
    BY <1>1, <1>2, <1>3, CurveMathAssumption
  <1> QED BY <1>2, <1>4, CancelRight, CurveMathAssumption DEF f, g

\* quote_buy: the net amount and the fee on it fit in the budget.
LEMMA NetOfFits ==
  ASSUME NEW budget \in Nat, NEW fees \in [protocol : Nat, creator : Nat]
  PROVE  /\ NetOf(budget, fees) \in 0 .. budget
         /\ NetOf(budget, fees) + FeeOn(NetOf(budget, fees), fees) <= budget
  <1> DEFINE t == TotalBps(fees)
             n == NetOf(budget, fees)
             f == FeeOn(n, fees)
  <1>1. t \in Nat
    BY TotalBpsNat
  <1>2. n \in Nat /\ n * (BPS + t) <= budget * BPS
    <2>1. budget * BPS \in Nat /\ BPS + t \in Nat \ {0}
      <3> HIDE DEF t
      <3> QED BY <1>1, CurveMathAssumption
    <2> QED BY <2>1, DivDown DEF NetOf
  <1>3. f \in Nat /\ f * BPS < n * t + BPS
    BY <1>2, FeeOnUp
  <1> HIDE DEF t, n, f
  <1>4. n <= budget
    <2>1. n * BPS <= n * (BPS + t)
      BY <1>1, <1>2, CurveMathAssumption
    <2>2. n * BPS < (budget + 1) * BPS
      BY <1>1, <1>2, <2>1, CurveMathAssumption
    <2> QED BY <1>2, <2>2, CancelRight, CurveMathAssumption
  <1>5. f <= budget - n
    <2>1. n * t + n * BPS <= budget * BPS
      BY <1>1, <1>2, CurveMathAssumption
    <2>2. f * BPS < ((budget - n) + 1) * BPS
      BY <1>1, <1>2, <1>3, <2>1, CurveMathAssumption
    <2> QED BY <1>2, <1>3, <1>4, <2>2, CancelRight, CurveMathAssumption
  <1> QED BY <1>2, <1>3, <1>4, <1>5 DEF n, f

\* The price of the remaining tokens: enough for the curve to give them away
\* and, when the net amount of a buy would get as many, no more than it.
LEMMA SolToCompleteBounds ==
  ASSUME NEW vs \in Nat, NEW vt \in Nat, NEW rt \in Nat, rt < vt
  PROVE  /\ SolToComplete(vs, vt, rt) \in Nat
         /\ vs * rt <= SolToComplete(vs, vt, rt) * (vt - rt)
         /\ \A n \in Nat : vs * rt <= n * (vt - rt)
                             => SolToComplete(vs, vt, rt) <= n
  <1> DEFINE s == SolToComplete(vs, vt, rt)
             w == vt - rt
  <1>1. w \in Nat \ {0} /\ vs * rt \in Nat
    OBVIOUS
  <1>2. s \in Nat /\ vs * rt <= s * w /\ s * w < vs * rt + w
    BY <1>1, CeilDivUp DEF SolToComplete
  <1>3. ASSUME NEW n \in Nat, vs * rt <= n * w
        PROVE  s <= n
    <2> HIDE DEF s, w
    <2>1. s * w < (n + 1) * w
      BY <1>1, <1>2, <1>3
    <2> QED BY <1>1, <1>2, <2>1, CancelRight
  <1> QED BY <1>2, <1>3

\* TokensFor gives no more tokens than the constant product allows.
LEMMA TokensForBound ==
  ASSUME NEW vs \in Nat \ {0}, NEW vt \in Nat, NEW n \in Nat
  PROVE  /\ TokensFor(vs, vt, n) \in Nat
         /\ TokensFor(vs, vt, n) * (vs + n) <= vt * n
  <1>1. vt * n \in Nat /\ vs + n \in Nat \ {0}
    OBVIOUS
  <1> QED BY <1>1, DivDown DEF TokensFor

\* SolFor pays no more lamports than the constant product allows.
LEMMA SolForBound ==
  ASSUME NEW vs \in Nat, NEW vt \in Nat \ {0}, NEW t \in Nat
  PROVE  /\ SolFor(vs, vt, t) \in 0 .. vs
         /\ SolFor(vs, vt, t) * (vt + t) <= vs * t
  <1> DEFINE s == SolFor(vs, vt, t)
  <1>1. s \in Nat /\ s * (vt + t) <= vs * t
    <2>1. vs * t \in Nat /\ vt + t \in Nat \ {0}
      OBVIOUS
    <2> QED BY <2>1, DivDown DEF SolFor
  <1> HIDE DEF s
  <1>2. s * (vt + t) < (vs + 1) * (vt + t)
    BY <1>1
  <1>3. s <= vs
    BY <1>1, <1>2, CancelRight
  <1> QED BY <1>1, <1>3 DEF s

\* The pool opens at the curve's price or above, by less than one token unit
\* unless it took everything available.
LEMMA PoolTokenBounds ==
  ASSUME NEW vs \in Nat \ {0}, NEW vt \in Nat, NEW sol \in Nat,
         NEW available \in Nat
  PROVE  LET r == PoolTokenAmount(vs, vt, sol, available)
         IN  /\ r \in 0 .. available
             /\ r * vs <= sol * vt
             /\ sol * vt < (r + 1) * vs \/ r = available
  <1> DEFINE x == sol * vt
             f == x \div vs
  <1>1. x \in Nat
    OBVIOUS
  <1>2. f \in Nat /\ f * vs <= x /\ x < f * vs + vs
    <2> HIDE DEF x
    <2> QED BY <1>1, DivDown
  <1>3. CASE f <= available
    <2>1. PoolTokenAmount(vs, vt, sol, available) = f
      BY <1>3 DEF PoolTokenAmount, AtMost
    <2> HIDE DEF f
    <2>2. x < (f + 1) * vs
      BY <1>1, <1>2
    <2> QED BY <1>2, <1>3, <2>1, <2>2
  <1>4. CASE ~(f <= available)
    <2>1. PoolTokenAmount(vs, vt, sol, available) = available
      BY <1>4 DEF PoolTokenAmount, AtMost
    <2> HIDE DEF f, x
    <2>2. available * vs <= f * vs
      BY <1>2, <1>4
    <2>3. available * vs <= x
      BY <1>1, <1>2, <2>2
    <2> QED BY <2>1, <2>3 DEF x
  <1> QED BY <1>3, <1>4

-----------------------------------------------------------------------------
(***************************************************************************)
(* The quotes.                                                             *)
(***************************************************************************)

\* The two sides of "k never decreases".
LEMMA ProductAfterBuy ==
  ASSUME NEW vs \in Nat, NEW vt \in Nat, NEW sol \in Nat, NEW t \in 0 .. vt,
         t * (vs + sol) <= vt * sol
  PROVE  vs * vt <= (vs + sol) * (vt - t)
  OBVIOUS

LEMMA ProductAfterSell ==
  ASSUME NEW vs \in Nat, NEW vt \in Nat, NEW sol \in 0 .. vs, NEW t \in Nat,
         sol * (vt + t) <= vs * t
  PROVE  vs * vt <= (vs - sol) * (vt + t)
  OBVIOUS

\* quote_buy: a buy never costs more than its budget.  The source keeps a
\* defensive check of it ("holds by construction"); no input can fail it.
THEOREM BuyWithinBudget ==
  ASSUME NEW vs \in Nat \ {0}, NEW vt \in Nat, NEW rt \in Nat \ {0}, rt < vt,
         NEW budget \in Nat, NEW fees \in [protocol : Nat, creator : Nat]
  PROVE  QuoteBuy(vs, vt, rt, budget, fees).totalCost <= budget
  <1> DEFINE net == NetOf(budget, fees)
             all == SolToComplete(vs, vt, rt)
             b   == TokensFor(vs, vt, net)
  <1>1. /\ net \in 0 .. budget
        /\ net + FeeOn(net, fees) <= budget
    BY NetOfFits
  <1>2. CASE b >= rt
    <2>1. b \in Nat /\ b * (vs + net) <= vt * net
      BY <1>1, TokensForBound
    <2>2. vs * rt <= net * (vt - rt)
      <3> HIDE DEF b, net
      <3>1. rt * (vs + net) <= b * (vs + net)
        BY <1>1, <1>2, <2>1
      <3> QED BY <1>1, <2>1, <3>1
    <2>3. all \in Nat /\ all <= net
      <3> HIDE DEF net
      <3> QED BY <1>1, <2>2, SolToCompleteBounds
    <2>4. FeeOn(all, fees) <= FeeOn(net, fees)
      <3> HIDE DEF net, all
      <3> QED BY <1>1, <2>3, FeeOnMonotone
    <2>5. FeeOn(all, fees) \in Nat /\ FeeOn(net, fees) \in Nat
      <3> HIDE DEF net, all
      <3> QED BY <1>1, <2>3, FeeOnUp
    <2>6. QuoteBuy(vs, vt, rt, budget, fees).totalCost = all + FeeOn(all, fees)
      BY <1>2 DEF QuoteBuy
    <2> HIDE DEF net, all, b
    <2> QED BY <1>1, <2>3, <2>4, <2>5, <2>6
  <1>3. CASE ~(b >= rt)
    <2>1. QuoteBuy(vs, vt, rt, budget, fees).totalCost = net + (budget - net)
      BY <1>3 DEF QuoteBuy
    <2> QED BY <1>1, <2>1
  <1> QED BY <1>2, <1>3

\* quote_buy: what every buy that is not refused does to a curve.  Nobody is
\* given tokens the curve has not left, the fee and the SOL make up the cost,
\* and the product of the reserves does not decrease.
THEOREM QuoteBuySound ==
  ASSUME NEW vs \in Nat, NEW vt \in Nat, NEW rt \in Nat, NEW budget \in Nat,
         NEW fees \in [protocol : Nat, creator : Nat],
         BuyQuoted(vs, vt, rt, budget, fees)
  PROVE  LET q == QuoteBuy(vs, vt, rt, budget, fees)
         IN  /\ q.sol \in Nat \ {0}
             /\ q.tokens \in 1 .. rt
             /\ q.protocolFee \in Nat /\ q.creatorFee \in Nat
             /\ q.totalCost \in Nat
             /\ q.totalCost = q.sol + q.protocolFee + q.creatorFee
             /\ q.sol <= MaxU64
             /\ vs * vt <= (vs + q.sol) * (vt - q.tokens)
  <1> DEFINE q   == QuoteBuy(vs, vt, rt, budget, fees)
             net == NetOf(budget, fees)
             all == SolToComplete(vs, vt, rt)
             b   == TokensFor(vs, vt, net)
  <1> SUFFICES /\ q.sol \in Nat \ {0}
               /\ q.tokens \in 1 .. rt
               /\ q.protocolFee \in Nat /\ q.creatorFee \in Nat
               /\ q.totalCost \in Nat
               /\ q.totalCost = q.sol + q.protocolFee + q.creatorFee
               /\ q.sol <= MaxU64
               /\ vs * vt <= (vs + q.sol) * (vt - q.tokens)
    OBVIOUS
  <1>1. vs > 0 /\ rt > 0 /\ vt > rt /\ q.tokens > 0 /\ Fits(q.sol)
    BY DEF BuyQuoted
  <1>2. net \in 0 .. budget
    BY NetOfFits
  <1>3. b \in Nat /\ b * (vs + net) <= vt * net
    <2>1. net \in Nat /\ vs \in Nat \ {0}
      BY <1>1, <1>2
    <2> HIDE DEF net
    <2> QED BY <2>1, TokensForBound
  <1>4. all \in Nat /\ vs * rt <= all * (vt - rt)
    BY <1>1, SolToCompleteBounds
  <1>5. CASE b >= rt
    <2>1. /\ q.sol = all /\ q.tokens = rt
          /\ q.protocolFee = FeeOn(all, fees) - CreatorShare(FeeOn(all, fees), fees)
          /\ q.creatorFee = CreatorShare(FeeOn(all, fees), fees)
          /\ q.totalCost = all + FeeOn(all, fees)
      BY <1>5 DEF QuoteBuy
    <2> HIDE DEF q, net, all, b
    <2>2. FeeOn(all, fees) \in Nat
      BY <1>4, FeeOnUp
    <2>3. CreatorShare(FeeOn(all, fees), fees) \in 0 .. FeeOn(all, fees)
      BY <2>2, CreatorShareBound
    <2>4. rt * (vs + all) <= vt * all
      BY <1>1, <1>4
    <2>5. vs * vt <= (vs + all) * (vt - rt)
      BY <1>1, <1>4, <2>4, ProductAfterBuy
    <2>6. all # 0
      <3> SUFFICES ASSUME all = 0
                   PROVE  FALSE
        OBVIOUS
      <3> QED BY <1>1, <1>4
    <2> QED BY <1>1, <1>4, <2>1, <2>2, <2>3, <2>5, <2>6 DEF Fits
  <1>6. CASE ~(b >= rt)
    <2>1. /\ q.sol = net /\ q.tokens = b
          /\ q.protocolFee = (budget - net) - CreatorShare(budget - net, fees)
          /\ q.creatorFee = CreatorShare(budget - net, fees)
          /\ q.totalCost = net + (budget - net)
      BY <1>6 DEF QuoteBuy
    <2> HIDE DEF q, net, all, b
    <2>2. CreatorShare(budget - net, fees) \in 0 .. budget - net
      BY <1>2, CreatorShareBound
    <2>3. vs * vt <= (vs + net) * (vt - b)
      BY <1>1, <1>2, <1>3, <1>6, ProductAfterBuy
    <2>4. net # 0
      <3> SUFFICES ASSUME net = 0
                   PROVE  FALSE
        OBVIOUS
      <3> QED BY <1>1, <1>3, <2>1
    <2> QED BY <1>1, <1>2, <1>3, <1>6, <2>1, <2>2, <2>3, <2>4 DEF Fits
  <1> QED BY <1>5, <1>6

\* The cost alone, for the proofs that have no use for the product.
LEMMA QuoteBuyCost ==
  ASSUME NEW vs \in Nat, NEW vt \in Nat, NEW rt \in Nat, NEW budget \in Nat,
         NEW fees \in [protocol : Nat, creator : Nat],
         BuyQuoted(vs, vt, rt, budget, fees)
  PROVE  LET q == QuoteBuy(vs, vt, rt, budget, fees)
         IN  q.totalCost = q.sol + q.protocolFee + q.creatorFee
  BY QuoteBuySound

\* quote_sell: what every sell that is not refused does to a curve.
THEOREM QuoteSellSound ==
  ASSUME NEW vs \in Nat, NEW vt \in Nat, NEW rs \in Nat, NEW tokens \in Nat,
         NEW fees \in [protocol : Nat, creator : Nat],
         SellQuoted(vs, vt, rs, tokens, fees)
  PROVE  LET q == QuoteSell(vs, vt, tokens, fees)
         IN  /\ q.sol \in 1 .. vs
             /\ q.sol <= rs
             /\ q.protocolFee \in Nat /\ q.creatorFee \in Nat
             /\ q.solOut \in Nat \ {0}
             /\ q.sol = q.solOut + q.protocolFee + q.creatorFee
             /\ vs * vt <= (vs - q.sol) * (vt + tokens)
  <1> DEFINE q   == QuoteSell(vs, vt, tokens, fees)
             sol == SolFor(vs, vt, tokens)
             fee == FeeOn(sol, fees)
  <1> SUFFICES /\ q.sol \in 1 .. vs
               /\ q.sol <= rs
               /\ q.protocolFee \in Nat /\ q.creatorFee \in Nat
               /\ q.solOut \in Nat \ {0}
               /\ q.sol = q.solOut + q.protocolFee + q.creatorFee
               /\ vs * vt <= (vs - q.sol) * (vt + tokens)
    OBVIOUS
  <1>1. vs > 0 /\ vt > 0 /\ tokens > 0 /\ q.sol <= rs /\ q.solOut > 0
    BY DEF SellQuoted
  <1>2. sol \in 0 .. vs /\ sol * (vt + tokens) <= vs * tokens
    BY <1>1, SolForBound
  <1>3. /\ q.sol = sol
        /\ q.protocolFee = fee - CreatorShare(fee, fees)
        /\ q.creatorFee = CreatorShare(fee, fees)
        /\ q.solOut = sol - fee
    BY DEF QuoteSell
  <1>4. fee \in Nat
    <2> HIDE DEF sol
    <2> QED BY <1>2, FeeOnUp
  <1>5. CreatorShare(fee, fees) \in 0 .. fee
    <2> HIDE DEF fee
    <2> QED BY <1>4, CreatorShareBound
  <1> HIDE DEF q, sol, fee
  <1>6. vs * vt <= (vs - sol) * (vt + tokens)
    BY <1>2, ProductAfterSell
  <1> QED BY <1>1, <1>2, <1>3, <1>4, <1>5, <1>6

LEMMA QuoteSellCost ==
  ASSUME NEW vs \in Nat, NEW vt \in Nat, NEW rs \in Nat, NEW tokens \in Nat,
         NEW fees \in [protocol : Nat, creator : Nat],
         SellQuoted(vs, vt, rs, tokens, fees)
  PROVE  LET q == QuoteSell(vs, vt, tokens, fees)
         IN  q.sol = q.solOut + q.protocolFee + q.creatorFee
  BY QuoteSellSound

-----------------------------------------------------------------------------
(***************************************************************************)
(* The SDK's arithmetic is the program's.                                  *)
(***************************************************************************)

FeePair == [protocol : Nat, creator : Nat]

\* Both fees of a quote are within its fee, whichever branch it takes.
LEMMA BuyCost ==
  ASSUME NEW vs \in Nat \ {0}, NEW vt \in Nat, NEW rt \in Nat \ {0}, rt < vt,
         NEW budget \in Nat, NEW f \in FeePair
  PROVE  LET q == QuoteBuy(vs, vt, rt, budget, f)
         IN  /\ q.sol \in Nat
             /\ q.totalCost \in Nat
             /\ q.totalCost >= q.sol
             /\ q.totalCost <= budget
  <1> DEFINE net == NetOf(budget, f)
             all == SolToComplete(vs, vt, rt)
             q   == QuoteBuy(vs, vt, rt, budget, f)
  <1>1. net \in 0 .. budget
    BY NetOfFits DEF FeePair
  <1>2. all \in Nat /\ FeeOn(all, f) \in Nat
    BY SolToCompleteBounds, FeeOnUp DEF FeePair
  <1>3. q.totalCost <= budget
    BY BuyWithinBudget DEF FeePair
  <1>4. \/ q.sol = all /\ q.totalCost = all + FeeOn(all, f)
        \/ q.sol = net /\ q.totalCost = net + (budget - net)
    BY DEF QuoteBuy
  <1> HIDE DEF net, all, q
  <1>5. q.sol \in Nat /\ q.totalCost \in Nat /\ q.totalCost >= q.sol
    BY <1>1, <1>2, <1>4
  <1> QED BY <1>3, <1>5 DEF q

LEMMA SameSplit ==
  ASSUME NEW fee \in Nat, NEW f \in FeePair
  PROVE  SplitCreator(fee, f) = CreatorShare(fee, f)
  <1>1. TotalBps(f) \in Nat /\ f.creator \in Nat
    BY TotalBpsNat DEF FeePair
  <1>2. CASE TotalBps(f) = 0
    BY <1>2 DEF SplitCreator, CreatorShare
  <1>3. CASE TotalBps(f) # 0 /\ fee # 0
    BY <1>3 DEF SplitCreator, CreatorShare
  <1>4. CASE TotalBps(f) # 0 /\ fee = 0
    <2>1. (0 * f.creator) \div TotalBps(f) = 0
      BY <1>1, <1>4, Z3
    <2> QED BY <1>4, <2>1 DEF SplitCreator, CreatorShare
  <1> QED BY <1>2, <1>3, <1>4

LEMMA SameBuy ==
  ASSUME NEW c, c.vs \in Nat \ {0}, c.vt \in Nat, c.rt \in Nat, c.rt < c.vt,
         NEW budget \in Nat, NEW f \in FeePair
  PROVE  SdkQuoteBuy(c, budget, f) = QuoteBuy(c.vs, c.vt, c.rt, budget, f)
  <1> DEFINE net == NetOf(budget, f)
             all == SolToComplete(c.vs, c.vt, c.rt)
  <1>1. net \in 0 .. budget
    BY NetOfFits DEF FeePair
  <1>2. all \in Nat /\ FeeOn(all, f) \in Nat
    BY SolToCompleteBounds, FeeOnUp DEF FeePair
  <1>3. /\ SplitCreator(FeeOn(all, f), f) = CreatorShare(FeeOn(all, f), f)
        /\ SplitCreator(budget - net, f) = CreatorShare(budget - net, f)
    <2>1. budget - net \in Nat
      BY <1>1
    <2> HIDE DEF all, net
    <2> QED BY <1>2, <2>1, SameSplit
  <1>4. CASE TokensFor(c.vs, c.vt, net) >= c.rt
    BY <1>3, <1>4 DEF SdkQuoteBuy, QuoteBuy, NetOf, TokensFor, SolToComplete, FeeOn
  <1>5. CASE ~(TokensFor(c.vs, c.vt, net) >= c.rt)
    BY <1>3, <1>5 DEF SdkQuoteBuy, QuoteBuy, NetOf, TokensFor, SolToComplete, FeeOn
  <1> QED BY <1>4, <1>5

LEMMA SameSell ==
  ASSUME NEW c, c.vs \in Nat, c.vt \in Nat \ {0}, NEW tokens \in Nat, NEW f \in FeePair
  PROVE  SdkQuoteSell(c, tokens, f) = QuoteSell(c.vs, c.vt, tokens, f)
  <1> DEFINE vs == c.vs  vt == c.vt
             sol == SolFor(vs, vt, tokens)
  <1>1. sol \in Nat
    <2>1. vs \in Nat /\ vt \in Nat \ {0}
      OBVIOUS
    <2> HIDE DEF vs, vt
    <2>2. sol \in 0 .. vs
      BY <2>1, SolForBound
    <2> QED BY <2>1, <2>2
  <1>2. FeeOn(sol, f) \in Nat
    <2> HIDE DEF sol
    <2> QED BY <1>1, FeeOnUp DEF FeePair
  <1>3. SplitCreator(FeeOn(sol, f), f) = CreatorShare(FeeOn(sol, f), f)
    <2> HIDE DEF sol
    <2> QED BY <1>2, SameSplit
  <1> QED BY <1>3 DEF SdkQuoteSell, QuoteSell, SolFor

\* The widths the SDK ignores bind no quote of u64 arguments.
LEMMA SameBuyQuoted ==
  ASSUME NEW c, c.vs \in Nat \ {0}, c.vt \in Nat, c.rt \in Nat, c.rt < c.vt,
         NEW budget \in Nat, budget <= MaxU64, NEW f \in FeePair
  PROVE  SdkBuyQuoted(c, budget, f) <=> BuyQuoted(c.vs, c.vt, c.rt, budget, f)
  <1> DEFINE q == QuoteBuy(c.vs, c.vt, c.rt, budget, f)
  <1>1. CASE c.rt = 0
    BY <1>1 DEF SdkBuyQuoted, BuyQuoted
  <1>2. CASE c.rt # 0
    <2>1. SdkQuoteBuy(c, budget, f) = q
      BY SameBuy
    <2>2. /\ q.sol \in Nat /\ q.totalCost \in Nat
          /\ q.totalCost >= q.sol /\ q.totalCost <= budget
      BY <1>2, BuyCost
    <2>3. q.tokens \in Nat
      <3>1. NetOf(budget, f) \in Nat
        BY NetOfFits DEF FeePair
      <3>2. TokensFor(c.vs, c.vt, NetOf(budget, f)) \in Nat
        BY <3>1, TokensForBound
      <3> QED BY <3>2 DEF QuoteBuy
    <2> HIDE DEF q
    <2>4. Fits(q.sol) /\ (q.tokens # 0 <=> q.tokens > 0)
      BY <2>2, <2>3, CurveMathAssumption DEF Fits
    <2> QED BY <1>2, <2>1, <2>2, <2>4 DEF SdkBuyQuoted, BuyQuoted, q
  <1> QED BY <1>1, <1>2

LEMMA SameSellQuoted ==
  ASSUME NEW c, c.vs \in Nat \ {0}, c.vt \in Nat \ {0}, c.rs \in Nat,
         c.rs <= MaxU64, NEW tokens \in Nat, NEW f \in FeePair
  PROVE  SdkSellQuoted(c, tokens, f) <=> SellQuoted(c.vs, c.vt, c.rs, tokens, f)
  <1> DEFINE q == QuoteSell(c.vs, c.vt, tokens, f)
  <1>1. SdkQuoteSell(c, tokens, f) = q
    BY SameSell
  <1>2. q.sol \in Nat
    <2> DEFINE vs == c.vs  vt == c.vt
    <2>1. vs \in Nat \ {0} /\ vt \in Nat \ {0}
      OBVIOUS
    <2>2. q.sol = SolFor(vs, vt, tokens)
      BY DEF QuoteSell
    <2> HIDE DEF vs, vt, q
    <2>3. SolFor(vs, vt, tokens) \in 0 .. vs
      BY <2>1, SolForBound
    <2> QED BY <2>1, <2>2, <2>3
  <1>3. q.sol <= c.rs => Fits(q.sol)
    <2> HIDE DEF q
    <2> QED BY <1>2, CurveMathAssumption DEF Fits
  <1> QED BY <1>1, <1>3 DEF SdkSellQuoted, SellQuoted

=============================================================================
