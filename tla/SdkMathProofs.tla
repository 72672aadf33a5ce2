---------------------------- MODULE SdkMathProofs ----------------------------
(***************************************************************************)
(* The closed forms of the program and of the SDK are what MCSdkMath says  *)
(* of them for every u64 reserve, fee and amount, not only for small ones. *)
(***************************************************************************)
EXTENDS MCSdkMath, CurveMathProofs

Reserves ==
  {c \in [vs : Nat \ {0}, vt : Nat \ {0}, rs : Nat, rt : Nat] :
     c.rt < c.vt /\ c.rs < c.vs}

-----------------------------------------------------------------------------
(***************************************************************************)
(* Division.                                                               *)
(***************************************************************************)

\* A quotient reaches x exactly when x times the divisor fits.
LEMMA QuotientReaches ==
  ASSUME NEW a \in Nat, NEW b \in Nat \ {0}, NEW x \in Nat
  PROVE  a \div b >= x <=> x * b <= a
  <1> DEFINE q == a \div b
  <1>1. q \in Nat /\ q * b <= a /\ a < q * b + b
    BY DivDown
  <1> HIDE DEF q
  <1>2. ASSUME q >= x PROVE x * b <= a
    <2>1. x * b <= q * b
      BY <1>1, <1>2, Z3
    <2> QED BY <1>1, <2>1, Z3
  <1>3. ASSUME x * b <= a PROVE q >= x
    <2>1. x * b < (q + 1) * b
      BY <1>1, <1>3, Z3
    <2> QED BY <1>1, <2>1, CancelRight
  <1> QED BY <1>2, <1>3 DEF q

\* Rounding up covers a with the fewest b's.
LEMMA CeilReaches ==
  ASSUME NEW a \in Nat, NEW b \in Nat \ {0}, NEW x \in Nat
  PROVE  CeilDiv(a, b) <= x <=> a <= x * b
  <1> DEFINE q == CeilDiv(a, b)
  <1>1. q \in Nat /\ a <= q * b /\ q * b < a + b
    BY CeilDivUp
  <1> HIDE DEF q
  <1>2. ASSUME q <= x PROVE a <= x * b
    <2>1. q * b <= x * b
      BY <1>1, <1>2, Z3
    <2> QED BY <1>1, <2>1, Z3
  <1>3. ASSUME a <= x * b PROVE q <= x
    <2>1. q * b < (x + 1) * b
      BY <1>1, <1>3, Z3
    <2> QED BY <1>1, <2>1, CancelRight
  <1> QED BY <1>2, <1>3 DEF q

-----------------------------------------------------------------------------
(***************************************************************************)
(* When a closed form reaches a given amount.                              *)
(***************************************************************************)

LEMMA NetReaches ==
  ASSUME NEW budget \in Nat, NEW f \in FeePair, NEW n \in Nat
  PROVE  NetOf(budget, f) >= n <=> n * (BPS + TotalBps(f)) <= budget * BPS
  <1>1. TotalBps(f) \in Nat
    BY TotalBpsNat DEF FeePair
  <1> DEFINE b == BPS + TotalBps(f)
             a == budget * BPS
  <1>2. b \in Nat \ {0} /\ a \in Nat
    BY <1>1, CurveMathAssumption, Z3
  <1>3. NetOf(budget, f) = a \div b
    BY DEF NetOf
  <1> HIDE DEF a, b
  <1>4. a \div b >= n <=> n * b <= a
    BY <1>2, QuotientReaches
  <1> QED BY <1>3, <1>4 DEF a, b

\* sol lamports buy t tokens exactly when they cover the price of t.
LEMMA TokensReach ==
  ASSUME NEW vs \in Nat \ {0}, NEW vt \in Nat, NEW t \in 0 .. vt, NEW sol \in Nat
  PROVE  TokensFor(vs, vt, sol) >= t <=> vs * t <= sol * (vt - t)
  <1> DEFINE a == vt * sol
             b == vs + sol
  <1>1. a \in Nat /\ b \in Nat \ {0} /\ t \in Nat
    BY Z3
  <1>2. TokensFor(vs, vt, sol) = a \div b
    BY DEF TokensFor
  <1>3. a \div b >= t <=> t * b <= a
    <2> HIDE DEF a, b
    <2> QED BY <1>1, QuotientReaches
  <1>4. t * b <= a <=> vs * t <= sol * (vt - t)
    <2>1. t * b = vs * t + t * sol /\ sol * (vt - t) = a - t * sol
      BY Z3
    <2> DEFINE x == t * b  y == vs * t  z == t * sol  w == sol * (vt - t)
    <2>2. x = y + z /\ w = a - z
      BY <2>1
    <2>3. x \in Int /\ y \in Int /\ z \in Int /\ w \in Int
      BY Z3
    <2> HIDE DEF a, b, x, y, z, w
    <2>4. x <= a <=> y <= w
      BY <1>1, <2>2, <2>3
    <2> QED BY <2>4 DEF x, y, w
  <1> QED BY <1>2, <1>3, <1>4

\* t tokens bring s lamports exactly when the curve can spare them for t.
LEMMA SolReaches ==
  ASSUME NEW vs \in Nat, NEW vt \in Nat \ {0}, NEW t \in Nat, NEW s \in Nat
  PROVE  SolFor(vs, vt, t) >= s <=> s * (vt + t) <= vs * t
  <1> DEFINE a == vs * t
             b == vt + t
  <1>1. a \in Nat /\ b \in Nat \ {0}
    BY Z3
  <1>2. SolFor(vs, vt, t) = a \div b
    BY DEF SolFor
  <1> HIDE DEF a, b
  <1>3. a \div b >= s <=> s * b <= a
    BY <1>1, QuotientReaches
  <1> QED BY <1>2, <1>3 DEF a, b

-----------------------------------------------------------------------------
(***************************************************************************)
(* Roundings of the program.                                               *)
(***************************************************************************)

LEMMA NetLargest ==
  ASSUME NEW budget \in Nat, NEW f \in FeePair
  PROVE  /\ NetOf(budget, f) \in Nat
         /\ NetOf(budget, f) + FeeOn(NetOf(budget, f), f) <= budget
         /\ ~((NetOf(budget, f) + 1) + FeeOn(NetOf(budget, f) + 1, f) <= budget)
  <1> DEFINE n == NetOf(budget, f)
             t == TotalBps(f)
             fee == FeeOn(n + 1, f)
  <1>1. n \in Nat /\ n + FeeOn(n, f) <= budget
    BY NetOfFits DEF FeePair
  <1>2. t \in Nat
    BY TotalBpsNat DEF FeePair
  <1>3. ~(n >= n + 1)
    BY <1>1
  <1>4. ~((n + 1) * (BPS + t) <= budget * BPS)
    <2> HIDE DEF n, t
    <2> QED BY <1>1, <1>3, NetReaches DEF n, t
  <1>5. fee \in Nat /\ (n + 1) * t <= fee * BPS
    <2> HIDE DEF n
    <2> QED BY <1>1, FeeOnUp DEF FeePair
  <1> HIDE DEF n, t, fee
  <1>6. ASSUME (n + 1) + fee <= budget PROVE FALSE
    <2>1. ((n + 1) + fee) * BPS <= budget * BPS
      BY <1>1, <1>5, <1>6, CurveMathAssumption, Z3
    <2>2. ((n + 1) + fee) * BPS = (n + 1) * BPS + fee * BPS
      BY <1>1, <1>5, CurveMathAssumption, Z3
    <2>3. (n + 1) * (BPS + t) = (n + 1) * BPS + (n + 1) * t
      BY <1>1, <1>2, CurveMathAssumption, Z3
    <2> DEFINE x == (n + 1) * BPS  y == (n + 1) * t  z == fee * BPS
               w == budget * BPS  u == (n + 1) * (BPS + t)  v == ((n + 1) + fee) * BPS
    <2>4. /\ x \in Int /\ y \in Int /\ z \in Int /\ w \in Int /\ u \in Int /\ v \in Int
          /\ v <= w /\ v = x + z /\ u = x + y /\ ~(u <= w) /\ y <= z
      BY <2>1, <2>2, <2>3, <1>1, <1>2, <1>4, <1>5, CurveMathAssumption, Z3
    <2> HIDE DEF x, y, z, w, u, v
    <2> QED BY <2>4
  <1> QED BY <1>1, <1>6 DEF n, fee

LEMMA TokensTight ==
  ASSUME NEW vs \in Nat \ {0}, NEW vt \in Nat \ {0}, NEW sol \in Nat
  PROVE  LET t == TokensFor(vs, vt, sol)
         IN  /\ t \in 0 .. vt
             /\ (vs + sol) * (vt - t) >= vs * vt
             /\ (vs + sol) * (vt - t - 1) < vs * vt
  <1> DEFINE t == TokensFor(vs, vt, sol)
             a == vt * sol
             b == vs + sol
  <1>1. a \in Nat /\ b \in Nat \ {0}
    BY Z3
  <1>2. t \in Nat /\ t * b <= a /\ a < t * b + b
    <2> HIDE DEF a, b
    <2>1. a \div b \in Nat /\ (a \div b) * b <= a /\ a < (a \div b) * b + b
      BY <1>1, DivDown
    <2> QED BY <2>1 DEF TokensFor, a, b
  <1>3. t <= vt
    <2>1. a < (vt + 1) * b
      BY Z3
    <2> HIDE DEF a, b, t
    <2>2. t * b < (vt + 1) * b
      BY <1>1, <1>2, <2>1, Z3
    <2> QED BY <1>1, <1>2, <2>2, CancelRight
  <1>4. b * vt = vs * vt + a
    BY Z3
  <1> HIDE DEF a, b, t
  <1>5. b * (vt - t) = b * vt - t * b /\ b * (vt - t - 1) = b * vt - t * b - b
    BY <1>1, <1>2, Z3
  <1> DEFINE x == b * (vt - t)  y == b * (vt - t - 1)  z == t * b  k == vs * vt
  <1>6. /\ x \in Int /\ y \in Int /\ z \in Int /\ k \in Int
        /\ x = k + a - z /\ y = k + a - z - b /\ z <= a /\ a < z + b
    BY <1>1, <1>2, <1>4, <1>5, Z3
  <1> HIDE DEF x, y, z, k
  <1>7. x >= k /\ y < k
    BY <1>1, <1>6
  <1> QED BY <1>2, <1>3, <1>7 DEF x, y, k, b, t

LEMMA SolTight ==
  ASSUME NEW vs \in Nat \ {0}, NEW vt \in Nat \ {0}, NEW t \in Nat
  PROVE  LET s == SolFor(vs, vt, t)
         IN  /\ s \in 0 .. vs
             /\ (vs - s) * (vt + t) >= vs * vt
             /\ (vs - s - 1) * (vt + t) < vs * vt
  <1> DEFINE s == SolFor(vs, vt, t)
             a == vs * t
             b == vt + t
  <1>1. a \in Nat /\ b \in Nat \ {0}
    BY Z3
  <1>2. s \in Nat /\ s * b <= a /\ a < s * b + b
    <2> HIDE DEF a, b
    <2>1. a \div b \in Nat /\ (a \div b) * b <= a /\ a < (a \div b) * b + b
      BY <1>1, DivDown
    <2> QED BY <2>1 DEF SolFor, a, b
  <1>3. s \in 0 .. vs
    BY SolForBound
  <1>4. vs * b = vs * vt + a
    BY Z3
  <1> HIDE DEF a, b, s
  <1>5. (vs - s) * b = vs * b - s * b /\ (vs - s - 1) * b = vs * b - s * b - b
    BY <1>1, <1>2, Z3
  <1> DEFINE x == (vs - s) * b  y == (vs - s - 1) * b  z == s * b  k == vs * vt
  <1>6. /\ x \in Int /\ y \in Int /\ z \in Int /\ k \in Int
        /\ x = k + a - z /\ y = k + a - z - b /\ z <= a /\ a < z + b
    BY <1>1, <1>2, <1>4, <1>5, Z3
  <1> HIDE DEF x, y, z, k
  <1>7. x >= k /\ y < k
    BY <1>1, <1>6
  <1> QED BY <1>3, <1>7 DEF x, y, k, b, s

\* The least lamports that buy t tokens.
LEMMA PriceIsLeast ==
  ASSUME NEW vs \in Nat \ {0}, NEW vt \in Nat \ {0}, NEW t \in 1 .. vt - 1
  PROVE  LET p == CeilDiv(vs * t, vt - t)
         IN  /\ p \in Nat \ {0}
             /\ \A n \in Nat : TokensFor(vs, vt, n) >= t <=> n >= p
  <1> DEFINE a == vs * t
             b == vt - t
             p == CeilDiv(a, b)
  <1>1. a \in Nat \ {0} /\ b \in Nat \ {0} /\ t \in 0 .. vt
    BY Z3
  <1>2. p \in Nat /\ \A n \in Nat : p <= n <=> a <= n * b
    <2> HIDE DEF a, b
    <2> QED BY <1>1, CeilDivUp, CeilReaches
  <1>3. \A n \in Nat : TokensFor(vs, vt, n) >= t <=> a <= n * b
    BY <1>1, TokensReach
  <1>4. p # 0
    <2>1. p <= 0 => a <= 0 * b
      BY <1>2
    <2> HIDE DEF a, b, p
    <2> QED BY <1>1, <1>2, <2>1, Z3
  <1> HIDE DEF p
  <1>5. \A n \in Nat : TokensFor(vs, vt, n) >= t <=> n >= p
    BY <1>2, <1>3
  <1> QED BY <1>2, <1>4, <1>5 DEF p

-----------------------------------------------------------------------------
(***************************************************************************)
(* Quotes.                                                                 *)
(***************************************************************************)

\* The cost of w tokens is the least budget that buys them.
LEMMA CostIsLeast ==
  ASSUME NEW vs \in Nat \ {0}, NEW vt \in Nat \ {0}, NEW w \in 1 .. vt - 1,
         NEW f \in FeePair
  PROVE  LET cost == CeilDiv(CeilDiv(vs * w, vt - w) * (BPS + TotalBps(f)), BPS)
         IN  /\ cost \in Nat \ {0}
             /\ \A b \in Nat : TokensFor(vs, vt, NetOf(b, f)) >= w <=> b >= cost
  <1> DEFINE p == CeilDiv(vs * w, vt - w)
             g == BPS + TotalBps(f)
             x == p * g
             cost == CeilDiv(x, BPS)
  <1>1. p \in Nat \ {0} /\ \A n \in Nat : TokensFor(vs, vt, n) >= w <=> n >= p
    BY PriceIsLeast
  <1>2. g \in Nat \ {0}
    BY TotalBpsNat, CurveMathAssumption DEF FeePair
  <1>3. x \in Nat \ {0}
    <2> HIDE DEF p, g
    <2> QED BY <1>1, <1>2, Z3
  <1>4. cost \in Nat /\ \A b \in Nat : cost <= b <=> x <= b * BPS
    <2> HIDE DEF x
    <2> QED BY <1>3, CurveMathAssumption, CeilDivUp, CeilReaches
  <1>5. cost # 0
    <2>1. cost <= 0 => x <= 0 * BPS
      BY <1>4
    <2>2. 0 * BPS = 0
      BY CurveMathAssumption
    <2> HIDE DEF x, cost
    <2> QED BY <1>3, <1>4, <2>1, <2>2
  <1>6. ASSUME NEW b \in Nat
        PROVE  TokensFor(vs, vt, NetOf(b, f)) >= w <=> b >= cost
    <2>1. NetOf(b, f) \in Nat
      BY NetLargest
    <2>2. NetOf(b, f) >= p <=> p * g <= b * BPS
      <3> HIDE DEF p
      <3> QED BY <1>1, NetReaches
    <2>3. x <= b * BPS <=> cost <= b
      BY <1>4
    <2> HIDE DEF p, g, cost
    <2> QED BY <1>1, <1>4, <2>1, <2>2, <2>3
  <1> HIDE DEF cost
  <1> QED BY <1>4, <1>5, <1>6 DEF cost

\* What a budget delivers, whether or not it completes the curve.
LEMMA Delivered ==
  ASSUME NEW vs \in Nat \ {0}, NEW vt \in Nat, NEW rt \in Nat \ {0},
         NEW w \in 1 .. rt, NEW b \in Nat, NEW f \in FeePair
  PROVE  QuoteBuy(vs, vt, rt, b, f).tokens >= w
           <=> TokensFor(vs, vt, NetOf(b, f)) >= w
  <1>1. NetOf(b, f) \in Nat
    BY NetLargest
  <1>2. TokensFor(vs, vt, NetOf(b, f)) \in Nat
    BY <1>1, TokensForBound
  <1> QED BY <1>2 DEF QuoteBuy

-----------------------------------------------------------------------------
(***************************************************************************)
(* The user's curve, fees and amounts.                                     *)
(***************************************************************************)

\* Type correctness: the reserves, fees and amounts asked about.
Quotable ==
  /\ curve \in [vs : 1 .. MaxReserve, vt : 1 .. MaxReserve,
                rs : 0 .. MaxReserve, rt : 0 .. MaxReserve]
  /\ curve.rt < curve.vt
  /\ curve.rs < curve.vs
  /\ fees \in FeeSets
  /\ amount \in 1 .. MaxAmount

\* Every case the instance asks about is one the program can be in: u64
\* reserves with fewer tokens for sale than virtual ones, and valid fees.
THEOREM AlwaysQuotable == Spec => []Quotable
  <1>1. Init => Quotable
    BY SdkMathAssumption DEF Init, Quotable
  <1>2. Quotable /\ [Another]_vars => Quotable'
    BY DEF Quotable, Another, vars
  <1> QED BY <1>1, <1>2, PTL DEF Spec

LEMMA QuotableNumbers ==
  ASSUME Quotable
  PROVE  /\ curve.vs \in Nat \ {0}
         /\ curve.vt \in Nat \ {0}
         /\ curve.rs \in Nat /\ curve.rs <= MaxU64
         /\ curve.rt \in Nat /\ curve.rt < curve.vt
         /\ fees \in FeePair
         /\ amount \in Nat \ {0} /\ amount <= MaxU64
  <1>1. fees \in [protocol : 0 .. BPS, creator : 0 .. BPS]
    BY SdkMathAssumption DEF Quotable
  <1>2. fees \in FeePair
    BY <1>1, CurveMathAssumption DEF FeePair
  <1> QED BY <1>2, SdkMathAssumption, CurveMathAssumption DEF Quotable

\* Every rounding of math.rs is the optimum it stands for, at every u64 reserve.
THEOREM RoundingAlwaysOptimal == Spec => []RoundingIsOptimal
  <1>1. ASSUME Quotable PROVE RoundingIsOptimal
    <2> DEFINE vs == curve.vs  vt == curve.vt  rt == curve.rt
    <2>1. /\ vs \in Nat \ {0} /\ vt \in Nat \ {0} /\ rt \in Nat /\ rt < vt
          /\ fees \in FeePair /\ amount \in Nat
      BY <1>1, QuotableNumbers
    <2>2. NetIsLargest
      BY <2>1, NetLargest DEF NetIsLargest
    <2>3. TradesAreTight
      <3> HIDE DEF vs, vt
      <3>1. LET t == TokensFor(vs, vt, amount)
            IN  /\ (vs + amount) * (vt - t) >= vs * vt
                /\ (vs + amount) * (vt - t - 1) < vs * vt
        BY <2>1, TokensTight
      <3>2. LET s == SolFor(vs, vt, amount)
            IN  /\ (vs - s) * (vt + amount) >= vs * vt
                /\ (vs - s - 1) * (vt + amount) < vs * vt
        BY <2>1, SolTight
      <3> QED BY <3>1, <3>2 DEF TradesAreTight, vs, vt
    <2>4. CompletionIsExact
      <3> DEFINE all == CeilDiv(vs * rt, vt - rt)
      <3>1. SUFFICES ASSUME rt > 0
                     PROVE  /\ TokensFor(vs, vt, all) >= rt
                            /\ TokensFor(vs, vt, all - 1) < rt
        BY DEF CompletionIsExact, SolToComplete
      <3>2. rt \in 1 .. vt - 1
        BY <2>1, <3>1
      <3> HIDE DEF vs, vt, rt
      <3>3. all \in Nat \ {0} /\ \A n \in Nat : TokensFor(vs, vt, n) >= rt <=> n >= all
        BY <2>1, <3>2, PriceIsLeast
      <3> HIDE DEF all
      <3>4. all - 1 \in Nat /\ ~(all - 1 >= all) /\ all >= all
        BY <3>3
      <3>5. TokensFor(vs, vt, all) >= rt /\ ~(TokensFor(vs, vt, all - 1) >= rt)
        BY <3>3, <3>4
      <3>6. TokensFor(vs, vt, all - 1) \in Nat
        BY <2>1, <3>4, TokensForBound
      <3> QED BY <2>1, <3>5, <3>6
    <2> QED BY <2>2, <2>3, <2>4 DEF RoundingIsOptimal
  <1> QED BY <1>1, AlwaysQuotable, PTL

\* Selling what was just bought returns at most what the buy cost.
THEOREM RoundTripAlwaysLoses == Spec => []RoundTripLoses
  <1>1. ASSUME Quotable PROVE RoundTripLoses
    <2> DEFINE vs == curve.vs  vt == curve.vt  rt == curve.rt
               q == QuoteBuy(vs, vt, rt, amount, fees)
               ns == vs + q.sol
               nt == vt - q.tokens
               back == QuoteSell(ns, nt, q.tokens, fees)
               s == SolFor(ns, nt, q.tokens)
    <2>1. SUFFICES ASSUME BuyQuoted(vs, vt, rt, amount, fees)
                   PROVE  back.solOut <= q.totalCost
      BY DEF RoundTripLoses
    <2>2. /\ vs \in Nat \ {0} /\ vt \in Nat \ {0} /\ rt \in Nat /\ rt < vt
          /\ fees \in FeePair /\ amount \in Nat
      BY <1>1, QuotableNumbers
    <2> HIDE DEF vs, vt, rt
    <2>3. /\ q.sol \in Nat \ {0} /\ q.tokens \in 1 .. rt
          /\ vs * vt <= (vs + q.sol) * (vt - q.tokens)
      BY <2>1, <2>2, QuoteBuySound DEF FeePair
    <2>4. q.totalCost \in Nat /\ q.totalCost >= q.sol
      BY <2>1, <2>2, BuyCost DEF BuyQuoted
    <2>5. back.solOut = s - FeeOn(s, fees)
      BY DEF QuoteSell
    <2> HIDE DEF q
    <2>6. ns \in Nat /\ nt \in Nat \ {0} /\ q.tokens \in Nat
      BY <2>2, <2>3
    <2> HIDE DEF ns, nt
    <2>7. s \in Nat /\ s * (nt + q.tokens) <= ns * q.tokens
      BY <2>6, SolForBound
    <2>8. FeeOn(s, fees) \in Nat
      BY <2>2, <2>7, FeeOnUp DEF FeePair
    <2> HIDE DEF s, back
    <2>9. s <= q.sol
      <3>1. nt + q.tokens = vt
        BY <2>2, <2>3 DEF nt
      <3>2. ns * q.tokens = q.sol * vt - (ns * nt - vs * vt)
        BY <2>2, <2>3, Z3 DEF ns, nt
      <3> DEFINE x == s * vt  y == q.sol * vt  z == ns * nt  k == vs * vt
                 u == ns * q.tokens
      <3>3. /\ x \in Int /\ y \in Int /\ z \in Int /\ k \in Int /\ u \in Int
            /\ x <= u /\ u = y - (z - k) /\ k <= z
        BY <2>2, <2>3, <2>6, <2>7, <3>1, <3>2, Z3 DEF ns, nt
      <3>4. x <= y
        <4> HIDE DEF x, y, z, k, u
        <4> QED BY <3>3
      <3>5. y < (q.sol + 1) * vt
        BY <2>2, <2>3, Z3
      <3>6. s * vt < (q.sol + 1) * vt
        <4> DEFINE v == (q.sol + 1) * vt
        <4>1. v \in Int
          BY <2>2, <2>3, Z3
        <4> HIDE DEF v, y, x
        <4>2. x < v
          BY <3>3, <3>4, <3>5, <4>1 DEF v
        <4> QED BY <4>2 DEF x, v
      <3> QED BY <2>2, <2>3, <2>7, <3>6, CancelRight
    <2> QED BY <2>3, <2>4, <2>5, <2>7, <2>8, <2>9
  <1> QED BY <1>1, AlwaysQuotable, PTL

\* solCostForTokens is the least budget that delivers the amount asked for, as
\* long as the curve has as much; asked for more it is the least that buys what
\* the curve has (math.ts:149-159).
THEOREM BudgetAlwaysLeast == Spec => []BudgetIsLeast
  <1>1. ASSUME Quotable PROVE BudgetIsLeast
    <2> DEFINE vs == curve.vs  vt == curve.vt  rt == curve.rt
               w == AtMost(amount, rt)
               cost == CeilDiv(CeilDiv(vs * w, vt - w) * (BPS + TotalBps(fees)), BPS)
               bought(b) == IF BuyQuoted(vs, vt, rt, b, fees)
                            THEN QuoteBuy(vs, vt, rt, b, fees).tokens ELSE 0
    <2>1. /\ vs \in Nat \ {0} /\ vt \in Nat \ {0} /\ rt \in Nat /\ rt < vt
          /\ fees \in FeePair /\ amount \in Nat \ {0}
      BY <1>1, QuotableNumbers
    <2>2. SUFFICES ASSUME rt > 0, Fits(cost)
                   PROVE  /\ amount <= rt => bought(cost) >= amount
                                             /\ bought(cost - 1) < amount
                          /\ amount > rt => bought(cost) = rt
                                            /\ bought(cost - 1) < rt
      BY DEF BudgetIsLeast, SolCostForTokens
    <2> HIDE DEF vs, vt, rt
    <2>3. w \in 1 .. rt /\ w \in 1 .. vt - 1 /\ rt \in Nat \ {0}
      BY <2>1, <2>2 DEF AtMost
    <2>4. /\ amount <= rt => w = amount
          /\ amount > rt => w = rt
      BY <2>1 DEF AtMost
    <2> HIDE DEF w
    <2>5. /\ cost \in Nat \ {0}
          /\ \A b \in Nat : TokensFor(vs, vt, NetOf(b, fees)) >= w <=> b >= cost
      BY <2>1, <2>3, CostIsLeast
    <2> HIDE DEF cost
    <2>6. \A b \in Nat : QuoteBuy(vs, vt, rt, b, fees).tokens >= w <=> b >= cost
      BY <2>1, <2>3, <2>5, Delivered
    \* No budget delivers more than is left.
    <2>7. ASSUME NEW b \in Nat
          PROVE  QuoteBuy(vs, vt, rt, b, fees).tokens \in 0 .. rt
      <3>1. NetOf(b, fees) \in Nat
        BY <2>1, NetLargest
      <3>2. TokensFor(vs, vt, NetOf(b, fees)) \in Nat
        BY <2>1, <3>1, TokensForBound
      <3> QED BY <2>1, <3>2 DEF QuoteBuy
    <2>8. bought(cost) \in w .. rt
      <3> DEFINE q == QuoteBuy(vs, vt, rt, cost, fees)
      <3>1. q.tokens >= w /\ q.tokens \in 0 .. rt
        BY <2>5, <2>6, <2>7
      <3>2. /\ q.sol \in Nat /\ q.totalCost \in Nat
            /\ q.totalCost >= q.sol /\ q.totalCost <= cost
        BY <2>1, <2>3, <2>5, BuyCost
      <3>3. Fits(q.sol)
        <4> HIDE DEF q
        <4> QED BY <2>2, <2>5, <3>2, CurveMathAssumption DEF Fits
      <3>4. q.tokens > 0 /\ q.tokens \in w .. rt
        <4> HIDE DEF q
        <4> QED BY <2>3, <3>1
      <3>5. BuyQuoted(vs, vt, rt, cost, fees)
        BY <2>1, <2>2, <2>5, <3>2, <3>3, <3>4 DEF BuyQuoted
      <3> QED BY <3>4, <3>5
    <2>9. bought(cost - 1) < w
      <3>1. cost - 1 \in Nat /\ ~(cost - 1 >= cost)
        BY <2>5
      <3> DEFINE n == QuoteBuy(vs, vt, rt, cost - 1, fees).tokens
      <3>2. n \in 0 .. rt /\ ~(n >= w)
        BY <2>6, <2>7, <3>1
      <3>3. bought(cost - 1) \in {n, 0}
        OBVIOUS
      <3> HIDE DEF n, bought
      <3> QED BY <2>3, <3>2, <3>3
    <2> HIDE DEF bought
    <2> QED BY <2>1, <2>3, <2>4, <2>8, <2>9
  <1> QED BY <1>1, AlwaysQuotable, PTL

-----------------------------------------------------------------------------
(***************************************************************************)
(* The SDK against the program.                                            *)
(***************************************************************************)

\* A quote of the SDK is the program's, and is given exactly when the program
\* would not refuse: the widths the SDK ignores bind no quote.
THEOREM SdkAlwaysMirrors == Spec => []SdkMirrorsProgram
  <1>1. ASSUME Quotable PROVE SdkMirrorsProgram
    <2> DEFINE c == curve
    <2>1. /\ c.vs \in Nat \ {0} /\ c.vt \in Nat \ {0} /\ c.rt \in Nat /\ c.rt < c.vt
          /\ c.rs \in Nat /\ c.rs <= MaxU64 /\ fees \in FeePair
          /\ amount \in Nat \ {0} /\ amount <= MaxU64
      BY <1>1, QuotableNumbers
    <2> HIDE DEF c
    <2>2. SdkQuoteBuy(c, amount, fees) = QuoteBuy(c.vs, c.vt, c.rt, amount, fees)
      BY <2>1, SameBuy
    <2>3. SdkQuoteSell(c, amount, fees) = QuoteSell(c.vs, c.vt, amount, fees)
      BY <2>1, SameSell
    <2>4. SdkBuyQuoted(c, amount, fees) <=> BuyQuoted(c.vs, c.vt, c.rt, amount, fees)
      BY <2>1, SameBuyQuoted
    <2>5. SdkSellQuoted(c, amount, fees) <=> SellQuoted(c.vs, c.vt, c.rs, amount, fees)
      BY <2>1, SameSellQuoted
    <2>6. SdkSolToComplete(c) =
            IF c.rt = 0 THEN 0 ELSE SolToComplete(c.vs, c.vt, c.rt)
      BY DEF SdkSolToComplete, SolToComplete
    <2>7. \A available \in 0 .. MaxReserve :
            SdkPoolTokenAmount(c, amount, available)
              = PoolTokenAmount(c.vs, c.vt, amount, available)
      BY DEF SdkPoolTokenAmount, PoolTokenAmount
    <2> QED BY <2>2, <2>3, <2>4, <2>5, <2>6, <2>7 DEF SdkMirrorsProgram, c
  <1> QED BY <1>1, AlwaysQuotable, PTL

=============================================================================
