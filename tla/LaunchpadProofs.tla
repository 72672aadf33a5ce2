-------------------------- MODULE LaunchpadProofs --------------------------
(***************************************************************************)
(* The safety of Launchpad, for every set of tokens, keys, parameters,     *)
(* budgets and bounds.  Everything an instruction touches belongs to one   *)
(* mint, so the inductive invariant says of each mint that its accounts    *)
(* are Sound, and the proof has one lemma per instruction about the values *)
(* of one mint's accounts before and after it.                             *)
(***************************************************************************)
EXTENDS LaunchpadFair, CurveMathProofs

-----------------------------------------------------------------------------
(***************************************************************************)
(* The inductive invariant.  c is a curve, l its lamports, v its vault, h  *)
(* what its holders have, s the stray tokens, p its pool, b what was       *)
(* burned, o the terms it was launched with, g the gifts, t the time.      *)
(***************************************************************************)

SoundTypes(c, l, v, h, s, p, b, o, g, t) ==
  /\ c \in Curve
  /\ l \in Nat /\ v \in Nat /\ h \in Nat /\ s \in Nat /\ b \in Nat
  /\ t \in Nat \ {0}
  /\ p \in [sol : Nat, tokens : Nat]
  /\ g \in [sol : Nat, tokens : Nat]
  /\ o \in ValidParams

SoundAbsent(c, v, h, s, p, b, g) ==
  /\ c = NoCurve
  /\ v = 0 /\ h = 0 /\ s = 0 /\ b = 0
  /\ p.tokens = 0 /\ g.sol = 0 /\ g.tokens = 0

\* Real and virtual reserves move together from the terms of the launch.
SoundReserves(c, o) ==
  /\ c.vs = o.vs + c.rs
  /\ c.vt + o.rt = o.vt + c.rt
  /\ c.rt <= o.rt
  /\ c.supply = o.supply
  /\ c.migrationFee = o.migrationFee

SoundProduct(c, o) == o.vs * o.vt <= c.vs * c.vt

SoundStatus(c, t) ==
  /\ c.status = "Complete" <=> c.rt = 0
  /\ c.status = "Complete" <=> c.completedAt # 0
  /\ c.completedAt <= t

\* Where the supply is: in the vault, or with those who took it from there.
SoundTokens(c, v, h, s, p, b, o, g) ==
  /\ v = c.rt + (c.supply - o.rt) + g.tokens
  /\ c.rt + h + s + g.tokens = o.rt
  /\ b = 0 /\ p.tokens = 0

SoundLive(c, v, h, s, p, b, o, g, t) ==
  /\ SoundReserves(c, o)
  /\ SoundProduct(c, o)
  /\ SoundStatus(c, t)
  /\ SoundTokens(c, v, h, s, p, b, o, g)

SoundMigrated(c, v, h, s, p, b, o, g) ==
  /\ c.rs = 0
  /\ c.supply = v + h + s + p.tokens + b
  /\ p.sol > 0 /\ p.tokens > 0
  /\ p.tokens * c.vs <= p.sol * c.vt
  /\ \/ p.sol * c.vt < (p.tokens + 1) * c.vs
     \/ p.tokens = c.supply - o.rt + g.tokens

Sound(c, l, v, h, s, p, b, o, g, t) ==
  /\ SoundTypes(c, l, v, h, s, p, b, o, g, t)
  /\ l = c.rs + c.protocolFees + c.creatorFees + g.sol
  /\ c.status = "Absent" => SoundAbsent(c, v, h, s, p, b, g)
  /\ c.status \in {"Trading", "Complete"} => SoundLive(c, v, h, s, p, b, o, g, t)
  /\ c.status = "Migrated" => SoundMigrated(c, v, h, s, p, b, o, g)

SoundMint(m) ==
  Sound(curve[m], lamports[m], vault[m], circulating[m], stray[m], pool[m],
        burned[m], launch[m], gifts[m], now)

IInv == TypeOK /\ \A m \in Mints : SoundMint(m)

-----------------------------------------------------------------------------
(***************************************************************************)
(* The terms of a launch.                                                  *)
(***************************************************************************)

LEMMA ValidTerms ==
  ASSUME NEW o \in ValidParams
  PROVE  /\ o \in ConfigParams
         /\ o.vs \in Amount \ {0} /\ o.rt \in Amount \ {0}
         /\ o.vt \in Amount /\ o.vt > o.rt
         /\ o.supply \in Amount /\ o.supply > o.rt
         /\ o.migrationFee \in Amount
         /\ o.fees \in Fees
         /\ SolToComplete(o.vs, o.vt, o.rt)
              >= o.migrationFee + MinGraduationLiquidity
  <1>1. o \in ConfigParams
    BY LaunchpadAssumption DEF ValidParams
  <1>2. /\ o.vs \in Amount /\ o.rt \in Amount /\ o.vt \in Amount
        /\ o.supply \in Amount /\ o.migrationFee \in Amount /\ o.fees \in Fees
    BY <1>1 DEF ConfigParams
  <1>3. /\ o.vs > 0 /\ o.rt > 0 /\ o.vt > o.rt /\ o.supply > o.rt
        /\ SolToComplete(o.vs, o.vt, o.rt)
             >= o.migrationFee + MinGraduationLiquidity
    BY DEF ValidParams, Valid
  <1> QED BY <1>1, <1>2, <1>3 DEF Amount

LEMMA Transitive ==
  ASSUME NEW u \in Nat, NEW w \in Nat, NEW x \in Nat, NEW y \in Nat,
         NEW z1 \in Nat, NEW z2 \in Nat, u * w <= x * y, x * y <= z1 * z2
  PROVE  u * w <= z1 * z2
  <1> DEFINE i == u * w
             j == x * y
             k == z1 * z2
  <1>1. i \in Nat /\ j \in Nat /\ k \in Nat
    OBVIOUS
  <1> HIDE DEF i, j, k
  <1>2. i <= j /\ j <= k => i <= k
    BY <1>1
  <1> QED BY <1>2 DEF i, j, k

LEMMA FeesAreNat == Fees \subseteq [protocol : Nat, creator : Nat]
  BY DEF Fees, Amount

LEMMA CurveFields ==
  ASSUME NEW c \in Curve
  PROVE  /\ c.status \in Status
         /\ c.vs \in Amount /\ c.vt \in Amount /\ c.rs \in Amount
         /\ c.rt \in Amount /\ c.supply \in Amount
         /\ c.protocolFees \in Amount /\ c.creatorFees \in Amount
         /\ c.completedAt \in Nat /\ c.migrationFee \in Amount
  BY DEF Curve

LEMMA BudgetIsNat == ASSUME NEW b \in BuyBudgets PROVE b \in Nat
  BY LaunchpadAssumption DEF Amount

LEMMA AmountIsNat == ASSUME NEW x \in Amount PROVE x \in Nat /\ x <= MaxU64
  BY DEF Amount

-----------------------------------------------------------------------------
(***************************************************************************)
(* What each instruction does to the accounts of one mint.                 *)
(***************************************************************************)

LEMMA CreateSound ==
  ASSUME NEW o \in ValidParams, NEW old, NEW l, NEW v, NEW h, NEW s, NEW p,
         NEW b, NEW g, NEW t,
         Sound(NoCurve, l, v, h, s, p, b, old, g, t)
  PROVE  Sound(NewCurve(o), l, o.supply, h, s, p, b, o, g, t)
  <1> DEFINE c == NewCurve(o)
  <1>1. /\ c.status = "Trading" /\ c.vs = o.vs /\ c.vt = o.vt /\ c.rs = 0
        /\ c.rt = o.rt /\ c.supply = o.supply /\ c.protocolFees = 0
        /\ c.creatorFees = 0 /\ c.completedAt = 0
        /\ c.migrationFee = o.migrationFee
    BY DEF NewCurve
  <1>2. /\ o.vs \in Amount \ {0} /\ o.rt \in Amount \ {0} /\ o.vt \in Amount
        /\ o.supply \in Amount /\ o.supply > o.rt /\ o.migrationFee \in Amount
    BY ValidTerms
  <1>3. 0 \in Amount
    BY CurveMathAssumption DEF Amount
  <1>4. /\ NoCurve.status = "Absent" /\ NoCurve.rs = 0
        /\ NoCurve.protocolFees = 0 /\ NoCurve.creatorFees = 0
    BY DEF NoCurve
  <1>5. /\ SoundTypes(NoCurve, l, v, h, s, p, b, old, g, t)
        /\ SoundAbsent(NoCurve, v, h, s, p, b, g)
        /\ l = 0 + 0 + 0 + g.sol
    BY <1>4 DEF Sound
  <1>6. c \in Curve
    BY <1>2, <1>3 DEF NewCurve, Curve, Status
  <1>7. o.supply \in Nat /\ o.rt \in Nat /\ o.vs \in Nat /\ o.vt \in Nat
    BY <1>2 DEF Amount
  <1> HIDE DEF c
  <1>8. SoundTypes(c, l, o.supply, h, s, p, b, o, g, t)
    BY <1>5, <1>6, <1>7 DEF SoundTypes
  <1>9. l = c.rs + c.protocolFees + c.creatorFees + g.sol
    BY <1>1, <1>5
  <1>10. SoundLive(c, o.supply, h, s, p, b, o, g, t)
    BY <1>1, <1>2, <1>5, <1>7
       DEF SoundLive, SoundReserves, SoundProduct, SoundStatus, SoundTokens,
           SoundAbsent, SoundTypes
  <1> QED BY <1>1, <1>8, <1>9, <1>10 DEF Sound, c

\* The fields of a curve after a buy.
LEMMA AfterBuyFields ==
  ASSUME NEW c \in Curve, NEW q, NEW t \in Nat, NEW d, d = AfterBuy(c, q, t),
         c.vs + q.sol \in Amount, c.vt - q.tokens \in Amount,
         c.rs + q.sol \in Amount, c.rt - q.tokens \in Amount,
         c.protocolFees + q.protocolFee \in Amount,
         c.creatorFees + q.creatorFee \in Amount
  PROVE  /\ d \in Curve
         /\ d.vs = c.vs + q.sol /\ d.vt = c.vt - q.tokens
         /\ d.rs = c.rs + q.sol /\ d.rt = c.rt - q.tokens
         /\ d.protocolFees = c.protocolFees + q.protocolFee
         /\ d.creatorFees = c.creatorFees + q.creatorFee
         /\ d.supply = c.supply /\ d.migrationFee = c.migrationFee
         /\ d.status = IF c.rt = q.tokens THEN "Complete" ELSE c.status
         /\ d.completedAt = IF c.rt = q.tokens THEN t ELSE c.completedAt
  BY DEF AfterBuy, Curve, Status

\* What Sound says of a curve that trades or waits, spelled out: the facts the
\* lemmas below start from.
LEMMA LiveFacts ==
  ASSUME NEW c, NEW l, NEW v, NEW h, NEW s, NEW p, NEW b, NEW o, NEW g, NEW t,
         Sound(c, l, v, h, s, p, b, o, g, t),
         c.status \in {"Trading", "Complete"}
  PROVE  /\ SoundTypes(c, l, v, h, s, p, b, o, g, t)
         /\ SoundLive(c, v, h, s, p, b, o, g, t)
         /\ l = c.rs + c.protocolFees + c.creatorFees + g.sol
         /\ c.vs \in Nat \ {0} /\ c.vt \in Nat \ {0} /\ c.vt > c.rt
         /\ c.rs \in Nat /\ c.rt \in Nat
         /\ c.protocolFees \in Nat /\ c.creatorFees \in Nat
         /\ c.supply \in Nat /\ c.completedAt \in Nat
         /\ o.vs \in Nat \ {0} /\ o.vt \in Nat /\ o.rt \in Nat \ {0}
         /\ o.supply \in Nat /\ o.supply > o.rt /\ o.vt > o.rt
         /\ g.sol \in Nat /\ g.tokens \in Nat
  <1>1. /\ SoundTypes(c, l, v, h, s, p, b, o, g, t)
        /\ SoundLive(c, v, h, s, p, b, o, g, t)
        /\ l = c.rs + c.protocolFees + c.creatorFees + g.sol
    BY DEF Sound
  <1>2. /\ c.vs \in Nat /\ c.vt \in Nat /\ c.rs \in Nat /\ c.rt \in Nat
        /\ c.protocolFees \in Nat /\ c.creatorFees \in Nat
        /\ c.supply \in Nat /\ c.completedAt \in Nat
    <2>1. c \in Curve
      BY <1>1 DEF SoundTypes
    <2> QED BY <2>1, CurveFields, AmountIsNat
  <1>3. /\ o.vs \in Nat \ {0} /\ o.vt \in Nat /\ o.rt \in Nat \ {0}
        /\ o.supply \in Nat /\ o.supply > o.rt /\ o.vt > o.rt
    <2>1. o \in ValidParams
      BY <1>1 DEF SoundTypes
    <2> QED BY <2>1, ValidTerms DEF Amount
  <1>4. g.sol \in Nat /\ g.tokens \in Nat
    BY <1>1 DEF SoundTypes
  <1>5. c.vs = o.vs + c.rs /\ c.vt + o.rt = o.vt + c.rt
    BY <1>1 DEF SoundLive, SoundReserves
  <1> QED BY <1>1, <1>2, <1>3, <1>4, <1>5

\* buy.
LEMMA BuySound ==
  ASSUME NEW c, NEW l, NEW v, NEW h, NEW s, NEW p, NEW b, NEW o, NEW g, NEW t,
         Sound(c, l, v, h, s, p, b, o, g, t), c.status = "Trading",
         NEW fees \in Fees, NEW budget \in Nat,
         BuyQuoted(c.vs, c.vt, c.rt, budget, fees),
         NEW q, q = QuoteBuy(c.vs, c.vt, c.rt, budget, fees),
         q.tokens <= v,
         Fits(c.vs + q.sol), Fits(c.rs + q.sol),
         Fits(c.protocolFees + q.protocolFee),
         Fits(c.creatorFees + q.creatorFee),
         NEW d, d = AfterBuy(c, q, t)
  PROVE  /\ Sound(d, l + q.totalCost, v - q.tokens, h + q.tokens, s, p, b, o,
                  g, t)
         /\ c.vs * c.vt <= d.vs * d.vt
  <1>1. /\ SoundTypes(c, l, v, h, s, p, b, o, g, t)
        /\ SoundLive(c, v, h, s, p, b, o, g, t)
        /\ l = c.rs + c.protocolFees + c.creatorFees + g.sol
        /\ c.vs \in Nat \ {0} /\ c.vt \in Nat \ {0} /\ c.vt > c.rt
        /\ c.rs \in Nat /\ c.rt \in Nat
        /\ c.protocolFees \in Nat /\ c.creatorFees \in Nat
        /\ c.supply \in Nat /\ c.completedAt \in Nat
        /\ o.vs \in Nat \ {0} /\ o.vt \in Nat /\ o.rt \in Nat \ {0}
        /\ o.supply \in Nat /\ o.supply > o.rt
        /\ g.sol \in Nat /\ g.tokens \in Nat
    BY LiveFacts
  <1>2. c \in Curve /\ c.vt <= MaxU64 /\ c.rt <= MaxU64
    BY <1>1, CurveFields, AmountIsNat DEF SoundTypes
  <1> DEFINE x == c.vs
             y == c.vt
             z == c.rt
  <1>a. /\ x \in Nat /\ y \in Nat /\ z \in Nat
        /\ fees \in [protocol : Nat, creator : Nat]
        /\ BuyQuoted(x, y, z, budget, fees)
        /\ q = QuoteBuy(x, y, z, budget, fees)
    BY <1>1, FeesAreNat
  <1> HIDE DEF x, y, z
  <1>b. q.sol \in Nat \ {0} /\ q.tokens \in 1 .. z
    BY ONLY <1>a, QuoteBuySound, budget \in Nat
  <1>c. q.protocolFee \in Nat /\ q.creatorFee \in Nat
    BY ONLY <1>a, QuoteBuySound, budget \in Nat
  <1>d. q.totalCost = q.sol + q.protocolFee + q.creatorFee
    BY ONLY <1>a, QuoteBuyCost, budget \in Nat
  <1>0. x * y <= (x + q.sol) * (y - q.tokens)
    BY ONLY <1>a, QuoteBuySound, budget \in Nat
  <1> USE DEF x, y, z
  <1>3. /\ q.sol \in Nat \ {0}
        /\ q.tokens \in 1 .. c.rt
        /\ q.protocolFee \in Nat /\ q.creatorFee \in Nat
        /\ q.totalCost = q.sol + q.protocolFee + q.creatorFee
    BY <1>b, <1>c, <1>d
  <1>4. l \in Nat /\ v \in Nat /\ h \in Nat /\ s \in Nat /\ b \in Nat /\ t \in Nat \ {0}
    BY <1>1 DEF SoundTypes
  <1>5. /\ d \in Curve
        /\ d.vs = c.vs + q.sol /\ d.vt = c.vt - q.tokens
        /\ d.rs = c.rs + q.sol /\ d.rt = c.rt - q.tokens
        /\ d.protocolFees = c.protocolFees + q.protocolFee
        /\ d.creatorFees = c.creatorFees + q.creatorFee
        /\ d.supply = c.supply /\ d.migrationFee = c.migrationFee
        /\ d.status = IF c.rt = q.tokens THEN "Complete" ELSE c.status
        /\ d.completedAt = IF c.rt = q.tokens THEN t ELSE c.completedAt
    <2>1. /\ c.vs + q.sol \in Amount /\ c.vt - q.tokens \in Amount
          /\ c.rs + q.sol \in Amount /\ c.rt - q.tokens \in Amount
          /\ c.protocolFees + q.protocolFee \in Amount
          /\ c.creatorFees + q.creatorFee \in Amount
      BY <1>1, <1>2, <1>3, CurveMathAssumption DEF Fits, Amount
    <2> QED BY <1>2, <1>4, <2>1, AfterBuyFields
  <1>6. SoundTypes(d, l + q.totalCost, v - q.tokens, h + q.tokens, s, p, b, o, g, t)
    BY <1>1, <1>3, <1>4, <1>5 DEF SoundTypes
  <1>7. c.vs * c.vt <= d.vs * d.vt
    BY <1>0, <1>5
  <1>8. SoundLive(d, v - q.tokens, h + q.tokens, s, p, b, o, g, t)
    <2>1. SoundProduct(d, o)
      <3>1. o.vs * o.vt <= c.vs * c.vt
        BY <1>1 DEF SoundLive, SoundProduct
      <3>2. d.vs \in Nat /\ d.vt \in Nat
        BY <1>1, <1>3, <1>5
      <3> QED BY <1>1, <1>7, <3>1, <3>2, Transitive DEF SoundProduct
    <2>2. SoundReserves(d, o)
      <3>1. SoundReserves(c, o) /\ o.migrationFee \in Nat
        BY <1>1, ValidTerms DEF SoundLive, SoundTypes, Amount
      <3>2. /\ d.vs = c.vs + q.sol /\ d.vt = c.vt - q.tokens
            /\ d.rs = c.rs + q.sol /\ d.rt = c.rt - q.tokens
            /\ d.supply = c.supply /\ d.migrationFee = c.migrationFee
        BY <1>5
      <3>3. /\ c.vs \in Nat /\ c.vt \in Nat /\ c.rs \in Nat /\ c.rt \in Nat
            /\ o.vs \in Nat /\ o.vt \in Nat /\ o.rt \in Nat
            /\ q.sol \in Nat /\ q.tokens \in Nat
        BY <1>1, <1>3
      <3> QED BY ONLY <3>1, <3>2, <3>3 DEF SoundReserves
    <2>3. SoundTokens(d, v - q.tokens, h + q.tokens, s, p, b, o, g)
      BY <1>1, <1>3, <1>4, <1>5 DEF SoundLive, SoundTokens
    <2>4. SoundStatus(d, t)
      <3>1. SoundStatus(c, t) /\ t \in Nat \ {0} /\ c.rt \in Nat
        BY <1>1, <1>4 DEF SoundLive
      <3>2. /\ q.tokens \in 1 .. c.rt /\ d.rt = c.rt - q.tokens
            /\ d.status = IF c.rt = q.tokens THEN "Complete" ELSE c.status
            /\ d.completedAt = IF c.rt = q.tokens THEN t ELSE c.completedAt
        BY <1>3, <1>5
      <3> QED BY ONLY <3>1, <3>2, c.status = "Trading" DEF SoundStatus
    <2> QED BY <2>1, <2>2, <2>3, <2>4 DEF SoundLive
  <1>9. l + q.totalCost = d.rs + d.protocolFees + d.creatorFees + g.sol
    BY <1>1, <1>3, <1>5
  <1>10. d.status \in {"Trading", "Complete"}
    BY <1>5
  <1> QED BY <1>6, <1>7, <1>8, <1>9, <1>10 DEF Sound

\* The fields of a curve after a sell: it trades, and no timeout runs.
LEMMA AfterSellFields ==
  ASSUME NEW c \in Curve, NEW q, NEW t \in Nat, NEW d, d = AfterSell(c, q, t),
         c.vs - q.sol \in Amount, c.vt + q.tokens \in Amount,
         c.rs - q.sol \in Amount, c.rt + q.tokens \in Amount,
         c.protocolFees + q.protocolFee \in Amount,
         c.creatorFees + q.creatorFee \in Amount
  PROVE  /\ d \in Curve
         /\ d.vs = c.vs - q.sol /\ d.vt = c.vt + q.tokens
         /\ d.rs = c.rs - q.sol /\ d.rt = c.rt + q.tokens
         /\ d.protocolFees = c.protocolFees + q.protocolFee
         /\ d.creatorFees = c.creatorFees + q.creatorFee
         /\ d.supply = c.supply /\ d.migrationFee = c.migrationFee
         /\ d.status = "Trading"
         /\ d.completedAt = IF Stuck(c, t) THEN 0 ELSE c.completedAt
  BY DEF AfterSell, Curve, Status

\* sell.
LEMMA SellSound ==
  ASSUME NEW c, NEW l, NEW v, NEW h, NEW s, NEW p, NEW b, NEW o, NEW g, NEW t,
         Sound(c, l, v, h, s, p, b, o, g, t),
         c.status = "Trading" \/ Stuck(c, t),
         NEW fees \in Fees, NEW tokens \in Nat, tokens <= h,
         SellQuoted(c.vs, c.vt, c.rs, tokens, fees),
         NEW q, q = QuoteSell(c.vs, c.vt, tokens, fees),
         Fits(c.vt + tokens), Fits(c.rt + tokens),
         Fits(c.protocolFees + q.protocolFee),
         Fits(c.creatorFees + q.creatorFee),
         NEW d, d = AfterSell(c, q, t)
  PROVE  /\ Sound(d, l - q.solOut, v + tokens, h - tokens, s, p, b, o, g, t)
         /\ c.vs * c.vt <= d.vs * d.vt
  <1>1. /\ SoundTypes(c, l, v, h, s, p, b, o, g, t)
        /\ SoundLive(c, v, h, s, p, b, o, g, t)
        /\ l = c.rs + c.protocolFees + c.creatorFees + g.sol
        /\ c.vs \in Nat \ {0} /\ c.vt \in Nat \ {0} /\ c.vt > c.rt
        /\ c.rs \in Nat /\ c.rt \in Nat
        /\ c.protocolFees \in Nat /\ c.creatorFees \in Nat
        /\ c.supply \in Nat /\ c.completedAt \in Nat
        /\ o.vs \in Nat \ {0} /\ o.vt \in Nat /\ o.rt \in Nat \ {0}
        /\ o.supply \in Nat /\ o.supply > o.rt
        /\ g.sol \in Nat /\ g.tokens \in Nat
    <2>1. c.status \in {"Trading", "Complete"}
      BY DEF Stuck
    <2> QED BY <2>1, LiveFacts
  <1>2. c \in Curve /\ c.vs <= MaxU64 /\ c.rs <= MaxU64
    BY <1>1, CurveFields, AmountIsNat DEF SoundTypes
  <1> DEFINE x == c.vs
             y == c.vt
             z == c.rs
  <1>a. /\ x \in Nat /\ y \in Nat /\ z \in Nat
        /\ fees \in [protocol : Nat, creator : Nat]
        /\ SellQuoted(x, y, z, tokens, fees)
        /\ q = QuoteSell(x, y, tokens, fees)
    BY <1>1, FeesAreNat
  <1> HIDE DEF x, y, z
  <1>b. q.sol \in 1 .. x /\ q.sol <= z /\ q.solOut \in Nat \ {0}
    BY ONLY <1>a, QuoteSellSound, tokens \in Nat
  <1>c. q.protocolFee \in Nat /\ q.creatorFee \in Nat
    BY ONLY <1>a, QuoteSellSound, tokens \in Nat
  <1>d. q.sol = q.solOut + q.protocolFee + q.creatorFee
    BY ONLY <1>a, QuoteSellCost, tokens \in Nat
  <1>0. x * y <= (x - q.sol) * (y + tokens)
    BY ONLY <1>a, QuoteSellSound, tokens \in Nat
  <1> USE DEF x, y, z
  <1>3. /\ q.sol \in 1 .. c.vs /\ q.sol <= c.rs
        /\ q.solOut \in Nat \ {0}
        /\ q.protocolFee \in Nat /\ q.creatorFee \in Nat
        /\ q.sol = q.solOut + q.protocolFee + q.creatorFee
        /\ q.tokens = tokens /\ tokens > 0
    BY <1>b, <1>c, <1>d DEF QuoteSell, SellQuoted
  <1>4. l \in Nat /\ v \in Nat /\ h \in Nat /\ s \in Nat /\ b \in Nat /\ t \in Nat \ {0}
    BY <1>1 DEF SoundTypes
  <1>5. /\ d \in Curve
        /\ d.vs = c.vs - q.sol /\ d.vt = c.vt + tokens
        /\ d.rs = c.rs - q.sol /\ d.rt = c.rt + tokens
        /\ d.protocolFees = c.protocolFees + q.protocolFee
        /\ d.creatorFees = c.creatorFees + q.creatorFee
        /\ d.supply = c.supply /\ d.migrationFee = c.migrationFee
        /\ d.status = "Trading"
        /\ d.completedAt = IF Stuck(c, t) THEN 0 ELSE c.completedAt
    <2>1. /\ c.vs - q.sol \in Amount /\ c.vt + q.tokens \in Amount
          /\ c.rs - q.sol \in Amount /\ c.rt + q.tokens \in Amount
          /\ c.protocolFees + q.protocolFee \in Amount
          /\ c.creatorFees + q.creatorFee \in Amount
      BY <1>1, <1>2, <1>3, CurveMathAssumption DEF Fits, Amount
    <2>2. q.tokens = tokens /\ t \in Nat
      BY <1>3, <1>4
    <2> QED BY <1>2, <2>1, <2>2, AfterSellFields
  <1>6. SoundTypes(d, l - q.solOut, v + tokens, h - tokens, s, p, b, o, g, t)
    <2>1. l - q.solOut \in Nat /\ v + tokens \in Nat /\ h - tokens \in Nat
      BY <1>1, <1>3, <1>4
    <2> QED BY <1>1, <1>5, <2>1 DEF SoundTypes
  <1>7. c.vs * c.vt <= d.vs * d.vt
    BY <1>0, <1>5
  <1>8. SoundLive(d, v + tokens, h - tokens, s, p, b, o, g, t)
    <2>1. SoundProduct(d, o)
      <3>1. o.vs * o.vt <= c.vs * c.vt
        BY <1>1 DEF SoundLive, SoundProduct
      <3>2. d.vs \in Nat /\ d.vt \in Nat
        BY <1>1, <1>3, <1>5
      <3> QED BY <1>1, <1>7, <3>1, <3>2, Transitive DEF SoundProduct
    <2>2. SoundTokens(d, v + tokens, h - tokens, s, p, b, o, g)
      BY <1>1, <1>3, <1>4, <1>5 DEF SoundLive, SoundTokens
    <2>3. SoundReserves(d, o)
      <3>1. SoundReserves(c, o) /\ c.rt + h + s + g.tokens = o.rt
        BY <1>1 DEF SoundLive, SoundTokens
      <3>2. /\ d.vs = c.vs - q.sol /\ d.vt = c.vt + tokens
            /\ d.rs = c.rs - q.sol /\ d.rt = c.rt + tokens
            /\ d.supply = c.supply /\ d.migrationFee = c.migrationFee
        BY <1>5
      <3>3. /\ c.vs \in Nat /\ c.vt \in Nat /\ c.rs \in Nat /\ c.rt \in Nat
            /\ o.vs \in Nat /\ o.vt \in Nat /\ o.rt \in Nat
            /\ q.sol \in Nat /\ tokens \in Nat /\ tokens <= h
            /\ h \in Nat /\ s \in Nat /\ g.tokens \in Nat
        BY <1>1, <1>3, <1>4
      <3>4. d.rt <= o.rt
        BY ONLY <3>1, <3>2, <3>3
      <3> QED BY ONLY <3>1, <3>2, <3>3, <3>4 DEF SoundReserves
    <2>4. SoundStatus(d, t)
      <3>1. SoundStatus(c, t) /\ t \in Nat \ {0} /\ c.rt \in Nat
        BY <1>1, <1>4 DEF SoundLive
      <3>2. /\ tokens \in Nat /\ tokens > 0 /\ d.rt = c.rt + tokens
            /\ d.status = "Trading"
            /\ d.completedAt = IF Stuck(c, t) THEN 0 ELSE c.completedAt
        BY <1>3, <1>5
      <3> QED BY ONLY <3>1, <3>2, c.status = "Trading" \/ Stuck(c, t)
              DEF SoundStatus
    <2> QED BY <2>1, <2>2, <2>3, <2>4 DEF SoundLive
  <1>9. l - q.solOut = d.rs + d.protocolFees + d.creatorFees + g.sol
    BY <1>1, <1>3, <1>5
  <1> QED BY <1>5, <1>6, <1>7, <1>8, <1>9 DEF Sound

\* claim_creator_fees and collect_protocol_fees: only the fees owed change.
LEMMA FeesPaidSound ==
  ASSUME NEW c, NEW l, NEW v, NEW h, NEW s, NEW p, NEW b, NEW o, NEW g, NEW t,
         Sound(c, l, v, h, s, p, b, o, g, t), c.status # "Absent",
         NEW d \in Curve,
         d.status = c.status, d.vs = c.vs, d.vt = c.vt, d.rs = c.rs,
         d.rt = c.rt, d.supply = c.supply, d.completedAt = c.completedAt,
         d.migrationFee = c.migrationFee,
         NEW k, k = d.rs + d.protocolFees + d.creatorFees + g.sol
  PROVE  Sound(d, k, v, h, s, p, b, o, g, t)
  <1>1. SoundTypes(c, l, v, h, s, p, b, o, g, t)
    BY DEF Sound
  <1>2. k \in Nat
    BY <1>1, CurveFields, AmountIsNat DEF SoundTypes
  <1>3. SoundTypes(d, k, v, h, s, p, b, o, g, t)
    BY <1>1, <1>2 DEF SoundTypes
  <1>4. ASSUME SoundLive(c, v, h, s, p, b, o, g, t)
        PROVE  SoundLive(d, v, h, s, p, b, o, g, t)
    BY <1>4 DEF SoundLive, SoundReserves, SoundProduct, SoundStatus, SoundTokens
  <1>5. ASSUME SoundMigrated(c, v, h, s, p, b, o, g)
        PROVE  SoundMigrated(d, v, h, s, p, b, o, g)
    BY <1>5 DEF SoundMigrated
  <1> QED BY <1>3, <1>4, <1>5 DEF Sound

\* migrate.
LEMMA MigrateSound ==
  ASSUME NEW c, NEW l, NEW v, NEW h, NEW s, NEW p, NEW b, NEW o, NEW g, NEW t,
         Sound(c, l, v, h, s, p, b, o, g, t), c.status = "Complete",
         NEW cost \in Nat,
         NEW sol, sol = PoolSol(c, cost), sol > 0,
         NEW tokens, tokens = PoolTokenAmount(c.vs, c.vt, sol, v), tokens > 0,
         NEW d, d = AfterMigrate(c)
  PROVE  Sound(d, l - (sol + cost + c.migrationFee + c.protocolFees), 0, h, 0,
               [sol |-> sol, tokens |-> tokens], b + ((v - tokens) + s),
               o, g, t)
  <1>1. /\ SoundTypes(c, l, v, h, s, p, b, o, g, t)
        /\ SoundLive(c, v, h, s, p, b, o, g, t)
        /\ l = c.rs + c.protocolFees + c.creatorFees + g.sol
        /\ c.vs \in Nat \ {0} /\ c.vt \in Nat /\ c.rs \in Nat
        /\ c.protocolFees \in Nat /\ c.creatorFees \in Nat /\ c.supply \in Nat
        /\ o.rt \in Nat /\ g.sol \in Nat /\ g.tokens \in Nat
    BY LiveFacts
  <1>2. v \in Nat /\ h \in Nat /\ s \in Nat /\ b \in Nat /\ c \in Curve
    BY <1>1 DEF SoundTypes
  <1>3. c.migrationFee \in Nat
    BY <1>2, CurveFields, AmountIsNat
  <1>4. sol \in Nat /\ sol = c.rs - c.migrationFee - cost
    BY <1>1, <1>3 DEF PoolSol
  <1>5. /\ d \in Curve /\ d.status = "Migrated" /\ d.rs = 0 /\ d.rt = 0
        /\ d.protocolFees = 0 /\ d.creatorFees = c.creatorFees
        /\ d.vs = c.vs /\ d.vt = c.vt /\ d.supply = c.supply
    <2>1. 0 \in Amount
      BY CurveMathAssumption DEF Amount
    <2> QED BY ONLY <1>2, <2>1, d = AfterMigrate(c)
            DEF AfterMigrate, Curve, Status
  <1> DEFINE vs == c.vs
             vt == c.vt
  <1>6. /\ tokens \in 0 .. v
        /\ tokens * vs <= sol * vt
        /\ sol * vt < (tokens + 1) * vs \/ tokens = v
    <2>1. /\ vs \in Nat \ {0} /\ vt \in Nat /\ v \in Nat /\ sol \in Nat
          /\ tokens = PoolTokenAmount(vs, vt, sol, v)
      BY <1>1, <1>2, <1>4
    <2> HIDE DEF vs, vt
    <2> QED BY ONLY <2>1, PoolTokenBounds
  <1>7. l - (sol + cost + c.migrationFee + c.protocolFees)
          = c.creatorFees + g.sol
    BY <1>1, <1>3, <1>4
  <1>8. /\ c.rt = 0 /\ b = 0
        /\ v = (c.supply - o.rt) + g.tokens
        /\ h + s + g.tokens = o.rt
    BY <1>1, <1>2 DEF SoundLive, SoundStatus, SoundTokens
  <1> DEFINE p2 == [sol |-> sol, tokens |-> tokens]
             b2 == b + ((v - tokens) + s)
             l2 == l - (sol + cost + c.migrationFee + c.protocolFees)
  <1>9. /\ p2 \in [sol : Nat, tokens : Nat] /\ p2.sol = sol /\ p2.tokens = tokens
        /\ b2 \in Nat
    BY <1>2, <1>4, <1>6
  <1>10. SoundMigrated(d, 0, h, 0, p2, b2, o, g)
    <2>1. d.supply = 0 + h + 0 + p2.tokens + b2
      BY <1>1, <1>2, <1>5, <1>6, <1>8, <1>9
    <2>2. p2.tokens * d.vs <= p2.sol * d.vt
      BY <1>5, <1>6, <1>9
    <2>3. \/ p2.sol * d.vt < (p2.tokens + 1) * d.vs
          \/ p2.tokens = d.supply - o.rt + g.tokens
      <3>1. CASE sol * vt < (tokens + 1) * vs
        BY <1>5, <1>9, <3>1
      <3>2. CASE tokens = v
        BY <1>5, <1>8, <1>9, <3>2
      <3> QED BY <1>6, <3>1, <3>2
    <2> QED BY <1>4, <1>5, <1>9, <2>1, <2>2, <2>3 DEF SoundMigrated
  <1>11. l2 \in Nat /\ l2 = d.rs + d.protocolFees + d.creatorFees + g.sol
    BY <1>1, <1>5, <1>7
  <1> HIDE DEF p2, b2, l2
  <1>12. SoundTypes(d, l2, 0, h, 0, p2, b2, o, g, t)
    BY <1>1, <1>5, <1>9, <1>11 DEF SoundTypes
  <1>13. Sound(d, l2, 0, h, 0, p2, b2, o, g, t)
    BY <1>5, <1>10, <1>11, <1>12 DEF Sound
  <1> QED BY <1>13 DEF p2, b2, l2

\* Lamports sent to the curve are on top of what it owes.
LEMMA GiveSolSound ==
  ASSUME NEW c, NEW l, NEW v, NEW h, NEW s, NEW p, NEW b, NEW o, NEW g, NEW t,
         Sound(c, l, v, h, s, p, b, o, g, t), c.status # "Absent",
         NEW n \in Nat, NEW k, k = [g EXCEPT !.sol = @ + n]
  PROVE  Sound(c, l + n, v, h, s, p, b, o, k, t)
  <1>1. SoundTypes(c, l, v, h, s, p, b, o, g, t)
    BY DEF Sound
  <1>2. /\ k \in [sol : Nat, tokens : Nat]
        /\ k.sol = g.sol + n /\ k.tokens = g.tokens
        /\ g.sol \in Nat
    BY <1>1 DEF SoundTypes
  <1>3. SoundTypes(c, l + n, v, h, s, p, b, o, k, t)
    BY <1>1, <1>2 DEF SoundTypes
  <1>4. l + n = c.rs + c.protocolFees + c.creatorFees + k.sol
    <2>1. /\ l = c.rs + c.protocolFees + c.creatorFees + g.sol
          /\ c.rs \in Nat /\ c.protocolFees \in Nat /\ c.creatorFees \in Nat
      BY <1>1, CurveFields, AmountIsNat DEF Sound, SoundTypes
    <2> QED BY <1>2, <2>1
  <1>5. SoundLive(c, v, h, s, p, b, o, g, t)
          => SoundLive(c, v, h, s, p, b, o, k, t)
    BY <1>2 DEF SoundLive, SoundTokens
  <1>6. SoundMigrated(c, v, h, s, p, b, o, g)
          => SoundMigrated(c, v, h, s, p, b, o, k)
    BY <1>2 DEF SoundMigrated
  <1> QED BY <1>3, <1>4, <1>5, <1>6 DEF Sound

\* Tokens a holder gives to the vault or to the pool creator's account.
LEMMA GiveTokensSound ==
  ASSUME NEW c, NEW l, NEW v, NEW h, NEW s, NEW p, NEW b, NEW o, NEW g, NEW t,
         Sound(c, l, v, h, s, p, b, o, g, t),
         c.status \in {"Trading", "Complete"},
         NEW n \in Nat, n <= h, NEW k, k = [g EXCEPT !.tokens = @ + n]
  PROVE  /\ Sound(c, l, v + n, h - n, s, p, b, o, k, t)
         /\ Sound(c, l, v, h - n, s + n, p, b, o, g, t)
  <1>1. /\ SoundTypes(c, l, v, h, s, p, b, o, g, t)
        /\ SoundLive(c, v, h, s, p, b, o, g, t)
        /\ l = c.rs + c.protocolFees + c.creatorFees + g.sol
        /\ c.rt \in Nat /\ c.supply \in Nat /\ o.rt \in Nat
    BY LiveFacts
  <1>2. /\ k \in [sol : Nat, tokens : Nat]
        /\ k.sol = g.sol /\ k.tokens = g.tokens + n /\ g.tokens \in Nat
        /\ v \in Nat /\ h \in Nat /\ s \in Nat
    BY <1>1 DEF SoundTypes
  <1>3. /\ SoundTypes(c, l, v + n, h - n, s, p, b, o, k, t)
        /\ SoundTypes(c, l, v, h - n, s + n, p, b, o, g, t)
    BY <1>1, <1>2 DEF SoundTypes
  <1>4. /\ SoundTokens(c, v + n, h - n, s, p, b, o, k)
        /\ SoundTokens(c, v, h - n, s + n, p, b, o, g)
    BY <1>1, <1>2 DEF SoundLive, SoundTokens
  <1>5. /\ SoundLive(c, v + n, h - n, s, p, b, o, k, t)
        /\ SoundLive(c, v, h - n, s + n, p, b, o, g, t)
    BY <1>1, <1>4 DEF SoundLive
  <1> QED BY <1>1, <1>2, <1>3, <1>5 DEF Sound

\* Time passes.
LEMMA LaterSound ==
  ASSUME NEW c, NEW l, NEW v, NEW h, NEW s, NEW p, NEW b, NEW o, NEW g,
         NEW t \in Nat, Sound(c, l, v, h, s, p, b, o, g, t)
  PROVE  Sound(c, l, v, h, s, p, b, o, g, t + 1)
  <1>1. SoundTypes(c, l, v, h, s, p, b, o, g, t)
    BY DEF Sound
  <1>2. SoundTypes(c, l, v, h, s, p, b, o, g, t + 1) /\ c.completedAt \in Nat
    BY <1>1, CurveFields DEF SoundTypes
  <1>3. SoundLive(c, v, h, s, p, b, o, g, t)
          => SoundLive(c, v, h, s, p, b, o, g, t + 1)
    BY <1>2 DEF SoundLive, SoundStatus
  <1> QED BY <1>2, <1>3 DEF Sound

-----------------------------------------------------------------------------
(***************************************************************************)
(* The step from the accounts of one mint to the state.                    *)
(***************************************************************************)

MintTypes ==
  /\ curve \in [Mints -> Curve]
  /\ lamports \in [Mints -> Nat]
  /\ vault \in [Mints -> Nat]
  /\ circulating \in [Mints -> Nat]
  /\ stray \in [Mints -> Nat]
  /\ pool \in [Mints -> [sol : Nat, tokens : Nat]]
  /\ burned \in [Mints -> Nat]
  /\ launch \in [Mints -> ValidParams]
  /\ gifts \in [Mints -> [sol : Nat, tokens : Nat]]

\* A step that touches the accounts of no other mint than m.
Only(m) ==
  /\ curve' = [curve EXCEPT ![m] = curve'[m]]
  /\ lamports' = [lamports EXCEPT ![m] = lamports'[m]]
  /\ vault' = [vault EXCEPT ![m] = vault'[m]]
  /\ circulating' = [circulating EXCEPT ![m] = circulating'[m]]
  /\ stray' = [stray EXCEPT ![m] = stray'[m]]
  /\ pool' = [pool EXCEPT ![m] = pool'[m]]
  /\ burned' = [burned EXCEPT ![m] = burned'[m]]
  /\ launch' = [launch EXCEPT ![m] = launch'[m]]
  /\ gifts' = [gifts EXCEPT ![m] = gifts'[m]]
  /\ UNCHANGED now

LEMMA OneMint ==
  ASSUME MintTypes, \A n \in Mints : SoundMint(n),
         NEW m \in Mints, Only(m), SoundMint(m)'
  PROVE  MintTypes' /\ \A n \in Mints : SoundMint(n)'
  <1>1. SoundTypes(curve[m], lamports[m], vault[m], circulating[m], stray[m],
                   pool[m], burned[m], launch[m], gifts[m], now)'
    BY DEF SoundMint, Sound
  <1>2. MintTypes'
    BY <1>1 DEF MintTypes, Only, SoundTypes
  <1>3. ASSUME NEW n \in Mints, n # m
        PROVE  SoundMint(n)'
    <2>1. /\ curve'[n] = curve[n] /\ lamports'[n] = lamports[n]
          /\ vault'[n] = vault[n] /\ circulating'[n] = circulating[n]
          /\ stray'[n] = stray[n] /\ pool'[n] = pool[n]
          /\ burned'[n] = burned[n] /\ launch'[n] = launch[n]
          /\ gifts'[n] = gifts[n] /\ now' = now
      BY <1>3 DEF MintTypes, Only
    <2>2. SoundMint(n)
      OBVIOUS
    <2> QED BY <2>1, <2>2 DEF SoundMint
  <1> QED BY <1>2, <1>3

-----------------------------------------------------------------------------
(***************************************************************************)
(* The invariant is inductive: one lemma per instruction.                  *)
(***************************************************************************)

Rest ==
  /\ config \in Config
  /\ amm \in [AmmConfigs -> AmmStates]
  /\ now \in 1 .. MaxTime
  /\ trades \in 0 .. MaxTrades

LEMMA TypeOKParts == TypeOK <=> Rest /\ MintTypes
  BY DEF TypeOK, Rest, MintTypes

LEMMA IInvParts == IInv <=> Rest /\ MintTypes /\ \A m \in Mints : SoundMint(m)
  BY TypeOKParts DEF IInv

LEMMA IInvPrimed ==
  IInv' <=> Rest' /\ MintTypes' /\ \A m \in Mints : SoundMint(m)'
  BY DEF IInv, TypeOK, Rest, MintTypes

LEMMA ConfigFields ==
  ASSUME Rest
  PROVE  config.params \in ValidParams /\ config.params.fees \in Fees
  <1>1. config.params \in ValidParams
    BY DEF Rest, Config
  <1> QED BY <1>1, ValidTerms

LEMMA TimeIsNat == ASSUME Rest PROVE now \in Nat \ {0} /\ now + 1 \in Nat
  BY LaunchpadAssumption DEF Rest

LEMMA InitIInv == Init => IInv
  <1> SUFFICES ASSUME Init
               PROVE  IInv
    OBVIOUS
  <1>1. config.params \in ValidParams
    BY DEF Init
  <1>2. Rest
    <2>1. config \in Config
      BY DEF Init, Config
    <2>2. now \in 1 .. MaxTime /\ trades \in 0 .. MaxTrades
      BY LaunchpadAssumption DEF Init
    <2> QED BY <2>1, <2>2 DEF Init, Rest
  <1>3. NoCurve \in Curve /\ NoCurve.status = "Absent"
    <2>1. 0 \in Amount
      BY CurveMathAssumption DEF Amount
    <2> QED BY <2>1 DEF NoCurve, Curve, Status
  <1>4. MintTypes
    BY <1>1, <1>3 DEF Init, MintTypes
  <1>5. ASSUME NEW m \in Mints
        PROVE  SoundMint(m)
    <2>1. /\ curve[m] = NoCurve /\ lamports[m] = 0 /\ vault[m] = 0
          /\ circulating[m] = 0 /\ stray[m] = 0 /\ burned[m] = 0 /\ now = 1
          /\ pool[m] = [sol |-> 0, tokens |-> 0]
          /\ gifts[m] = [sol |-> 0, tokens |-> 0]
          /\ launch[m] = config.params
      BY DEF Init
    <2>2. SoundTypes(curve[m], lamports[m], vault[m], circulating[m], stray[m],
                     pool[m], burned[m], launch[m], gifts[m], now)
      BY <1>1, <1>3, <2>1 DEF SoundTypes
    <2>3. SoundAbsent(curve[m], vault[m], circulating[m], stray[m], pool[m],
                      burned[m], gifts[m])
      BY <2>1 DEF SoundAbsent
    <2>4. lamports[m] = curve[m].rs + curve[m].protocolFees
                          + curve[m].creatorFees + gifts[m].sol
      BY <2>1 DEF NoCurve
    <2> QED BY <1>3, <2>1, <2>2, <2>3, <2>4 DEF SoundMint, Sound
  <1> QED BY <1>2, <1>4, <1>5, IInvParts

\* Steps that leave every curve alone.
LEMMA AdminStep ==
  ASSUME IInv, Admin
  PROVE  IInv'
  <1>1. UNCHANGED <<curveVars, amm, now, trades>>
    BY DEF Admin, UpdateConfig, SetPaused, TransferAdmin, AcceptAdmin
  <1>2. Rest /\ MintTypes /\ \A m \in Mints : SoundMint(m)
    BY IInvParts
  <1>3. config' \in Config
    <2>1. ASSUME NEW key \in Keys, NEW p \in ParamSets, UpdateConfig(key, p)
          PROVE  config' \in Config
      BY <1>2, <2>1 DEF UpdateConfig, Rest, Config, ValidParams
    <2>2. ASSUME NEW key \in Keys, NEW cp \in BOOLEAN, NEW tp \in BOOLEAN,
                 SetPaused(key, cp, tp)
          PROVE  config' \in Config
      BY <1>2, <2>2 DEF SetPaused, Rest, Config
    <2>3. ASSUME NEW key \in Keys, NEW k \in Keys \cup {NoKey},
                 TransferAdmin(key, k)
          PROVE  config' \in Config
      BY <1>2, <2>3 DEF TransferAdmin, Rest, Config
    <2>4. ASSUME NEW key \in Keys, AcceptAdmin(key)
          PROVE  config' \in Config
      BY <1>2, <2>4 DEF AcceptAdmin, Rest, Config
    <2> QED BY <2>1, <2>2, <2>3, <2>4 DEF Admin
  <1>4. Rest' /\ MintTypes'
    BY <1>1, <1>2, <1>3 DEF Rest, MintTypes, curveVars
  <1>5. ASSUME NEW m \in Mints
        PROVE  SoundMint(m)'
    BY <1>1, <1>2 DEF SoundMint, curveVars
  <1> QED BY <1>4, <1>5, IInvPrimed

LEMMA OutsideStep ==
  ASSUME IInv,
         \/ \E a \in AmmConfigs, s \in AmmStates : RaydiumChange(a, s)
         \/ Tick
  PROVE  IInv'
  <1>1. Rest /\ MintTypes /\ \A m \in Mints : SoundMint(m)
    BY IInvParts
  <1>2. UNCHANGED <<config, curveVars, trades>>
    BY DEF RaydiumChange, Tick
  <1>3. Rest'
    BY <1>1, <1>2, LaunchpadAssumption DEF Rest, RaydiumChange, Tick
  <1>4. MintTypes'
    BY <1>1, <1>2 DEF MintTypes, curveVars
  <1>5. ASSUME NEW m \in Mints
        PROVE  SoundMint(m)'
    <2>1. now \in Nat /\ (now' = now \/ now' = now + 1)
      BY <1>1, TimeIsNat DEF RaydiumChange, Tick
    <2>2. SoundMint(m)
      BY <1>1
    <2>3. CASE now' = now
      BY <1>2, <2>2, <2>3 DEF SoundMint, curveVars
    <2>4. CASE now' = now + 1
      BY <1>2, <2>1, <2>2, <2>4, LaterSound DEF SoundMint, curveVars
    <2> QED BY <2>1, <2>3, <2>4
  <1> QED BY <1>3, <1>4, <1>5, IInvPrimed

\* Steps of one mint.
LEMMA CreateStep ==
  ASSUME IInv, NEW m \in Mints, CreateToken(m)
  PROVE  IInv'
  <1>1. Rest /\ MintTypes /\ \A n \in Mints : SoundMint(n)
    BY IInvParts
  <1>2. Rest'
    BY <1>1 DEF CreateToken, CreateAccepted, Rest
  <1>3. Only(m)
    BY <1>1 DEF CreateToken, CreateAccepted, MintTypes, Only
  <1>4. SoundMint(m)'
    <2>1. config.params \in ValidParams
      BY <1>1, ConfigFields
    <2>2. Sound(curve[m], lamports[m], vault[m], circulating[m], stray[m],
                pool[m], burned[m], launch[m], gifts[m], now)
      BY <1>1 DEF SoundMint
    <2>3. curve[m] = NoCurve
      BY <2>2 DEF CreateToken, CreateAccepted, Sound, SoundAbsent
    <2>4. Sound(NewCurve(config.params), lamports[m], config.params.supply,
                circulating[m], stray[m], pool[m], burned[m], config.params,
                gifts[m], now)
      BY <2>1, <2>2, <2>3, CreateSound
    <2>5. /\ curve'[m] = NewCurve(config.params)
          /\ vault'[m] = config.params.supply /\ launch'[m] = config.params
          /\ lamports'[m] = lamports[m] /\ circulating'[m] = circulating[m]
          /\ stray'[m] = stray[m] /\ pool'[m] = pool[m]
          /\ burned'[m] = burned[m] /\ gifts'[m] = gifts[m] /\ now' = now
      BY <1>1 DEF CreateToken, CreateAccepted, MintTypes
    <2> QED BY <2>4, <2>5 DEF SoundMint
  <1> QED BY <1>1, <1>2, <1>3, <1>4, OneMint, IInvPrimed

\* The second conjunct is "k never decreases" for a buy; likewise below.
LEMMA BuyStep ==
  ASSUME IInv, NEW m \in Mints, NEW budget \in Nat, NEW least,
         Buy(m, budget, least)
  PROVE  /\ IInv' /\ Only(m)
         /\ curve[m].vs * curve[m].vt <= curve'[m].vs * curve'[m].vt
  <1> DEFINE c    == curve[m]
             fees == config.params.fees
             q    == QuoteBuy(c.vs, c.vt, c.rt, budget, fees)
             d    == AfterBuy(c, q, now)
  <1>1. Rest /\ MintTypes /\ \A n \in Mints : SoundMint(n)
    BY IInvParts
  <1>2. /\ trades < MaxTrades /\ trades' = trades + 1
        /\ c.status = "Trading"
        /\ BuyQuoted(c.vs, c.vt, c.rt, budget, fees)
        /\ q.tokens <= vault[m]
        /\ Fits(c.vs + q.sol) /\ Fits(c.rs + q.sol)
        /\ Fits(c.protocolFees + q.protocolFee)
        /\ Fits(c.creatorFees + q.creatorFee)
        /\ curve' = [curve EXCEPT ![m] = d]
        /\ lamports' = [lamports EXCEPT ![m] = lamports[m] + q.totalCost]
        /\ vault' = [vault EXCEPT ![m] = vault[m] - q.tokens]
        /\ circulating' = [circulating EXCEPT ![m] = circulating[m] + q.tokens]
        /\ UNCHANGED <<config, stray, pool, burned, amm, now, launch, gifts>>
    BY DEF Buy, BuyAccepted, BuyQuote
  <1> HIDE DEF q, d
  <1>3. Rest'
    BY <1>1, <1>2, LaunchpadAssumption DEF Rest
  <1>4. Only(m)
    BY <1>1, <1>2 DEF MintTypes, Only
  <1>5. /\ curve'[m] = d /\ lamports'[m] = lamports[m] + q.totalCost
        /\ vault'[m] = vault[m] - q.tokens
        /\ circulating'[m] = circulating[m] + q.tokens
        /\ stray'[m] = stray[m] /\ pool'[m] = pool[m] /\ burned'[m] = burned[m]
        /\ launch'[m] = launch[m] /\ gifts'[m] = gifts[m] /\ now' = now
    BY <1>1, <1>2 DEF MintTypes
  <1>6. fees \in Fees
    BY <1>1, ConfigFields
  <1>7. Sound(c, lamports[m], vault[m], circulating[m], stray[m], pool[m],
              burned[m], launch[m], gifts[m], now)
    BY <1>1 DEF SoundMint
  <1>8. q = QuoteBuy(c.vs, c.vt, c.rt, budget, fees) /\ d = AfterBuy(c, q, now)
    BY DEF q, d
  <1> HIDE DEF c, fees
  <1>9. /\ Sound(d, lamports[m] + q.totalCost, vault[m] - q.tokens,
                 circulating[m] + q.tokens, stray[m], pool[m], burned[m],
                 launch[m], gifts[m], now)
        /\ c.vs * c.vt <= d.vs * d.vt
    BY <1>2, <1>6, <1>7, <1>8, BuySound
  <1>10. SoundMint(m)'
    BY <1>5, <1>9 DEF SoundMint
  <1> QED BY <1>1, <1>3, <1>4, <1>5, <1>9, <1>10, OneMint, IInvPrimed DEF c

LEMMA SellStep ==
  ASSUME IInv, NEW m \in Mints, NEW tokens \in 1 .. circulating[m], NEW least,
         Sell(m, tokens, least)
  PROVE  /\ IInv' /\ Only(m)
         /\ curve[m].vs * curve[m].vt <= curve'[m].vs * curve'[m].vt
  <1> DEFINE c    == curve[m]
             fees == config.params.fees
             q    == QuoteSell(c.vs, c.vt, tokens, fees)
             d    == AfterSell(c, q, now)
  <1>1. Rest /\ MintTypes /\ \A n \in Mints : SoundMint(n)
    BY IInvParts
  <1>2. /\ trades < MaxTrades /\ trades' = trades + 1
        /\ c.status = "Trading" \/ Stuck(c, now)
        /\ SellQuoted(c.vs, c.vt, c.rs, tokens, fees)
        /\ tokens <= circulating[m]
        /\ Fits(c.vt + tokens) /\ Fits(c.rt + tokens)
        /\ Fits(c.protocolFees + q.protocolFee)
        /\ Fits(c.creatorFees + q.creatorFee)
        /\ curve' = [curve EXCEPT ![m] = d]
        /\ lamports' = [lamports EXCEPT ![m] = lamports[m] - q.solOut]
        /\ vault' = [vault EXCEPT ![m] = vault[m] + tokens]
        /\ circulating' = [circulating EXCEPT ![m] = circulating[m] - tokens]
        /\ UNCHANGED <<config, stray, pool, burned, amm, now, launch, gifts>>
    BY DEF Sell, SellAccepted, SellQuote
  <1> HIDE DEF q, d
  <1>3. Rest'
    BY <1>1, <1>2, LaunchpadAssumption DEF Rest
  <1>4. Only(m)
    BY <1>1, <1>2 DEF MintTypes, Only
  <1>5. /\ curve'[m] = d /\ lamports'[m] = lamports[m] - q.solOut
        /\ vault'[m] = vault[m] + tokens
        /\ circulating'[m] = circulating[m] - tokens
        /\ stray'[m] = stray[m] /\ pool'[m] = pool[m] /\ burned'[m] = burned[m]
        /\ launch'[m] = launch[m] /\ gifts'[m] = gifts[m] /\ now' = now
    BY <1>1, <1>2 DEF MintTypes
  <1>6. fees \in Fees /\ tokens \in Nat
    BY <1>1, ConfigFields DEF MintTypes
  <1>7. Sound(c, lamports[m], vault[m], circulating[m], stray[m], pool[m],
              burned[m], launch[m], gifts[m], now)
    BY <1>1 DEF SoundMint
  <1>8. q = QuoteSell(c.vs, c.vt, tokens, fees) /\ d = AfterSell(c, q, now)
    BY DEF q, d
  <1> HIDE DEF c, fees
  <1>9. /\ Sound(d, lamports[m] - q.solOut, vault[m] + tokens,
                 circulating[m] - tokens, stray[m], pool[m], burned[m],
                 launch[m], gifts[m], now)
        /\ c.vs * c.vt <= d.vs * d.vt
    BY <1>2, <1>6, <1>7, <1>8, SellSound
  <1>10. SoundMint(m)'
    BY <1>5, <1>9 DEF SoundMint
  <1> QED BY <1>1, <1>3, <1>4, <1>5, <1>9, <1>10, OneMint, IInvPrimed DEF c

LEMMA ClaimStep ==
  ASSUME IInv, NEW m \in Mints, ClaimCreatorFees(m) \/ CollectProtocolFees(m)
  PROVE  IInv' /\ Only(m)
  <1>1. Rest /\ MintTypes /\ \A n \in Mints : SoundMint(n)
    BY IInvParts
  <1>2. /\ UNCHANGED <<config, vault, circulating, stray, pool, burned, amm, now,
                       trades, launch, gifts>>
        /\ \/ /\ curve[m].creatorFees > 0
              /\ curve' = [curve EXCEPT ![m].creatorFees = 0]
              /\ lamports' = [lamports EXCEPT ![m] = @ - curve[m].creatorFees]
           \/ /\ curve[m].protocolFees > 0
              /\ curve' = [curve EXCEPT ![m].protocolFees = 0]
              /\ lamports' = [lamports EXCEPT ![m] = @ - curve[m].protocolFees]
    BY DEF ClaimCreatorFees, CollectProtocolFees
  <1>3. Rest' /\ Only(m)
    BY <1>1, <1>2 DEF Rest, MintTypes, Only
  <1> DEFINE c == curve[m]
             d == curve'[m]
             g == gifts[m]
  <1>4. /\ c \in Curve /\ lamports[m] \in Nat /\ g.sol \in Nat
        /\ c.rs \in Nat /\ c.protocolFees \in Nat /\ c.creatorFees \in Nat
    <2>1. c \in Curve /\ lamports[m] \in Nat /\ g.sol \in Nat
      BY <1>1 DEF MintTypes
    <2> HIDE DEF c
    <2> QED BY <2>1, CurveFields, AmountIsNat
  <1>5. /\ d \in Curve
        /\ d.status = c.status /\ d.vs = c.vs /\ d.vt = c.vt /\ d.rs = c.rs
        /\ d.rt = c.rt /\ d.supply = c.supply
        /\ d.completedAt = c.completedAt /\ d.migrationFee = c.migrationFee
        /\ \/ /\ c.creatorFees > 0 /\ d.creatorFees = 0
              /\ d.protocolFees = c.protocolFees
              /\ lamports'[m] = lamports[m] - c.creatorFees
           \/ /\ c.protocolFees > 0 /\ d.protocolFees = 0
              /\ d.creatorFees = c.creatorFees
              /\ lamports'[m] = lamports[m] - c.protocolFees
    <2>1. 0 \in Amount
      BY CurveMathAssumption DEF Amount
    <2>2. d = [c EXCEPT !.creatorFees = 0] \/ d = [c EXCEPT !.protocolFees = 0]
      BY <1>1, <1>2 DEF MintTypes
    <2>3. /\ d \in Curve
          /\ d.status = c.status /\ d.vs = c.vs /\ d.vt = c.vt /\ d.rs = c.rs
          /\ d.rt = c.rt /\ d.supply = c.supply
          /\ d.completedAt = c.completedAt /\ d.migrationFee = c.migrationFee
      BY ONLY <1>4, <2>1, <2>2 DEF Curve
    <2>4. \/ /\ c.creatorFees > 0 /\ d = [c EXCEPT !.creatorFees = 0]
             /\ lamports'[m] = lamports[m] - c.creatorFees
          \/ /\ c.protocolFees > 0 /\ d = [c EXCEPT !.protocolFees = 0]
             /\ lamports'[m] = lamports[m] - c.protocolFees
      BY <1>1, <1>2 DEF MintTypes
    <2>5. /\ [c EXCEPT !.creatorFees = 0].creatorFees = 0
          /\ [c EXCEPT !.creatorFees = 0].protocolFees = c.protocolFees
          /\ [c EXCEPT !.protocolFees = 0].protocolFees = 0
          /\ [c EXCEPT !.protocolFees = 0].creatorFees = c.creatorFees
      BY ONLY <1>4 DEF Curve
    <2> QED BY <2>3, <2>4, <2>5
  <1>6. Sound(c, lamports[m], vault[m], circulating[m], stray[m], pool[m],
              burned[m], launch[m], g, now)
    BY <1>1 DEF SoundMint
  <1> HIDE DEF c, d, g
  <1>7. c.status # "Absent"
    BY <1>5, <1>6 DEF Sound, SoundAbsent, NoCurve
  <1>8. lamports[m] = c.rs + c.protocolFees + c.creatorFees + g.sol
    BY <1>6 DEF Sound
  <1>9. lamports'[m] = d.rs + d.protocolFees + d.creatorFees + g.sol
    BY <1>4, <1>5, <1>8
  <1>10. Sound(d, lamports'[m], vault[m], circulating[m], stray[m], pool[m],
               burned[m], launch[m], g, now)
    BY <1>5, <1>6, <1>7, <1>9, FeesPaidSound
  <1>11. SoundMint(m)'
    BY <1>2, <1>10 DEF SoundMint, d, g
  <1> QED BY <1>1, <1>3, <1>11, OneMint, IInvPrimed

LEMMA MigrateStep ==
  ASSUME IInv, NEW m \in Mints, Migrate(m)
  PROVE  IInv' /\ Only(m) /\ curve'[m].status = "Migrated"
  <1> DEFINE c      == curve[m]
             v      == vault[m]
             cost   == amm[config.params.ammConfig].cost
             sol    == PoolSol(c, cost)
             tokens == PoolTokenAmount(c.vs, c.vt, sol, v)
             paid   == sol + cost + c.migrationFee + c.protocolFees
             d      == AfterMigrate(c)
             p      == [sol |-> sol, tokens |-> tokens]
             b      == burned[m] + ((v - tokens) + stray[m])
  <1>1. Rest /\ MintTypes /\ \A n \in Mints : SoundMint(n)
    BY IInvParts
  <1>2. /\ c.status = "Complete" /\ sol > 0 /\ tokens > 0
        /\ curve' = [curve EXCEPT ![m] = d]
        /\ lamports' = [lamports EXCEPT ![m] = lamports[m] - paid]
        /\ vault' = [vault EXCEPT ![m] = 0]
        /\ pool' = [pool EXCEPT ![m] = p]
        /\ burned' = [burned EXCEPT ![m] = b]
        /\ stray' = [stray EXCEPT ![m] = 0]
        /\ UNCHANGED <<config, circulating, amm, now, trades, launch, gifts>>
    BY DEF Migrate, CanGraduate, PoolTokens, Surplus
  <1>3. cost \in Nat
    <2>1. config.params.ammConfig \in AmmConfigs
      BY <1>1, ConfigFields, ValidTerms DEF ConfigParams
    <2>2. amm[config.params.ammConfig] \in [open : BOOLEAN, cost : Amount]
      BY <1>1, <2>1, LaunchpadAssumption DEF Rest
    <2> QED BY <2>2 DEF Amount
  <1>4. Sound(c, lamports[m], v, circulating[m], stray[m], pool[m],
              burned[m], launch[m], gifts[m], now)
    BY <1>1 DEF SoundMint
  <1>5. d = AfterMigrate(c) /\ sol = PoolSol(c, cost)
        /\ tokens = PoolTokenAmount(c.vs, c.vt, sol, v)
    OBVIOUS
  <1> HIDE DEF c, v, cost, sol, tokens, d
  <1>6. Sound(d, lamports[m] - paid, 0, circulating[m], 0, p, b, launch[m],
              gifts[m], now)
    BY <1>2, <1>3, <1>4, <1>5, MigrateSound
  <1>7. d.status = "Migrated"
    BY <1>1 DEF MintTypes, Curve, AfterMigrate, d, c
  <1> HIDE DEF paid, p, b
  <1>8. Rest' /\ Only(m)
    BY <1>1, <1>2 DEF Rest, MintTypes, Only
  <1>9. /\ curve'[m] = d /\ lamports'[m] = lamports[m] - paid /\ vault'[m] = 0
        /\ circulating'[m] = circulating[m] /\ stray'[m] = 0 /\ pool'[m] = p
        /\ burned'[m] = b /\ launch'[m] = launch[m] /\ gifts'[m] = gifts[m]
        /\ now' = now
    BY <1>1, <1>2 DEF MintTypes
  <1>10. SoundMint(m)'
    BY <1>6, <1>9 DEF SoundMint
  <1> QED BY <1>1, <1>7, <1>8, <1>9, <1>10, OneMint, IInvPrimed

LEMMA GiftStep ==
  ASSUME IInv, NEW m \in Mints, Gift(m)
  PROVE  IInv' /\ Only(m) /\ curve' = curve
  <1>1. Rest /\ MintTypes /\ \A n \in Mints : SoundMint(n)
    BY IInvParts
  <1>2. PICK n \in 1 .. MaxGift : GiveSol(m, n) \/ GiveTokens(m, n) \/ GiveStray(m, n)
    BY DEF Gift
  <1>3. n \in Nat
    BY LaunchpadAssumption
  <1>4. Sound(curve[m], lamports[m], vault[m], circulating[m], stray[m],
              pool[m], burned[m], launch[m], gifts[m], now)
    BY <1>1 DEF SoundMint
  <1>5. CASE GiveSol(m, n)
    <2>1. /\ Rest' /\ Only(m) /\ curve' = curve
          /\ lamports'[m] = lamports[m] + n /\ vault'[m] = vault[m]
          /\ circulating'[m] = circulating[m] /\ stray'[m] = stray[m]
          /\ pool'[m] = pool[m] /\ burned'[m] = burned[m]
          /\ launch'[m] = launch[m] /\ now' = now
          /\ gifts'[m] = [gifts[m] EXCEPT !.sol = @ + n]
          /\ curve[m].status # "Absent"
      BY <1>1, <1>5 DEF GiveSol, Rest, MintTypes, Only
    <2>2. SoundMint(m)'
      BY <1>3, <1>4, <2>1, GiveSolSound DEF SoundMint
    <2> QED BY <1>1, <2>1, <2>2, OneMint, IInvPrimed
  <1>6. CASE GiveTokens(m, n)
    <2>1. /\ Rest' /\ Only(m) /\ curve' = curve
          /\ lamports'[m] = lamports[m] /\ vault'[m] = vault[m] + n
          /\ circulating'[m] = circulating[m] - n /\ stray'[m] = stray[m]
          /\ pool'[m] = pool[m] /\ burned'[m] = burned[m]
          /\ launch'[m] = launch[m] /\ now' = now
          /\ gifts'[m] = [gifts[m] EXCEPT !.tokens = @ + n]
          /\ curve[m].status \in {"Trading", "Complete"}
          /\ n <= circulating[m]
      BY <1>1, <1>6 DEF GiveTokens, Rest, MintTypes, Only
    <2>2. SoundMint(m)'
      BY <1>3, <1>4, <2>1, GiveTokensSound DEF SoundMint
    <2> QED BY <1>1, <2>1, <2>2, OneMint, IInvPrimed
  <1>7. CASE GiveStray(m, n)
    <2>1. /\ Rest' /\ Only(m) /\ curve' = curve
          /\ lamports'[m] = lamports[m] /\ vault'[m] = vault[m]
          /\ circulating'[m] = circulating[m] - n /\ stray'[m] = stray[m] + n
          /\ pool'[m] = pool[m] /\ burned'[m] = burned[m]
          /\ launch'[m] = launch[m] /\ now' = now /\ gifts'[m] = gifts[m]
          /\ curve[m].status \in {"Trading", "Complete"}
          /\ n <= circulating[m]
      BY <1>1, <1>7 DEF GiveStray, Rest, MintTypes, Only
    <2>2. SoundMint(m)'
      BY <1>3, <1>4, <2>1, GiveTokensSound, ZenonT(40) DEF SoundMint
    <2> QED BY <1>1, <2>1, <2>2, OneMint, IInvPrimed
  <1> QED BY <1>2, <1>5, <1>6, <1>7

LEMMA MintStep ==
  ASSUME IInv, NEW m \in Mints,
         \/ CreateToken(m) \/ Trade(m) \/ ClaimCreatorFees(m)
         \/ CollectProtocolFees(m) \/ Migrate(m) \/ Gift(m)
  PROVE  IInv'
  <1>1. CASE Trade(m)
    <2>1. ASSUME NEW budget \in BuyBudgets, NEW least \in MinOuts,
                 Buy(m, budget, least)
          PROVE  IInv'
      BY <2>1, BuyStep, BudgetIsNat
    <2>2. ASSUME NEW tokens \in 1 .. circulating[m], NEW least \in MinOuts,
                 Sell(m, tokens, least)
          PROVE  IInv'
      BY <2>2, SellStep
    <2> QED BY <1>1, <2>1, <2>2 DEF Trade
  <1> QED BY <1>1, CreateStep, ClaimStep, MigrateStep, GiftStep

LEMMA StepIInv == IInv /\ [Next]_vars => IInv'
  <1> SUFFICES ASSUME IInv, [Next]_vars
               PROVE  IInv'
    OBVIOUS
  <1>1. CASE Next
    BY <1>1, AdminStep, MintStep, OutsideStep DEF Next
  <1>2. CASE UNCHANGED vars
    <2>1. ASSUME NEW m \in Mints
          PROVE  SoundMint(m)'
      BY <1>2, IInvParts DEF vars, curveVars, SoundMint
    <2>2. Rest' /\ MintTypes'
      BY <1>2, IInvParts DEF vars, curveVars, Rest, MintTypes
    <2> QED BY <2>1, <2>2, IInvPrimed
  <1> QED BY <1>1, <1>2

\* The accounts of every mint are sound in every reachable state, for every
\* set of tokens, keys and parameters and whatever the bounds.
THEOREM Soundness == Spec => []IInv
  BY InitIInv, StepIInv, PTL DEF Spec

-----------------------------------------------------------------------------
(***************************************************************************)
(* What the invariant implies.                                             *)
(***************************************************************************)

LEMMA IInvSolvency == IInv => Solvency
  BY DEF IInv, SoundMint, Sound, Solvency

LEMMA IInvSupply == IInv => SupplyConserved
  <1> SUFFICES ASSUME IInv, NEW m \in Mints
               PROVE  curve[m].supply = vault[m] + circulating[m] + stray[m]
                                          + pool[m].tokens + burned[m]
    BY DEF SupplyConserved
  <1> DEFINE c == curve[m]
             o == launch[m]
             g == gifts[m]
             p == pool[m]
  <1>1. Sound(c, lamports[m], vault[m], circulating[m], stray[m], p, burned[m],
              o, g, now)
    BY DEF IInv, SoundMint
  <1>2. /\ c \in Curve /\ p.tokens \in Nat /\ g.tokens \in Nat
        /\ vault[m] \in Nat /\ circulating[m] \in Nat /\ stray[m] \in Nat
        /\ burned[m] \in Nat /\ o \in ValidParams
    BY <1>1 DEF Sound, SoundTypes
  <1> HIDE DEF c, o, g, p
  <1>3. c.supply \in Nat /\ c.rt \in Nat /\ o.rt \in Nat
    BY <1>2, CurveFields, ValidTerms, AmountIsNat
  <1>4. CASE c.status = "Absent"
    BY <1>1, <1>4 DEF Sound, SoundAbsent, NoCurve, c, p
  <1>5. CASE c.status \in {"Trading", "Complete"}
    <2>1. SoundTokens(c, vault[m], circulating[m], stray[m], p, burned[m], o, g)
      BY <1>1, <1>5 DEF Sound, SoundLive
    <2>2. c.supply = vault[m] + circulating[m] + stray[m] + p.tokens + burned[m]
      BY <1>2, <1>3, <2>1 DEF SoundTokens
    <2> QED BY <2>2 DEF c, p
  <1>6. CASE c.status = "Migrated"
    BY <1>1, <1>6 DEF Sound, SoundMigrated, c, p
  <1>7. c.status \in Status
    BY <1>2, CurveFields
  <1> QED BY <1>4, <1>5, <1>6, <1>7 DEF Status

LEMMA IInvLive ==
  ASSUME IInv, NEW m \in Mints, Live(m)
  PROVE  /\ SoundLive(curve[m], vault[m], circulating[m], stray[m], pool[m],
                      burned[m], launch[m], gifts[m], now)
         /\ curve[m] \in Curve /\ launch[m] \in ValidParams
  BY DEF IInv, SoundMint, Sound, SoundTypes, Live

LEMMA IInvTracks ==
  IInv => /\ VaultBacksCurve /\ ReservesTrackLaunch /\ ProductHolds
          /\ CompleteMeansSoldOut
  <1>1. IInv => VaultBacksCurve
    BY IInvLive DEF VaultBacksCurve, SoundLive, SoundTokens
  <1>2. IInv => ReservesTrackLaunch
    BY IInvLive DEF ReservesTrackLaunch, SoundLive, SoundReserves
  <1>3. IInv => ProductHolds
    BY IInvLive DEF ProductHolds, SoundLive, SoundProduct
  <1>4. IInv => CompleteMeansSoldOut
    BY IInvLive DEF CompleteMeansSoldOut, SoundLive, SoundStatus
  <1> QED BY <1>1, <1>2, <1>3, <1>4

LEMMA IInvPool == IInv => PoolOpensAtCurvePrice
  BY DEF IInv, SoundMint, Sound, SoundMigrated, PoolOpensAtCurvePrice

\* With nothing left to sell, the product bound is the price of the whole
\* offer, which validate compared with the migration fee and the liquidity.
LEMMA FundedArithmetic ==
  ASSUME NEW vs \in Nat, NEW vt \in Nat, NEW rt \in Nat, rt < vt,
         NEW rs \in Nat, vs * vt <= (vs + rs) * (vt - rt)
  PROVE  SolToComplete(vs, vt, rt) <= rs
  <1>1. vs * rt <= rs * (vt - rt)
    OBVIOUS
  <1> QED BY <1>1, SolToCompleteBounds

LEMMA IInvFunded == IInv => GraduationFunded
  <1> SUFFICES ASSUME IInv, NEW m \in Mints, curve[m].status = "Complete"
               PROVE  curve[m].rs >= curve[m].migrationFee + MinGraduationLiquidity
    BY DEF GraduationFunded
  <1> DEFINE c == curve[m]
             o == launch[m]
  <1>1. /\ SoundReserves(c, o) /\ SoundProduct(c, o) /\ SoundStatus(c, now)
        /\ c \in Curve /\ o \in ValidParams
    BY IInvLive DEF Live, SoundLive
  <1> HIDE DEF c, o
  <1>2. /\ o.vs \in Nat /\ o.vt \in Nat /\ o.rt \in Nat /\ o.rt < o.vt
        /\ o.migrationFee \in Nat
        /\ SolToComplete(o.vs, o.vt, o.rt) >= o.migrationFee + MinGraduationLiquidity
    BY <1>1, ValidTerms, AmountIsNat
  <1>3. c.rs \in Nat /\ c.vs \in Nat /\ c.vt \in Nat /\ c.rt \in Nat
    BY <1>1, CurveFields, AmountIsNat
  <1>4. c.rt = 0
    BY <1>1 DEF SoundStatus, c
  <1>5. /\ c.vs = o.vs + c.rs /\ c.vt = o.vt - o.rt
        /\ c.migrationFee = o.migrationFee
    BY <1>1, <1>2, <1>3, <1>4 DEF SoundReserves
  <1>6. o.vs * o.vt <= (o.vs + c.rs) * (o.vt - o.rt)
    BY <1>1, <1>5 DEF SoundProduct
  <1>7. SolToComplete(o.vs, o.vt, o.rt) <= c.rs
    BY <1>2, <1>3, <1>6, FundedArithmetic
  <1>8. /\ SolToComplete(o.vs, o.vt, o.rt) \in Nat
        /\ MinGraduationLiquidity \in Nat
    <2>1. SolToComplete(o.vs, o.vt, o.rt) \in Nat
      BY ONLY <1>2, SolToCompleteBounds
    <2>2. MinGraduationLiquidity \in Nat
      BY LaunchpadAssumption DEF Amount
    <2> QED BY <2>1, <2>2
  <1>9. c.rs >= c.migrationFee + MinGraduationLiquidity
    BY <1>2, <1>3, <1>5, <1>7, <1>8
  <1> QED BY <1>9 DEF c

\* Paying more than the real reserves would take the virtual SOL below its
\* starting value while the virtual tokens are at most at theirs: the product
\* would be below the one of the launch.
LEMMA PayableArithmetic ==
  ASSUME NEW vs \in Nat, NEW vt \in Nat \ {0}, NEW rs \in Nat, NEW t \in Nat,
         NEW vs0 \in Nat, NEW vt0 \in Nat \ {0},
         vs = vs0 + rs, vt + t <= vt0, vs0 * vt0 <= vs * vt
  PROVE  SolFor(vs, vt, t) <= rs
  <1> DEFINE x == SolFor(vs, vt, t)
  <1>1. x \in 0 .. vs /\ x * (vt + t) <= vs * t
    BY SolForBound
  <1> HIDE DEF x
  <1>2. vs * vt <= (vs - x) * (vt + t)
    BY <1>1, ProductAfterSell
  <1>3. SUFFICES ASSUME x > rs
                 PROVE  FALSE
    BY <1>1, <1>3 DEF x
  <1> DEFINE y == vs - x
             z == vt + t
  <1>4. y \in Nat /\ z \in Nat /\ y + 1 <= vs0 /\ z <= vt0
    BY <1>1, <1>3
  <1>5. vs * vt <= y * z
    BY <1>2
  <1> HIDE DEF y, z
  <1>6. y * z <= y * vt0
    BY <1>4
  <1>7. (y + 1) * vt0 <= vs0 * vt0
    BY <1>4
  <1>8. y * vt0 < (y + 1) * vt0
    BY <1>4
  <1> DEFINE a == vs * vt
             b == y * z
             d == y * vt0
             e == (y + 1) * vt0
             f == vs0 * vt0
  <1>9. a \in Nat /\ b \in Nat /\ d \in Nat /\ e \in Nat /\ f \in Nat
    BY <1>4
  <1>10. a <= b /\ b <= d /\ d < e /\ e <= f /\ f <= a
    BY <1>5, <1>6, <1>7, <1>8
  <1> HIDE DEF a, b, d, e, f
  <1> QED BY <1>9, <1>10

LEMMA IInvPayable == IInv => HoldersCanBePaid
  <1> SUFFICES ASSUME IInv, NEW m \in Mints, Live(m),
                      NEW t \in 1 .. circulating[m]
               PROVE  SolFor(curve[m].vs, curve[m].vt, t) <= curve[m].rs
    BY DEF HoldersCanBePaid
  <1> DEFINE c == curve[m]
             o == launch[m]
             h == circulating[m]
             s == stray[m]
             g == gifts[m]
  <1>1. /\ SoundReserves(c, o) /\ SoundProduct(c, o)
        /\ c.rt + h + s + g.tokens = o.rt
        /\ c \in Curve /\ o \in ValidParams
    BY IInvLive DEF SoundLive, SoundTokens
  <1>2. h \in Nat /\ s \in Nat /\ g.tokens \in Nat
    BY IInvParts DEF MintTypes
  <1> HIDE DEF c, o, s, g
  <1>3. /\ o.vs \in Nat /\ o.vt \in Nat \ {0} /\ o.rt \in Nat /\ o.rt < o.vt
    BY <1>1, ValidTerms DEF Amount
  <1>4. c.rs \in Nat /\ c.vs \in Nat /\ c.vt \in Nat /\ c.rt \in Nat
    BY <1>1, CurveFields, AmountIsNat
  <1>5. /\ c.vs = o.vs + c.rs /\ c.vt + o.rt = o.vt + c.rt
        /\ o.vs * o.vt <= c.vs * c.vt
    BY <1>1 DEF SoundReserves, SoundProduct
  <1>6. t \in Nat /\ t <= h
    BY <1>2
  <1> HIDE DEF h
  <1>7. c.vt \in Nat \ {0} /\ c.vt + t <= o.vt
    BY <1>1, <1>2, <1>3, <1>4, <1>5, <1>6
  <1>8. SolFor(c.vs, c.vt, t) <= c.rs
    BY <1>3, <1>4, <1>5, <1>6, <1>7, PayableArithmetic
  <1> QED BY <1>8 DEF c

-----------------------------------------------------------------------------
(***************************************************************************)
(* The theorems about Spec.                                                *)
(***************************************************************************)

\* Every variable keeps its type: no reserve or fee ever leaves the u64s.
THEOREM TypeCorrect == Spec => []TypeOK
  <1>1. IInv => TypeOK
    BY DEF IInv
  <1> QED BY <1>1, Soundness, PTL

\* The invariant documented on BondingCurve (state.rs): the curve account
\* covers its reserves and the fees it owes, to the lamport.
THEOREM Solvent == Spec => []Solvency
  BY IInvSolvency, Soundness, PTL

\* No token is created or lost between vault, holders, pool and burn.
THEOREM SupplyIsConserved == Spec => []SupplyConserved
  BY IInvSupply, Soundness, PTL

\* The reserves and the vault follow the terms of the launch, and the product
\* of the virtual reserves stays at least the one of the launch.
THEOREM ReservesSound == Spec => []CurveInOrder
  <1>1. IInv => CurveInOrder
    BY IInvTracks DEF CurveInOrder
  <1> QED BY <1>1, Soundness, PTL

\* Any part of the circulating supply can be sold back at any time: sell
\* never lacks the reserves to pay for it.
THEOREM HoldersArePayable == Spec => []HoldersCanBePaid
  BY IInvPayable, Soundness, PTL

\* A completed curve has raised at least its migration fee and the minimum
\* liquidity of a pool, whatever the trades and the changes of configuration.
THEOREM CompletedIsFunded == Spec => []GraduationFunded
  BY IInvFunded, Soundness, PTL

\* Graduation opens the pool at the curve's final price or just above it.
THEOREM PoolPrice == Spec => []PoolOpensAtCurvePrice
  BY IInvPool, Soundness, PTL

\* The product of one mint over one step, for KNeverDecreases.
LEMMA ProductStep ==
  ASSUME IInv, [Next]_vars, NEW m \in Mints, Live(m), Live(m)'
  PROVE  curve[m].vs * curve[m].vt <= (curve[m].vs * curve[m].vt)'
  <1> DEFINE c == curve[m]
             d == curve'[m]
  <1>1. c \in Curve
    BY DEF IInv, TypeOK
  <1>2. ASSUME d = c
        PROVE  c.vs * c.vt <= d.vs * d.vt
    <2>1. c.vs \in Nat /\ c.vt \in Nat
      BY <1>1, CurveFields, AmountIsNat
    <2> DEFINE k == c.vs * c.vt
    <2>2. k \in Nat
      BY <2>1
    <2>3. k <= k
      <3> HIDE DEF k
      <3> QED BY <2>2
    <2> QED BY <1>2, <2>3
  <1>3. ASSUME NEW n \in Mints, n # m, Only(n)
        PROVE  d = c
    BY <1>3 DEF Only, IInv, TypeOK
  <1>4. ASSUME NEW n \in Mints,
               \/ CreateToken(n) \/ Trade(n) \/ ClaimCreatorFees(n)
               \/ CollectProtocolFees(n) \/ Migrate(n) \/ Gift(n)
        PROVE  c.vs * c.vt <= d.vs * d.vt
    <2>1. CASE CreateToken(n)
      <3>1. n # m
        BY <2>1 DEF CreateToken, CreateAccepted, Live
      <3> QED BY <1>2, <2>1, <3>1 DEF CreateToken, CreateAccepted, IInv, TypeOK
    <2>2. ASSUME NEW budget \in BuyBudgets, NEW least \in MinOuts,
                 Buy(n, budget, least)
          PROVE  c.vs * c.vt <= d.vs * d.vt
      <3>1. Only(n) /\ curve[n].vs * curve[n].vt <= curve'[n].vs * curve'[n].vt
        BY <2>2, BuyStep, BudgetIsNat
      <3> QED BY <1>2, <1>3, <3>1
    <2>3. ASSUME NEW tokens \in 1 .. circulating[n], NEW least \in MinOuts,
                 Sell(n, tokens, least)
          PROVE  c.vs * c.vt <= d.vs * d.vt
      <3>1. Only(n) /\ curve[n].vs * curve[n].vt <= curve'[n].vs * curve'[n].vt
        BY <2>3, SellStep
      <3> QED BY <1>2, <1>3, <3>1
    <2>4. CASE ClaimCreatorFees(n) \/ CollectProtocolFees(n)
      <3>1. Only(n)
        BY <2>4, ClaimStep
      <3>2. d.vs = c.vs /\ d.vt = c.vt
        <4>1. \/ curve' = [curve EXCEPT ![n].creatorFees = 0]
              \/ curve' = [curve EXCEPT ![n].protocolFees = 0]
          BY <2>4 DEF ClaimCreatorFees, CollectProtocolFees
        <4>2. curve \in [Mints -> Curve]
          BY DEF IInv, TypeOK
        <4>3. \/ d = c \/ d = [c EXCEPT !.creatorFees = 0]
              \/ d = [c EXCEPT !.protocolFees = 0]
          BY <4>1, <4>2
        <4> QED BY <1>1, <4>3 DEF Curve
      <3>3. c.vs * c.vt <= c.vs * c.vt
        BY <1>1, CurveFields, AmountIsNat
      <3> QED BY <3>2, <3>3
    <2>5. CASE Migrate(n)
      <3>1. Only(n) /\ curve'[n].status = "Migrated"
        BY <2>5, MigrateStep
      <3>2. n # m
        BY <3>1 DEF Live
      <3> QED BY <1>2, <1>3, <3>1, <3>2
    <2>6. CASE Gift(n)
      BY <1>2, <2>6, GiftStep
    <2> QED BY <1>4, <2>1, <2>2, <2>3, <2>4, <2>5, <2>6 DEF Trade
  <1>5. CASE UNCHANGED curve
    BY <1>2, <1>5
  <1>6. \/ UNCHANGED curve
        \/ \E n \in Mints :
             \/ CreateToken(n) \/ Trade(n) \/ ClaimCreatorFees(n)
             \/ CollectProtocolFees(n) \/ Migrate(n) \/ Gift(n)
    BY DEF Next, vars, curveVars, Admin, UpdateConfig, SetPaused,
           TransferAdmin, AcceptAdmin, RaydiumChange, Tick
  <1> QED BY <1>4, <1>5, <1>6

\* k never decreases (math.rs), whatever the budgets, fees and reserves.
THEOREM ProductNeverDecreases == Spec => KNeverDecreases
  <1>1. IInv /\ [Next]_vars =>
          [\A m \in Mints : Live(m) /\ Live(m)' =>
             curve[m].vs * curve[m].vt <= (curve[m].vs * curve[m].vt)']_vars
    BY ProductStep
  <1> QED BY <1>1, Soundness, PTL DEF Spec, KNeverDecreases

-----------------------------------------------------------------------------
(***************************************************************************)
(* The vault covers the pool.  validate compares the supply kept for the   *)
(* pool with its size under exact arithmetic, while every trade rounds in  *)
(* the curve's favor and moves the final price.  The comment on            *)
(* max_pool_tokens says why that is harmless: what a graduation takes from *)
(* the SOL raised outweighs this dust.  Here is how much of it there is:   *)
(* a trade adds less than the virtual tokens of the launch to the product, *)
(* so n trades drive the price up as n lamports would.                     *)
(***************************************************************************)

\* What the argument needs of the terms: a lamport never buys less than one
\* token unit, and a graduation costs a lamport per trade (MaxTrades of them in
\* a behaviour, over all tokens).  A token launches with some 10^10 lamports of
\* virtual SOL against 10^14 token units kept from sale, and a graduation costs
\* more than 10^8 lamports.
DustIsSmall ==
  \A p \in ValidParams :
    /\ p.vs + MaxTrades <= p.vt - p.rt
    /\ \A s \in AmmStates : s.open => MaxTrades <= p.migrationFee + s.cost

\* The product has grown by less than the virtual tokens at each of n trades.
WithinDust(c, o, n) == c.vs * c.vt <= (o.vs + n) * o.vt

DustInv == \A m \in Mints : Live(m) => WithinDust(curve[m], launch[m], trades)

\* A trade that adds at most vt0 to the product uses up its allowance.
LEMMA DustOfTrade ==
  ASSUME NEW k \in Nat, NEW k1 \in Nat, NEW vs0 \in Nat, NEW vt0 \in Nat,
         NEW n \in Nat, k <= (vs0 + n) * vt0, k1 <= k + vt0
  PROVE  k1 <= (vs0 + (n + 1)) * vt0
  <1> DEFINE a == (vs0 + n) * vt0
  <1>1. a \in Nat /\ (vs0 + (n + 1)) * vt0 = a + vt0
    OBVIOUS
  <1> HIDE DEF a
  <1>2. k <= a
    BY DEF a
  <1> QED BY <1>1, <1>2

\* A buy that leaves tokens to sell: the dust is less than the virtual SOL,
\* which is still below the virtual tokens of the launch.
LEMMA DustOfBuy ==
  ASSUME NEW vs \in Nat \ {0}, NEW vt \in Nat, NEW sol \in Nat, NEW left \in Nat,
         NEW v \in Nat \ {0}, v < left, left <= vt,
         vt * sol < ((vt - left) + 1) * (vs + sol),
         NEW x \in Nat, NEW vt0 \in Nat, vs * vt <= x * vt0, x <= v
  PROVE  (vs + sol) * left <= vs * vt + vt0
  <1> DEFINE z == vs + sol
             k == vs * vt
             y == left - 1
  <1>1. z \in Nat /\ k \in Nat /\ y \in Nat /\ v <= y
    OBVIOUS
  <1>2. z * left < k + z
    OBVIOUS
  <1>3. z * left = z * y + z
    OBVIOUS
  <1>4. z * y \in Nat /\ z * y < k
    <2> HIDE DEF z, k, y
    <2> DEFINE a == z * left
               b == z * y
    <2>1. a = b + z /\ a < k + z /\ b \in Nat
      BY <1>1, <1>2, <1>3
    <2> HIDE DEF a, b
    <2>2. b < k
      BY <1>1, <2>1
    <2> QED BY <2>1, <2>2 DEF b
  <1>5. z * v <= z * y
    <2> HIDE DEF z, y, k
    <2> QED BY <1>1
  <1>6. x * vt0 <= v * vt0
    OBVIOUS
  <1>7. z < vt0
    <2> HIDE DEF z, y, k
    <2>1. SUFFICES ASSUME vt0 <= z
                   PROVE  FALSE
      BY <1>1, <2>1
    <2>2. v * vt0 <= z * v
      BY <1>1, <2>1
    <2> DEFINE a == z * v
               b == z * y
               d == v * vt0
               e == x * vt0
    <2>3. a \in Nat /\ b \in Nat /\ d \in Nat /\ e \in Nat
      BY <1>1
    <2>4. a <= b /\ b < k /\ k <= e /\ e <= d /\ d <= a
      BY <1>4, <1>5, <1>6, <2>2 DEF k
    <2> HIDE DEF a, b, d, e
    <2> QED BY <1>1, <2>3, <2>4
  <1> HIDE DEF z, y
  <1>8. z * left \in Nat /\ z * left < k + vt0
    <2> HIDE DEF k
    <2> DEFINE a == z * left
    <2>1. a \in Nat /\ a < k + z
      BY <1>1, <1>2
    <2> HIDE DEF a
    <2>2. a < k + vt0
      BY <1>1, <1>7, <2>1
    <2> QED BY <2>1, <2>2 DEF a
  <1>9. z * left <= k + vt0
    <2> DEFINE a == z * left
    <2> HIDE DEF k, a
    <2>1. a <= k + vt0
      BY <1>1, <1>8 DEF a
    <2> QED BY <2>1 DEF a
  <1> QED BY <1>9 DEF z, k

\* The buy that completes the curve: the price is rounded up to a lamport.
LEMMA DustOfCompletion ==
  ASSUME NEW vs \in Nat, NEW vt \in Nat, NEW rt \in Nat, rt < vt,
         NEW vt0 \in Nat, vt <= vt0
  PROVE  (vs + SolToComplete(vs, vt, rt)) * (vt - rt) <= vs * vt + vt0
  <1> DEFINE s == SolToComplete(vs, vt, rt)
             w == vt - rt
  <1>1. w \in Nat \ {0} /\ vs * rt \in Nat
    OBVIOUS
  <1>2. s \in Nat /\ s * w < vs * rt + w
    BY <1>1, CeilDivUp DEF SolToComplete
  <1> HIDE DEF s
  <1>3. (vs + s) * w = vs * w + s * w
    BY <1>1, <1>2
  <1>4. vs * w + vs * rt = vs * vt
    OBVIOUS
  <1> DEFINE a == (vs + s) * w
             b == vs * w
             d == s * w
             e == vs * rt
             k == vs * vt
  <1>5. a \in Nat /\ b \in Nat /\ d \in Nat /\ e \in Nat /\ k \in Nat
    BY <1>1, <1>2
  <1>6. a = b + d /\ d < e + w /\ b + e = k /\ w <= vt0
    BY <1>2, <1>3, <1>4
  <1> HIDE DEF a, b, d, e, k
  <1>7. w \in Nat
    BY <1>1
  <1> HIDE DEF w
  <1>8. a <= k + vt0
    BY <1>5, <1>6, <1>7
  <1> QED BY <1>8 DEF a, k, s, w

\* A sell: the payment is rounded down to a lamport.
LEMMA DustOfSell ==
  ASSUME NEW vs \in Nat, NEW vt \in Nat \ {0}, NEW t \in Nat,
         NEW vt0 \in Nat, vt + t <= vt0
  PROVE  (vs - SolFor(vs, vt, t)) * (vt + t) <= vs * vt + vt0
  <1> DEFINE s == SolFor(vs, vt, t)
             w == vt + t
  <1>1. w \in Nat \ {0} /\ vs * t \in Nat
    OBVIOUS
  <1>2. s \in Nat /\ vs * t < s * w + w
    <2> HIDE DEF w
    <2> QED BY <1>1, DivDown DEF SolFor, w
  <1> HIDE DEF s
  <1>3. (vs - s) * w = vs * w - s * w
    BY <1>1, <1>2
  <1>4. vs * w = vs * vt + vs * t
    OBVIOUS
  <1> DEFINE a == (vs - s) * w
             b == vs * w
             d == s * w
             e == vs * t
             k == vs * vt
  <1>5. a \in Int /\ b \in Nat /\ d \in Nat /\ e \in Nat /\ k \in Nat
    BY <1>1, <1>2
  <1>6. a = b - d /\ e < d + w /\ b = k + e /\ w <= vt0
    BY <1>2, <1>3, <1>4
  <1> HIDE DEF a, b, d, e, k
  <1>7. w \in Nat
    BY <1>1
  <1> HIDE DEF w
  <1>8. a <= k + vt0
    BY <1>5, <1>6, <1>7
  <1> QED BY <1>8 DEF a, k, s, w

\* Graduation: the SOL of the pool at the final price is worth no more tokens
\* than max_pool_tokens of the launch, when the dust cost less than it did.
LEMMA PoolWithinSupply ==
  ASSUME NEW vs0 \in Nat, NEW vt0 \in Nat \ {0}, NEW rt0 \in Nat, rt0 < vt0,
         NEW rs \in Nat, NEW n \in Nat, NEW sol \in Nat, sol + n <= rs,
         (vs0 + rs) * (vt0 - rt0) <= (vs0 + n) * vt0
  PROVE  sol * (vt0 - rt0) <= (vs0 + rs) * MaxPoolTokens(vt0, rt0)
  <1> DEFINE vs == vs0 + rs
             vt == vt0 - rt0
             most == MaxPoolTokens(vt0, rt0)
  <1>1. vs \in Nat /\ vt \in Nat \ {0} /\ vt0 = vt + rt0 /\ rt0 * vt \in Nat
    OBVIOUS
  <1>2. most \in Nat /\ rt0 * vt <= most * vt0
    BY <1>1, CeilDivUp DEF MaxPoolTokens
  <1>3. vs0 + n <= vs - sol /\ vs - sol \in Nat
    OBVIOUS
  <1> HIDE DEF vs, vt, most
  <1>4. (vs0 + n) * vt0 <= (vs - sol) * vt0
    BY <1>3
  <1>5. vs * vt <= (vs0 + n) * vt0
    BY DEF vs, vt
  <1>6. sol * vt0 <= vs * rt0
    <2>1. (vs - sol) * vt0 = vs * vt0 - sol * vt0
      BY <1>1
    <2>2. vs * vt0 = vs * vt + vs * rt0
      BY <1>1
    <2> DEFINE a == vs * vt
               b == (vs0 + n) * vt0
               d == (vs - sol) * vt0
               e == vs * vt0
               f == sol * vt0
               g == vs * rt0
    <2>3. /\ a \in Nat /\ b \in Nat /\ d \in Int /\ e \in Nat /\ f \in Nat
          /\ g \in Nat
      BY <1>1
    <2>4. a <= b /\ b <= d /\ d = e - f /\ e = a + g
      BY <1>4, <1>5, <2>1, <2>2
    <2> HIDE DEF a, b, d, e, f, g
    <2>5. f <= g
      BY <2>3, <2>4
    <2> QED BY <2>5 DEF f, g
  <1>7. (sol * vt0) * vt <= (vs * rt0) * vt
    <2> DEFINE a == sol * vt0
               b == vs * rt0
    <2>1. a \in Nat /\ b \in Nat /\ a <= b
      BY <1>1, <1>6
    <2> HIDE DEF a, b
    <2>2. a * vt <= b * vt
      BY <1>1, <2>1
    <2> QED BY <2>2 DEF a, b
  <1>8. vs * (rt0 * vt) <= vs * (most * vt0)
    <2> DEFINE a == rt0 * vt
               b == most * vt0
    <2>1. a \in Nat /\ b \in Nat /\ a <= b
      BY <1>1, <1>2
    <2> HIDE DEF a, b
    <2>2. vs * a <= vs * b
      BY <1>1, <2>1
    <2> QED BY <2>2 DEF a, b
  <1>9. (sol * vt) * vt0 <= (vs * most) * vt0
    <2>1. (sol * vt0) * vt = (sol * vt) * vt0
      BY <1>1
    <2>2. (vs * rt0) * vt = vs * (rt0 * vt)
      BY <1>1
    <2>3. vs * (most * vt0) = (vs * most) * vt0
      BY <1>1, <1>2
    <2> DEFINE a == (sol * vt0) * vt
               b == (vs * rt0) * vt
               d == vs * (most * vt0)
    <2>4. a \in Nat /\ b \in Nat /\ d \in Nat
      BY <1>1, <1>2
    <2>5. a <= b /\ b <= d
      BY <1>7, <1>8, <2>2
    <2> HIDE DEF a, b, d
    <2>6. a <= d
      BY <2>4, <2>5
    <2> QED BY <2>1, <2>3, <2>6 DEF a, d
  <1> DEFINE u == sol * vt
             w == vs * most
  <1>10. u \in Nat /\ w \in Nat
    BY <1>1, <1>2
  <1>11. u * vt0 <= w * vt0
    BY <1>9
  <1> HIDE DEF u, w
  <1>12. u * vt0 < (w + 1) * vt0
    BY <1>10, <1>11
  <1>13. u <= w
    BY <1>10, <1>12, CancelRight
  <1> QED BY <1>13 DEF u, w, vs, vt, most

\* The dust of any buy that is quoted.
LEMMA QuoteBuyDust ==
  ASSUME NEW vs \in Nat \ {0}, NEW vt \in Nat, NEW rt \in Nat, NEW budget \in Nat,
         NEW fees \in [protocol : Nat, creator : Nat],
         BuyQuoted(vs, vt, rt, budget, fees),
         NEW vt0 \in Nat, vt <= vt0, NEW x \in Nat, x <= vt - rt,
         vs * vt <= x * vt0
  PROVE  LET q == QuoteBuy(vs, vt, rt, budget, fees)
         IN  (vs + q.sol) * (vt - q.tokens) <= vs * vt + vt0
  <1> DEFINE q   == QuoteBuy(vs, vt, rt, budget, fees)
             net == NetOf(budget, fees)
             b   == TokensFor(vs, vt, net)
  <1>1. rt > 0 /\ vt > rt
    BY DEF BuyQuoted
  <1>2. net \in Nat
    BY NetOfFits
  <1> HIDE DEF net
  <1>3. b \in Nat /\ vt * net < b * (vs + net) + (vs + net)
    <2> DEFINE z == vs + net
               y == vt * net
    <2>1. z \in Nat \ {0} /\ y \in Nat
      BY <1>2
    <2> HIDE DEF z, y
    <2>2. y \div z \in Nat /\ y < (y \div z) * z + z
      BY <2>1, DivDown
    <2> QED BY <2>2 DEF TokensFor, z, y
  <1>4. CASE b >= rt
    <2>1. q.tokens = rt /\ q.sol = SolToComplete(vs, vt, rt)
      BY <1>4 DEF QuoteBuy, net
    <2> QED BY <1>1, <2>1, DustOfCompletion
  <1>5. CASE ~(b >= rt)
    <2>1. q.tokens = b /\ q.sol = net
      BY <1>5 DEF QuoteBuy, net
    <2> HIDE DEF b
    <2> DEFINE left == vt - b
               v == vt - rt
    <2>2. left \in Nat /\ v \in Nat \ {0} /\ v < left /\ left <= vt
      BY <1>1, <1>3, <1>5
    <2>3. vt * net < ((vt - left) + 1) * (vs + net)
      <3>1. (vt - left) + 1 = b + 1
        BY <1>3
      <3>2. (b + 1) * (vs + net) = b * (vs + net) + (vs + net)
        BY <1>2, <1>3
      <3> HIDE DEF left
      <3> QED BY <1>3, <3>1, <3>2
    <2>4. x <= v
      OBVIOUS
    <2> HIDE DEF left, v
    <2>5. (vs + net) * left <= vs * vt + vt0
      BY <1>2, <2>2, <2>3, <2>4, DustOfBuy
    <2> QED BY <2>1, <2>5 DEF left
  <1> QED BY <1>4, <1>5

\* The dust of any sell that is quoted.
LEMMA QuoteSellDust ==
  ASSUME NEW vs \in Nat, NEW vt \in Nat \ {0}, NEW tokens \in Nat, NEW fees,
         NEW vt0 \in Nat, vt + tokens <= vt0
  PROVE  LET q == QuoteSell(vs, vt, tokens, fees)
         IN  (vs - q.sol) * (vt + tokens) <= vs * vt + vt0
  BY DustOfSell DEF QuoteSell

\* The facts of a live curve the steps below use.
LEMMA DustFacts ==
  ASSUME IInv, NEW m \in Mints, Live(m)
  PROVE  LET c == curve[m]
             o == launch[m]
         IN  /\ c \in Curve /\ o \in ValidParams
             /\ c.vs \in Nat \ {0} /\ c.vt \in Nat \ {0} /\ c.rs \in Nat
             /\ c.rt \in Nat /\ trades \in Nat
             /\ o.vs \in Nat \ {0} /\ o.vt \in Nat \ {0} /\ o.rt \in Nat
             /\ o.vt > o.rt
             /\ c.vs = o.vs + c.rs /\ c.vt - c.rt = o.vt - o.rt
             /\ c.vt <= o.vt /\ c.migrationFee = o.migrationFee
  <1> DEFINE c == curve[m]
             o == launch[m]
  <1>1. c \in Curve /\ o \in ValidParams /\ SoundReserves(c, o)
    BY IInvLive DEF SoundLive
  <1>2. trades \in Nat
    BY IInvParts DEF Rest
  <1> HIDE DEF c, o
  <1>3. c.vs \in Nat /\ c.vt \in Nat /\ c.rs \in Nat /\ c.rt \in Nat
    BY <1>1, CurveFields, AmountIsNat
  <1>4. o.vs \in Nat \ {0} /\ o.vt \in Nat /\ o.rt \in Nat /\ o.vt > o.rt
    BY <1>1, ValidTerms DEF Amount
  <1>5. /\ c.vs = o.vs + c.rs /\ c.vt + o.rt = o.vt + c.rt /\ c.rt <= o.rt
        /\ c.migrationFee = o.migrationFee
    BY <1>1 DEF SoundReserves
  <1>6. /\ c.vs \in Nat \ {0} /\ c.vt \in Nat \ {0} /\ o.vt \in Nat \ {0}
        /\ c.vt - c.rt = o.vt - o.rt /\ c.vt <= o.vt
    BY <1>3, <1>4, <1>5
  <1> QED BY <1>1, <1>2, <1>3, <1>4, <1>5, <1>6 DEF c, o

LEMMA BuyDust ==
  ASSUME DustIsSmall, IInv, DustInv, NEW m \in Mints, NEW budget \in Nat,
         NEW least, Buy(m, budget, least)
  PROVE  /\ WithinDust(curve'[m], launch[m], trades + 1)
         /\ curve'[m].status \in {"Trading", "Complete"}
  <1> DEFINE c    == curve[m]
             o    == launch[m]
             fees == config.params.fees
             q    == QuoteBuy(c.vs, c.vt, c.rt, budget, fees)
             d    == AfterBuy(c, q, now)
  <1>1. /\ trades < MaxTrades
        /\ c.status = "Trading"
        /\ BuyQuoted(c.vs, c.vt, c.rt, budget, fees)
        /\ curve' = [curve EXCEPT ![m] = d]
    BY DEF Buy, BuyAccepted, BuyQuote
  <1> HIDE DEF q, d
  <1>2. Live(m)
    BY <1>1 DEF Live
  <1>3. curve'[m] = d
    BY <1>1, IInvParts DEF MintTypes
  <1>4. fees \in [protocol : Nat, creator : Nat]
    BY IInvParts, ConfigFields, FeesAreNat
  <1>5. WithinDust(c, o, trades)
    BY <1>2 DEF DustInv
  <1>6. q = QuoteBuy(c.vs, c.vt, c.rt, budget, fees) /\ d = AfterBuy(c, q, now)
    BY DEF q, d
  <1> HIDE DEF c, o, fees
  <1>7. /\ c \in Curve /\ o \in ValidParams
        /\ c.vs \in Nat \ {0} /\ c.vt \in Nat \ {0}
        /\ c.rt \in Nat /\ trades \in Nat /\ o.vs \in Nat /\ o.vt \in Nat
        /\ c.vt - c.rt = o.vt - o.rt /\ c.vt <= o.vt
    BY <1>2, DustFacts DEF c, o
  <1>8. q.sol \in Nat /\ q.tokens \in 1 .. c.rt
    BY <1>1, <1>4, <1>6, <1>7, QuoteBuySound
  <1>9. /\ d.vs = c.vs + q.sol /\ d.vt = c.vt - q.tokens
        /\ d.status \in {"Trading", "Complete"}
    <2>1. /\ d.vs = c.vs + q.sol /\ d.vt = c.vt - q.tokens
          /\ d.status = IF c.rt = q.tokens THEN "Complete" ELSE c.status
      BY <1>6, <1>7 DEF AfterBuy, Curve
    <2> QED BY <1>1, <2>1
  <1> DEFINE x  == o.vs + trades
             k  == c.vs * c.vt
             k1 == d.vs * d.vt
  <1>10. x \in Nat /\ x <= c.vt - c.rt
    <2>1. o.vs + MaxTrades <= o.vt - o.rt
      BY <1>7 DEF DustIsSmall
    <2>2. MaxTrades \in Nat
      BY LaunchpadAssumption
    <2> QED BY <1>1, <1>7, <2>1, <2>2
  <1>11. c.vs * c.vt <= x * o.vt
    BY <1>5 DEF WithinDust
  <1> HIDE DEF x
  <1>12. k1 <= k + o.vt
    <2> DEFINE sol    == q.sol
               tokens == q.tokens
    <2>1. (c.vs + sol) * (c.vt - tokens) <= c.vs * c.vt + o.vt
      BY <1>1, <1>4, <1>6, <1>7, <1>10, <1>11, QuoteBuyDust
    <2> HIDE DEF sol, tokens
    <2>2. d.vs = c.vs + sol /\ d.vt = c.vt - tokens
      BY <1>9 DEF sol, tokens
    <2> QED BY <2>1, <2>2
  <1>13. k \in Nat /\ k1 \in Nat
    <2>1. c.vt - q.tokens \in Nat
      <3> DEFINE tokens == q.tokens
      <3>1. tokens \in 1 .. c.rt
        BY <1>8
      <3> HIDE DEF tokens
      <3>2. c.vt - tokens \in Nat
        BY <1>7, <1>10, <3>1
      <3> QED BY <3>2 DEF tokens
    <2>2. d.vs \in Nat /\ d.vt \in Nat
      BY <1>7, <1>8, <1>9, <2>1
    <2> QED BY <1>7, <2>2
  <1>14. k <= (o.vs + trades) * o.vt
    BY <1>11 DEF x
  <1> HIDE DEF k, k1
  <1>15. k1 <= (o.vs + (trades + 1)) * o.vt
    BY <1>7, <1>12, <1>13, <1>14, DustOfTrade
  <1> QED BY <1>3, <1>9, <1>15 DEF WithinDust, k1, o

LEMMA SellDust ==
  ASSUME IInv, DustInv, NEW m \in Mints, NEW tokens \in 1 .. circulating[m],
         NEW least, Sell(m, tokens, least)
  PROVE  /\ WithinDust(curve'[m], launch[m], trades + 1)
         /\ curve'[m].status = "Trading"
  <1> DEFINE c    == curve[m]
             o    == launch[m]
             fees == config.params.fees
             q    == QuoteSell(c.vs, c.vt, tokens, fees)
             d    == AfterSell(c, q, now)
  <1>1. /\ c.status = "Trading" \/ Stuck(c, now)
        /\ SellQuoted(c.vs, c.vt, c.rs, tokens, fees)
        /\ curve' = [curve EXCEPT ![m] = d]
        /\ launch' = launch
    BY DEF Sell, SellAccepted, SellQuote
  <1> HIDE DEF q, d
  <1>2. Live(m)
    BY <1>1 DEF Live, Stuck
  <1>3. curve'[m] = d
    BY <1>1, IInvParts DEF MintTypes
  <1>4. fees \in [protocol : Nat, creator : Nat]
    BY IInvParts, ConfigFields, FeesAreNat
  <1>5. WithinDust(c, o, trades)
    BY <1>2 DEF DustInv
  <1>6. q = QuoteSell(c.vs, c.vt, tokens, fees) /\ d = AfterSell(c, q, now)
    BY DEF q, d
  <1>7. tokens \in Nat
    BY IInvParts DEF MintTypes
  <1> HIDE DEF c, fees
  <1>8. /\ c \in Curve /\ o \in ValidParams
        /\ c.vs \in Nat \ {0} /\ c.vt \in Nat \ {0} /\ c.rs \in Nat
        /\ trades \in Nat /\ o.vs \in Nat /\ o.vt \in Nat
    BY <1>2, DustFacts DEF c, o
  <1>9. /\ d.vs = c.vs - q.sol /\ d.vt = c.vt + tokens /\ d.status = "Trading"
    <2>1. q.tokens = tokens
      BY <1>6 DEF QuoteSell
    <2> QED BY <1>6, <1>8, <2>1 DEF AfterSell, Curve
  <1>10. c.vt + tokens <= o.vt
    <2>1. IInv'
      BY SellStep
    <2>2. Live(m)'
      BY <1>3, <1>9 DEF Live
    <2>3. SoundLive(curve[m], vault[m], circulating[m], stray[m], pool[m],
                    burned[m], launch[m], gifts[m], now)'
          /\ (curve[m] \in Curve)'
      BY <2>1, <2>2 DEF IInv, SoundMint, Sound, SoundTypes, Live
    <2>4. SoundReserves(d, o) /\ d \in Curve
      BY <1>1, <1>3, <2>3 DEF SoundLive, o
    <2>5. d.vt + o.rt = o.vt + d.rt /\ d.rt <= o.rt
      BY <2>4 DEF SoundReserves
    <2>6. d.vt \in Nat /\ d.rt \in Nat /\ o.rt \in Nat
      BY <1>8, <2>4, CurveFields, ValidTerms, AmountIsNat
    <2> QED BY <1>7, <1>8, <1>9, <2>5, <2>6
  <1>11. q.sol \in 1 .. c.vs
    BY <1>1, <1>4, <1>6, <1>7, <1>8, QuoteSellSound
  <1> HIDE DEF o
  <1> DEFINE k  == c.vs * c.vt
             k1 == d.vs * d.vt
  <1>12. k1 <= k + o.vt
    BY <1>6, <1>7, <1>8, <1>9, <1>10, QuoteSellDust
  <1>13. k \in Nat /\ k1 \in Nat
    <2>1. d.vs \in Nat /\ d.vt \in Nat
      BY <1>7, <1>8, <1>9, <1>11
    <2> QED BY <1>8, <2>1
  <1>14. k <= (o.vs + trades) * o.vt
    BY <1>5 DEF WithinDust
  <1> HIDE DEF k, k1
  <1>15. k1 <= (o.vs + (trades + 1)) * o.vt
    BY <1>8, <1>12, <1>13, <1>14, DustOfTrade
  <1> QED BY <1>3, <1>9, <1>15 DEF WithinDust, k1, o

\* Graduation: the vault has room for the pool, so the price decides its size.
LEMMA MigrateDust ==
  ASSUME DustIsSmall, IInv, DustInv, NEW m \in Mints, Migrate(m)
  PROVE  /\ pool'[m].sol * curve'[m].vt < (pool'[m].tokens + 1) * curve'[m].vs
         /\ curve'[m].status = "Migrated"
  <1> DEFINE c      == curve[m]
             o      == launch[m]
             v      == vault[m]
             a      == amm[config.params.ammConfig]
             sol    == PoolSol(c, a.cost)
             tokens == PoolTokenAmount(c.vs, c.vt, sol, v)
             d      == AfterMigrate(c)
             p      == [sol |-> sol, tokens |-> tokens]
  <1>1. /\ c.status = "Complete" /\ a.open /\ sol > 0
        /\ curve' = [curve EXCEPT ![m] = d]
        /\ pool' = [pool EXCEPT ![m] = p]
    BY DEF Migrate, CanGraduate, PoolTokens
  <1>2. Live(m)
    BY <1>1 DEF Live
  <1>3. curve'[m] = d /\ pool'[m] = p /\ v \in Nat
    <2> HIDE DEF d, p
    <2> QED BY <1>1, IInvParts DEF MintTypes
  <1>4. a \in AmmStates /\ a.cost \in Nat
    <2>1. config.params.ammConfig \in AmmConfigs
      BY IInvParts, ConfigFields, ValidTerms DEF ConfigParams
    <2>2. a \in AmmStates
      BY <2>1, IInvParts DEF Rest
    <2>3. a \in [open : BOOLEAN, cost : Amount]
      BY <2>2, LaunchpadAssumption
    <2> QED BY <2>2, <2>3 DEF Amount
  <1>5. WithinDust(c, o, trades)
    BY <1>2 DEF DustInv
  <1>6. c.rt = 0 /\ v = c.rt + (c.supply - o.rt) + gifts[m].tokens
        /\ c.supply = o.supply
    BY <1>1, <1>2, IInvLive
       DEF SoundLive, SoundStatus, SoundTokens, SoundReserves
  <1>7. gifts[m].tokens \in Nat
    BY IInvParts DEF MintTypes
  <1> HIDE DEF o, a, v
  <1>8. /\ c \in Curve /\ o \in ValidParams
        /\ c.vs \in Nat \ {0} /\ c.vt \in Nat \ {0} /\ c.rs \in Nat
        /\ trades \in Nat
        /\ o.vs \in Nat \ {0} /\ o.vt \in Nat \ {0} /\ o.rt \in Nat
        /\ o.vt > o.rt
        /\ c.vs = o.vs + c.rs /\ c.vt - c.rt = o.vt - o.rt
        /\ c.migrationFee = o.migrationFee
    BY <1>2, DustFacts DEF o
  <1>9. d.vs = c.vs /\ d.vt = c.vt /\ d.status = "Migrated"
    <2> HIDE DEF c
    <2> QED BY <1>8 DEF AfterMigrate, Curve
  <1> HIDE DEF c, d
  <1>10. o.migrationFee \in Nat /\ o.supply \in Nat
    BY <1>8, ValidTerms, AmountIsNat
  <1>11. sol \in Nat /\ sol + trades <= c.rs
    <2>1. MaxTrades <= o.migrationFee + a.cost
      BY <1>1, <1>4, <1>8 DEF DustIsSmall
    <2>2. trades <= MaxTrades /\ MaxTrades \in Nat
      BY IInvParts, LaunchpadAssumption DEF Rest
    <2>3. sol = c.rs - c.migrationFee - a.cost
      BY DEF PoolSol
    <2> HIDE DEF sol
    <2> QED BY <1>1, <1>4, <1>8, <1>10, <2>1, <2>2, <2>3
  <1>12. c.vt = o.vt - o.rt
    BY <1>6, <1>8
  <1> DEFINE most == MaxPoolTokens(o.vt, o.rt)
             need == sol * c.vt
  <1>13. most \in Nat /\ most <= v
    <2>1. o.supply - o.rt >= most
      BY <1>8 DEF ValidParams, Valid
    <2>2. most \in Nat
      <3>1. o.vt \in Nat \ {0} /\ o.rt * (o.vt - o.rt) \in Nat
        BY <1>8
      <3> QED BY <3>1, CeilDivUp DEF MaxPoolTokens
    <2> HIDE DEF most
    <2> QED BY <1>3, <1>6, <1>7, <1>8, <1>10, <2>1, <2>2
  <1> HIDE DEF sol
  <1>14. need <= c.vs * most
    <2>1. (o.vs + c.rs) * (o.vt - o.rt) <= (o.vs + trades) * o.vt
      BY <1>5, <1>8, <1>12 DEF WithinDust
    <2>2. sol * (o.vt - o.rt) <= (o.vs + c.rs) * most
      BY <1>8, <1>11, <2>1, PoolWithinSupply
    <2> HIDE DEF most
    <2> QED BY <1>8, <1>12, <2>2
  <1>15. need < (v + 1) * c.vs
    <2> HIDE DEF most
    <2> DEFINE x == c.vs * most
               y == (v + 1) * c.vs
    <2>1. x < y
      BY <1>3, <1>8, <1>13
    <2>2. x \in Nat /\ y \in Nat /\ need \in Nat
      BY <1>3, <1>8, <1>11, <1>13
    <2> HIDE DEF x, need
    <2>3. need <= x
      BY <1>14 DEF x
    <2> HIDE DEF y
    <2>4. need < y
      BY <2>1, <2>2, <2>3
    <2> QED BY <2>4 DEF y
  <1>16. need < (tokens + 1) * c.vs \/ tokens = v
    BY <1>3, <1>8, <1>11, PoolTokenBounds
  <1>17. need < (tokens + 1) * c.vs
    <2> HIDE DEF need, tokens
    <2> QED BY <1>15, <1>16
  <1>18. p.sol = sol /\ p.tokens = tokens
    <2> HIDE DEF tokens
    <2> QED OBVIOUS
  <1> HIDE DEF p, tokens
  <1> QED BY <1>3, <1>9, <1>17, <1>18

\* A step that moves neither the prices, the status, the pool nor the terms of
\* a token.
Untouched(m) ==
  /\ curve'[m].vs = curve[m].vs /\ curve'[m].vt = curve[m].vt
  /\ curve'[m].status = curve[m].status
  /\ pool'[m] = pool[m] /\ launch'[m] = launch[m]

\* The two properties of one token.
Covered(m) ==
  /\ Live(m) => WithinDust(curve[m], launch[m], trades)
  /\ curve[m].status = "Migrated" =>
       pool[m].sol * curve[m].vt < (pool[m].tokens + 1) * curve[m].vs

LEMMA UntouchedCovered ==
  ASSUME IInv, NEW m \in Mints, Untouched(m), Covered(m),
         trades' \in Nat, trades <= trades'
  PROVE  Covered(m)'
  <1>1. ASSUME Live(m)
        PROVE  WithinDust(curve[m], launch[m], trades')
    <2> DEFINE vs0 == launch[m].vs
               vt0 == launch[m].vt
               n   == trades
               n1  == trades'
               k   == curve[m].vs * curve[m].vt
    <2>1. vs0 \in Nat /\ vt0 \in Nat /\ n \in Nat /\ n1 \in Nat /\ n <= n1
      BY <1>1, DustFacts
    <2>2. curve[m].vs \in Nat /\ curve[m].vt \in Nat
      BY <1>1, DustFacts
    <2>3. k \in Nat /\ k <= (vs0 + n) * vt0
      BY <1>1, <2>2 DEF Covered, WithinDust
    <2> HIDE DEF vs0, vt0, k, n, n1
    <2>4. (vs0 + n) * vt0 <= (vs0 + n1) * vt0
      BY <2>1
    <2> DEFINE x == (vs0 + n) * vt0
               y == (vs0 + n1) * vt0
    <2>5. x \in Nat /\ y \in Nat
      BY <2>1
    <2> HIDE DEF x, y
    <2>6. k <= y
      BY <2>3, <2>4, <2>5 DEF x, y
    <2> QED BY <2>6 DEF WithinDust, y, k, vs0, vt0, n1
  <1> QED BY <1>1 DEF Covered, Untouched, Live, WithinDust

LEMMA OnlyCovers ==
  ASSUME IInv, \A m \in Mints : Covered(m), NEW n \in Mints, Only(n),
         Covered(n)', trades' \in Nat, trades <= trades'
  PROVE  \A m \in Mints : Covered(m)'
  <1> SUFFICES ASSUME NEW m \in Mints, m # n
               PROVE  Covered(m)'
    OBVIOUS
  <1>1. Untouched(m)
    <2>1. /\ curve'[m] = curve[m] /\ pool'[m] = pool[m]
          /\ launch'[m] = launch[m]
      BY IInvParts DEF MintTypes, Only
    <2> QED BY <2>1 DEF Untouched
  <1> QED BY <1>1, UntouchedCovered

LEMMA CoveredStep ==
  ASSUME DustIsSmall, IInv, [Next]_vars, \A m \in Mints : Covered(m)
  PROVE  \A m \in Mints : Covered(m)'
  <1>1. DustInv /\ trades \in Nat /\ trades + 1 \in Nat
    BY IInvParts DEF DustInv, Covered, Rest
  <1>2. ASSUME \A m \in Mints : Untouched(m), UNCHANGED trades
        PROVE  \A m \in Mints : Covered(m)'
    BY <1>1, <1>2, UntouchedCovered
  <1>3. ASSUME UNCHANGED curveVars, UNCHANGED trades
        PROVE  \A m \in Mints : Covered(m)'
    BY <1>2, <1>3 DEF curveVars, Untouched
  <1>4. ASSUME NEW n \in Mints, CreateToken(n)
        PROVE  \A m \in Mints : Covered(m)'
    <2>1. /\ curve' = [curve EXCEPT ![n] = NewCurve(config.params)]
          /\ launch' = [launch EXCEPT ![n] = config.params]
          /\ UNCHANGED <<pool, trades>>
      BY <1>4 DEF CreateToken, CreateAccepted
    <2>2. ASSUME NEW m \in Mints, m # n
          PROVE  Covered(m)'
      <3>1. Untouched(m)
        BY <2>1, <2>2, IInvParts DEF MintTypes, Untouched
      <3> QED BY <1>1, <2>1, <3>1, UntouchedCovered
    <2>3. Covered(n)'
      <3> DEFINE o == config.params
      <3>1. curve'[n] = NewCurve(o) /\ launch'[n] = o
        BY <2>1, IInvParts DEF MintTypes
      <3>2. o.vs \in Nat /\ o.vt \in Nat
        BY IInvParts, ConfigFields, ValidTerms, AmountIsNat
      <3> HIDE DEF o
      <3>3. WithinDust(NewCurve(o), o, trades)
        BY <1>1, <3>2 DEF WithinDust, NewCurve
      <3>4. NewCurve(o).status = "Trading"
        BY DEF NewCurve
      <3> QED BY <2>1, <3>1, <3>3, <3>4 DEF Covered
    <2> QED BY <2>2, <2>3
  <1>5. ASSUME NEW n \in Mints, NEW budget \in BuyBudgets, NEW least \in MinOuts,
               Buy(n, budget, least)
        PROVE  \A m \in Mints : Covered(m)'
    <2>1. Only(n) /\ launch'[n] = launch[n] /\ trades' = trades + 1
      BY <1>5, BuyStep, BudgetIsNat DEF Buy, BuyAccepted, BuyQuote
    <2>2. /\ WithinDust(curve'[n], launch[n], trades + 1)
          /\ curve'[n].status \in {"Trading", "Complete"}
      BY <1>1, <1>5, BuyDust, BudgetIsNat
    <2>3. Covered(n)'
      BY <2>1, <2>2 DEF Covered
    <2> QED BY <1>1, <2>1, <2>3, OnlyCovers
  <1>6. ASSUME NEW n \in Mints, NEW tokens \in 1 .. circulating[n],
               NEW least \in MinOuts, Sell(n, tokens, least)
        PROVE  \A m \in Mints : Covered(m)'
    <2>1. Only(n) /\ launch'[n] = launch[n] /\ trades' = trades + 1
      BY <1>6, SellStep DEF Sell, SellAccepted, SellQuote
    <2>2. /\ WithinDust(curve'[n], launch[n], trades + 1)
          /\ curve'[n].status = "Trading"
      BY <1>1, <1>6, SellDust
    <2>3. Covered(n)'
      BY <2>1, <2>2 DEF Covered
    <2> QED BY <1>1, <2>1, <2>3, OnlyCovers
  <1>7. ASSUME NEW n \in Mints, ClaimCreatorFees(n) \/ CollectProtocolFees(n)
        PROVE  \A m \in Mints : Covered(m)'
    <2>1. /\ \/ curve' = [curve EXCEPT ![n].creatorFees = 0]
             \/ curve' = [curve EXCEPT ![n].protocolFees = 0]
          /\ UNCHANGED <<pool, launch, trades>>
      BY <1>7 DEF ClaimCreatorFees, CollectProtocolFees
    <2>2. curve \in [Mints -> Curve]
      BY IInvParts DEF MintTypes
    <2>3. ASSUME NEW m \in Mints
          PROVE  Untouched(m)
      <3>1. \/ curve'[m] = curve[m]
            \/ curve'[m] = [curve[m] EXCEPT !.creatorFees = 0]
            \/ curve'[m] = [curve[m] EXCEPT !.protocolFees = 0]
        BY <2>1, <2>2
      <3>2. curve[m] \in Curve
        BY <2>2
      <3>3. /\ curve'[m].vs = curve[m].vs /\ curve'[m].vt = curve[m].vt
            /\ curve'[m].status = curve[m].status
        BY <3>1, <3>2 DEF Curve
      <3> QED BY <2>1, <3>3 DEF Untouched
    <2> QED BY <1>2, <2>1, <2>3
  <1>8. ASSUME NEW n \in Mints, Migrate(n)
        PROVE  \A m \in Mints : Covered(m)'
    <2>1. Only(n) /\ trades' = trades
      BY <1>8, MigrateStep DEF Migrate
    <2>2. /\ pool'[n].sol * curve'[n].vt < (pool'[n].tokens + 1) * curve'[n].vs
          /\ curve'[n].status = "Migrated"
      BY <1>1, <1>8, MigrateDust
    <2>3. Covered(n)'
      BY <2>2 DEF Covered, Live
    <2> QED BY <1>1, <2>1, <2>3, OnlyCovers
  <1>9. ASSUME NEW n \in Mints, Gift(n)
        PROVE  \A m \in Mints : Covered(m)'
    <2>1. UNCHANGED <<curve, pool, launch, trades>>
      BY <1>9 DEF Gift, GiveSol, GiveTokens, GiveStray
    <2> QED BY <1>2, <2>1 DEF Untouched
  <1>10. \/ UNCHANGED <<curveVars, trades>>
         \/ \E n \in Mints :
              \/ CreateToken(n) \/ Trade(n) \/ ClaimCreatorFees(n)
              \/ CollectProtocolFees(n) \/ Migrate(n) \/ Gift(n)
    BY DEF Next, vars, Admin, UpdateConfig, SetPaused, TransferAdmin,
           AcceptAdmin, RaydiumChange, Tick
  <1> QED BY <1>3, <1>4, <1>5, <1>6, <1>7, <1>8, <1>9, <1>10 DEF Trade

\* The supply validate keeps for the pool is enough for it after any trades,
\* as long as a graduation costs more than the dust of their rounding (math.rs,
\* max_pool_tokens): the pool opens within one token unit of the curve's price.
THEOREM PoolIsCovered ==
  ASSUME DustIsSmall
  PROVE  Spec => []VaultCoversPool
  <1> DEFINE AllCovered == \A m \in Mints : Covered(m)
  <1>1. Init => AllCovered
    BY DEF Init, Covered, Live, NoCurve
  <1>2. IInv /\ AllCovered /\ [Next]_vars => AllCovered'
    BY CoveredStep
  <1>3. AllCovered => VaultCoversPool
    BY DEF Covered, VaultCoversPool
  <1> HIDE DEF AllCovered
  <1> QED BY <1>1, <1>2, <1>3, Soundness, PTL DEF Spec

-----------------------------------------------------------------------------
(***************************************************************************)
(* What a trade is charged, under every configuration the administrator    *)
(* can set: the caps of validate bound the fees of every later trade.      *)
(***************************************************************************)

\* A charge within the hard cap on x lamports, but for the rounding.
WithinCap(charged, x) ==
  charged * BPS < x * MaxTotalFeeBps + BPS + MaxTotalFeeBps

-----------------------------------------------------------------------------
(***************************************************************************)
(* Arithmetic of the two ways a fee is rounded.                            *)
(***************************************************************************)

\* fee_on rounds a share of x up.
LEMMA ShareRoundedUp ==
  ASSUME NEW x \in Nat, NEW t \in Nat, NEW cap \in Nat, t <= cap,
         NEW fee \in Nat, NEW b \in Nat, fee * b < x * t + b
  PROVE  fee * b < x * cap + b + cap
  <1>1. x * t <= x * cap
    BY Z3
  <1> DEFINE share == x * t
             most == x * cap
             paid == fee * b
  <1>2. share \in Nat /\ most \in Nat /\ paid \in Nat
    BY Z3
  <1> HIDE DEF share, most, paid
  <1>3. paid < share + b /\ share <= most
    BY <1>1 DEF share, most, paid
  <1>4. paid < most + b + cap
    BY <1>2, <1>3
  <1> QED BY <1>4 DEF paid, most

\* The largest net amount that fits in a budget is short of it by less than
\* the fee of one more lamport.
LEMMA RestOfBudget ==
  ASSUME NEW budget \in Nat, NEW t \in Nat, NEW cap \in Nat, t <= cap,
         NEW b \in Nat \ {0}, NEW net \in Nat, net = (budget * b) \div (b + t),
         net <= budget
  PROVE  (budget - net) * b < net * cap + b + cap
  <1>1. budget * b < net * (b + t) + (b + t)
    <2> DEFINE a == budget * b
    <2>1. a \in Nat
      BY Z3
    <2>2. b + t \in Nat \ {0}
      OBVIOUS
    <2> HIDE DEF a
    <2>3. a < (a \div (b + t)) * (b + t) + (b + t)
      BY <2>1, <2>2, DivDown
    <2> QED BY <2>3 DEF a
  <1>2. net * (b + t) = net * b + net * t
    BY Z3
  <1>3. (budget - net) * b = budget * b - net * b
    BY Z3
  <1>4. net * t <= net * cap
    BY Z3
  <1> DEFINE x == budget * b
             y == net * b
             u == net * t
             v == net * cap
             z == net * (b + t)
             paid == (budget - net) * b
  <1>5. x \in Nat /\ y \in Nat /\ u \in Nat /\ v \in Nat
    BY Z3
  <1>6. x < z + (b + t) /\ z = y + u /\ u <= v /\ paid = x - y
    BY <1>1, <1>2, <1>3, <1>4
  <1> HIDE DEF x, y, u, v, z, paid
  <1>7. paid < v + b + cap
    BY <1>5, <1>6
  <1> QED BY <1>7 DEF paid, v

-----------------------------------------------------------------------------
(***************************************************************************)
(* The quotes.                                                             *)
(***************************************************************************)

LEMMA FeesWithinCap ==
  ASSUME Rest
  PROVE  /\ config.params.fees \in [protocol : Nat, creator : Nat]
         /\ TotalBps(config.params.fees) \in Nat
         /\ TotalBps(config.params.fees) <= MaxTotalFeeBps
         /\ MaxTotalFeeBps \in Nat
  <1>1. config.params.fees \in [protocol : Nat, creator : Nat]
    BY ConfigFields, FeesAreNat
  <1>2. TotalBps(config.params.fees) <= MaxTotalFeeBps
    BY ConfigFields DEF ValidParams, Valid
  <1> QED BY <1>1, <1>2, TotalBpsNat, LaunchpadAssumption, CurveMathAssumption

LEMMA FeeWithinCap ==
  ASSUME NEW x \in Nat, NEW fees \in [protocol : Nat, creator : Nat],
         TotalBps(fees) <= MaxTotalFeeBps
  PROVE  WithinCap(FeeOn(x, fees), x)
  <1>1. TotalBps(fees) \in Nat /\ MaxTotalFeeBps \in Nat /\ BPS \in Nat
    BY TotalBpsNat, LaunchpadAssumption, CurveMathAssumption
  <1>2. FeeOn(x, fees) \in Nat /\ FeeOn(x, fees) * BPS < x * TotalBps(fees) + BPS
    BY FeeOnUp
  <1> DEFINE t == TotalBps(fees)
             fee == FeeOn(x, fees)
  <1> HIDE DEF t, fee
  <1>3. fee \in Nat /\ t \in Nat /\ t <= MaxTotalFeeBps /\ fee * BPS < x * t + BPS
    BY <1>1, <1>2 DEF t, fee
  <1>4. fee * BPS < x * MaxTotalFeeBps + BPS + MaxTotalFeeBps
    BY <1>1, <1>3, ShareRoundedUp
  <1> QED BY <1>4 DEF WithinCap, fee

LEMMA BuyFeeCapped ==
  ASSUME NEW vs \in Nat, NEW vt \in Nat, NEW rt \in Nat, NEW budget \in Nat,
         NEW fees \in [protocol : Nat, creator : Nat],
         TotalBps(fees) <= MaxTotalFeeBps,
         BuyQuoted(vs, vt, rt, budget, fees)
  PROVE  LET q == QuoteBuy(vs, vt, rt, budget, fees)
         IN  q.sol \in Nat /\ WithinCap(q.protocolFee + q.creatorFee, q.sol)
  <1> DEFINE q == QuoteBuy(vs, vt, rt, budget, fees)
             net == NetOf(budget, fees)
             completes == TokensFor(vs, vt, net) >= rt
  <1>1. /\ q.sol \in Nat \ {0}
        /\ q.protocolFee \in Nat /\ q.creatorFee \in Nat
        /\ q.totalCost = q.sol + q.protocolFee + q.creatorFee
    BY QuoteBuySound
  <1>b. q.totalCost <= budget
    BY DEF BuyQuoted
  <1>2. CASE completes
    <2>1. q.totalCost = q.sol + FeeOn(q.sol, fees)
      BY <1>2 DEF QuoteBuy
    <2> HIDE DEF q, completes
    <2>2. FeeOn(q.sol, fees) \in Nat
      BY <1>1, FeeOnUp
    <2>3. q.protocolFee + q.creatorFee = FeeOn(q.sol, fees)
      BY <1>1, <2>1, <2>2
    <2>4. WithinCap(FeeOn(q.sol, fees), q.sol)
      BY <1>1, FeeWithinCap
    <2> QED BY <1>1, <2>3, <2>4 DEF q
  <1>3. CASE ~completes
    <2>1. q.sol = net /\ q.totalCost = net + (budget - net)
      BY <1>3 DEF QuoteBuy
    <2>2. net = (budget * BPS) \div (BPS + TotalBps(fees))
      BY DEF NetOf
    <2> HIDE DEF q, completes, net
    <2>3. net \in Nat /\ net <= budget /\ q.protocolFee + q.creatorFee = budget - net
      BY <1>1, <1>b, <2>1
    <2>4. TotalBps(fees) \in Nat /\ MaxTotalFeeBps \in Nat /\ BPS \in Nat \ {0}
      BY TotalBpsNat, LaunchpadAssumption, CurveMathAssumption
    <2>5. (budget - net) * BPS < net * MaxTotalFeeBps + BPS + MaxTotalFeeBps
      BY <2>2, <2>3, <2>4, RestOfBudget
    <2> QED BY <1>1, <2>1, <2>3, <2>5 DEF WithinCap, q
  <1> QED BY <1>2, <1>3

LEMMA SellFeeCapped ==
  ASSUME NEW vs \in Nat, NEW vt \in Nat, NEW rs \in Nat, NEW tokens \in Nat,
         NEW fees \in [protocol : Nat, creator : Nat],
         TotalBps(fees) <= MaxTotalFeeBps,
         SellQuoted(vs, vt, rs, tokens, fees)
  PROVE  LET q == QuoteSell(vs, vt, tokens, fees)
         IN  q.sol \in Nat \ {0} /\ WithinCap(q.protocolFee + q.creatorFee, q.sol)
  <1> DEFINE q == QuoteSell(vs, vt, tokens, fees)
  <1>s. /\ q.sol \in 1 .. vs
        /\ q.protocolFee \in Nat /\ q.creatorFee \in Nat
        /\ q.solOut \in Nat \ {0}
        /\ q.sol = q.solOut + q.protocolFee + q.creatorFee
    BY QuoteSellSound
  <1>2. q.solOut = q.sol - FeeOn(q.sol, fees)
    BY DEF QuoteSell
  <1> HIDE DEF q
  <1>1. q.sol \in Nat \ {0} /\ q.protocolFee \in Nat /\ q.creatorFee \in Nat
        /\ q.sol = q.solOut + q.protocolFee + q.creatorFee /\ q.solOut \in Nat
    BY <1>s
  <1>3. FeeOn(q.sol, fees) \in Nat /\ WithinCap(FeeOn(q.sol, fees), q.sol)
    BY <1>1, FeeOnUp, FeeWithinCap
  <1>4. q.protocolFee + q.creatorFee = FeeOn(q.sol, fees)
    BY <1>1, <1>2, <1>3
  <1> QED BY <1>1, <1>3, <1>4 DEF q

-----------------------------------------------------------------------------
(***************************************************************************)
(* The steps.                                                              *)
(***************************************************************************)

\* What a curve that goes from c to d is charged, as FeeCapped has it.
ChargeCapped(c, d) ==
  LET fees(x)  == x.protocolFees + x.creatorFees
      moved    == d.rs - c.rs
      charged  == fees(d) - fees(c)
  IN WithinCap(charged, IF moved < 0 THEN -moved ELSE moved)

LEMMA ChargeOf ==
  ASSUME NEW c, NEW d, NEW charged, NEW x,
         c.rs \in Int /\ c.protocolFees \in Int /\ c.creatorFees \in Int,
         d.rs \in Int /\ d.protocolFees \in Int /\ d.creatorFees \in Int,
         charged = d.protocolFees + d.creatorFees - (c.protocolFees + c.creatorFees),
         x = IF d.rs - c.rs < 0 THEN -(d.rs - c.rs) ELSE d.rs - c.rs,
         WithinCap(charged, x)
  PROVE  ChargeCapped(c, d)
  BY DEF ChargeCapped

\* No fee is added and no reserve moved.
LEMMA NothingCharged ==
  ASSUME NEW c \in Curve, NEW d, d.rs = c.rs,
         d.protocolFees \in 0 .. c.protocolFees,
         d.creatorFees \in 0 .. c.creatorFees
  PROVE  ChargeCapped(c, d)
  <1>1. c.rs \in Nat /\ c.protocolFees \in Nat /\ c.creatorFees \in Nat
    BY CurveFields, AmountIsNat
  <1> DEFINE charged == d.protocolFees + d.creatorFees - (c.protocolFees + c.creatorFees)
             moved == d.rs - c.rs
  <1>2. charged \in Int /\ charged <= 0 /\ moved = 0
    BY <1>1
  <1>3. BPS \in Nat \ {0} /\ MaxTotalFeeBps \in Nat
    BY LaunchpadAssumption, CurveMathAssumption
  <1> HIDE DEF charged, moved
  <1>4. charged * BPS <= 0
    BY <1>2, <1>3, Z3
  <1>5. 0 * MaxTotalFeeBps = 0
    BY <1>3
  <1> DEFINE x == charged * BPS
  <1>6. x \in Int /\ x <= 0
    BY <1>2, <1>3, <1>4
  <1> HIDE DEF x
  <1>7. x < 0 + BPS + MaxTotalFeeBps
    BY <1>3, <1>6
  <1>8. WithinCap(charged, 0)
    BY <1>5, <1>7 DEF WithinCap, x
  <1>9. 0 = IF moved < 0 THEN -moved ELSE moved
    BY <1>2
  <1> QED BY <1>1, <1>8, <1>9, ChargeOf DEF charged, moved

LEMMA BuyCharge ==
  ASSUME IInv, NEW n \in Mints, NEW budget \in BuyBudgets, NEW least,
         Buy(n, budget, least)
  PROVE  ChargeCapped(curve[n], curve'[n])
  <1> DEFINE c == curve[n]
             d == curve'[n]
             fees == config.params.fees
             q == QuoteBuy(c.vs, c.vt, c.rt, budget, fees)
  <1>1. Rest /\ MintTypes
    BY IInvParts
  <1>2. c \in Curve
    BY <1>1 DEF MintTypes
  <1>3. BuyQuoted(c.vs, c.vt, c.rt, budget, fees) /\ d = AfterBuy(c, q, now)
    BY <1>1 DEF Buy, BuyAccepted, BuyQuote, MintTypes
  <1>4. budget \in Nat
    BY LaunchpadAssumption DEF Amount
  <1>5. /\ fees \in [protocol : Nat, creator : Nat]
        /\ TotalBps(fees) <= MaxTotalFeeBps
    BY <1>1, FeesWithinCap
  <1> HIDE DEF c, d, fees
  <1>6. /\ c.vs \in Nat /\ c.vt \in Nat /\ c.rt \in Nat /\ c.rs \in Nat
        /\ c.protocolFees \in Nat /\ c.creatorFees \in Nat
    BY <1>2, CurveFields, AmountIsNat
  <1>7. /\ q.sol \in Nat /\ WithinCap(q.protocolFee + q.creatorFee, q.sol)
        /\ q.protocolFee \in Nat /\ q.creatorFee \in Nat
    BY <1>3, <1>4, <1>5, <1>6, BuyFeeCapped, QuoteBuySound
  <1> HIDE DEF q
  <1>8. /\ d.rs = c.rs + q.sol
        /\ d.protocolFees = c.protocolFees + q.protocolFee
        /\ d.creatorFees = c.creatorFees + q.creatorFee
    BY <1>2, <1>3 DEF AfterBuy, Curve
  <1>9. /\ d.protocolFees + d.creatorFees - (c.protocolFees + c.creatorFees)
             = q.protocolFee + q.creatorFee
        /\ q.sol = IF d.rs - c.rs < 0 THEN -(d.rs - c.rs) ELSE d.rs - c.rs
    BY <1>6, <1>7, <1>8
  <1>10. ChargeCapped(c, d)
    BY <1>6, <1>7, <1>8, <1>9, ChargeOf
  <1> QED BY <1>10 DEF c, d

LEMMA SellCharge ==
  ASSUME IInv, NEW n \in Mints, NEW tokens \in 1 .. circulating[n], NEW least,
         Sell(n, tokens, least)
  PROVE  ChargeCapped(curve[n], curve'[n])
  <1> DEFINE c == curve[n]
             d == curve'[n]
             fees == config.params.fees
             q == QuoteSell(c.vs, c.vt, tokens, fees)
  <1>1. Rest /\ MintTypes
    BY IInvParts
  <1>2. c \in Curve /\ tokens \in Nat
    BY <1>1 DEF MintTypes
  <1>3. SellQuoted(c.vs, c.vt, c.rs, tokens, fees) /\ d = AfterSell(c, q, now)
    BY <1>1 DEF Sell, SellAccepted, SellQuote, MintTypes
  <1>4. /\ fees \in [protocol : Nat, creator : Nat]
        /\ TotalBps(fees) <= MaxTotalFeeBps
    BY <1>1, FeesWithinCap
  <1> HIDE DEF c, d, fees
  <1>5. /\ c.vs \in Nat /\ c.vt \in Nat /\ c.rt \in Nat /\ c.rs \in Nat
        /\ c.protocolFees \in Nat /\ c.creatorFees \in Nat
    BY <1>2, CurveFields, AmountIsNat
  <1>6. /\ q.sol \in Nat \ {0} /\ WithinCap(q.protocolFee + q.creatorFee, q.sol)
        /\ q.protocolFee \in Nat /\ q.creatorFee \in Nat
    BY <1>2, <1>3, <1>4, <1>5, SellFeeCapped, QuoteSellSound
  <1> HIDE DEF q
  <1>7. /\ d.rs = c.rs - q.sol
        /\ d.protocolFees = c.protocolFees + q.protocolFee
        /\ d.creatorFees = c.creatorFees + q.creatorFee
    BY <1>2, <1>3 DEF AfterSell, Curve
  <1>8. /\ d.protocolFees + d.creatorFees - (c.protocolFees + c.creatorFees)
             = q.protocolFee + q.creatorFee
        /\ q.sol = IF d.rs - c.rs < 0 THEN -(d.rs - c.rs) ELSE d.rs - c.rs
    BY <1>5, <1>6, <1>7
  <1>9. ChargeCapped(c, d)
    BY <1>5, <1>6, <1>7, <1>8, ChargeOf
  <1> QED BY <1>9 DEF c, d

LEMMA ChargeStep ==
  ASSUME IInv, [Next]_vars, NEW m \in Mints, Live(m), Live(m)'
  PROVE  ChargeCapped(curve[m], curve'[m])
  <1>1. MintTypes
    BY IInvParts
  <1>2. curve[m] \in Curve
    BY <1>1 DEF MintTypes
  <1>3. ASSUME curve'[m] = curve[m]
        PROVE  ChargeCapped(curve[m], curve'[m])
    <2>1. curve[m].protocolFees \in Nat /\ curve[m].creatorFees \in Nat
      BY <1>2, CurveFields, AmountIsNat
    <2> QED BY <1>2, <1>3, <2>1, NothingCharged
  <1>4. ASSUME NEW n \in Mints, n # m, Only(n)
        PROVE  curve'[m] = curve[m]
    BY <1>1, <1>4 DEF Only, MintTypes
  <1>5. ASSUME NEW n \in Mints, CreateToken(n)
        PROVE  curve'[m] = curve[m]
    BY <1>1, <1>5 DEF CreateToken, CreateAccepted, Live, MintTypes
  <1>6. ASSUME NEW n \in Mints, NEW budget \in BuyBudgets, NEW least \in MinOuts,
               Buy(n, budget, least)
        PROVE  ChargeCapped(curve[m], curve'[m])
    BY <1>3, <1>4, <1>6, BuyStep, BudgetIsNat, BuyCharge
  <1>7. ASSUME NEW n \in Mints, NEW tokens \in 1 .. circulating[n],
               NEW least \in MinOuts, Sell(n, tokens, least)
        PROVE  ChargeCapped(curve[m], curve'[m])
    BY <1>3, <1>4, <1>7, SellStep, SellCharge
  <1>8. ASSUME NEW n \in Mints, ClaimCreatorFees(n) \/ CollectProtocolFees(n)
        PROVE  ChargeCapped(curve[m], curve'[m])
    <2> DEFINE c == curve[m]
    <2>1. CASE n = m
      <3>1. \/ curve'[m] = [c EXCEPT !.creatorFees = 0]
            \/ curve'[m] = [c EXCEPT !.protocolFees = 0]
        BY <1>1, <1>8, <2>1 DEF ClaimCreatorFees, CollectProtocolFees, MintTypes
      <3>2. c.protocolFees \in Nat /\ c.creatorFees \in Nat
        BY <1>2, CurveFields, AmountIsNat
      <3> HIDE DEF c
      <3>3. c \in Curve
        BY <1>2 DEF c
      <3>4. /\ curve'[m].rs = c.rs
            /\ curve'[m].protocolFees \in {0, c.protocolFees}
            /\ curve'[m].creatorFees \in {0, c.creatorFees}
        BY <3>1, <3>3 DEF Curve
      <3> QED BY <3>2, <3>3, <3>4, NothingCharged DEF c
    <2>2. CASE n # m
      BY <1>3, <1>4, <1>8, <2>2, ClaimStep
    <2> QED BY <2>1, <2>2
  <1>9. ASSUME NEW n \in Mints, Migrate(n)
        PROVE  curve'[m] = curve[m]
    <2>1. Only(n) /\ curve'[n].status = "Migrated"
      BY <1>9, MigrateStep
    <2>2. n # m
      BY <2>1 DEF Live
    <2> QED BY <1>4, <2>1, <2>2
  <1>10. ASSUME NEW n \in Mints, Gift(n)
         PROVE  curve'[m] = curve[m]
    BY <1>10 DEF Gift, GiveSol, GiveTokens, GiveStray
  <1>11. \/ UNCHANGED curve
         \/ \E n \in Mints :
              \/ CreateToken(n) \/ Trade(n) \/ ClaimCreatorFees(n)
              \/ CollectProtocolFees(n) \/ Migrate(n) \/ Gift(n)
    BY DEF Next, vars, curveVars, Admin, UpdateConfig, SetPaused,
           TransferAdmin, AcceptAdmin, RaydiumChange, Tick
  <1> QED BY <1>3, <1>5, <1>6, <1>7, <1>8, <1>9, <1>10, <1>11 DEF Trade

\* No trade is charged more than the hard cap of constants.rs on the SOL it
\* moves, whatever fees the administrator sets within what validate accepts.
THEOREM FeesAreCapped == Spec => FeeCapped
  <1>1. IInv /\ [Next]_vars =>
          [\A m \in Mints :
             LET fees(c)  == c.protocolFees + c.creatorFees
                 moved    == curve'[m].rs - curve[m].rs
                 charged  == fees(curve'[m]) - fees(curve[m])
             IN Live(m) /\ Live(m)' =>
                  charged * BPS < (IF moved < 0 THEN -moved ELSE moved)
                                    * MaxTotalFeeBps + BPS + MaxTotalFeeBps]_vars
    <2>1. ASSUME NEW m \in Mints, ChargeCapped(curve[m], curve'[m])
          PROVE  LET fees(c)  == c.protocolFees + c.creatorFees
                     moved    == curve'[m].rs - curve[m].rs
                     charged  == fees(curve'[m]) - fees(curve[m])
                 IN charged * BPS < (IF moved < 0 THEN -moved ELSE moved)
                                      * MaxTotalFeeBps + BPS + MaxTotalFeeBps
      BY <2>1 DEF ChargeCapped, WithinCap
    <2> QED BY <2>1, ChargeStep
  <1> QED BY <1>1, Soundness, PTL DEF Spec, FeeCapped

-----------------------------------------------------------------------------
(***************************************************************************)
(* The program implements the abstract launch for every number of tokens,  *)
(* every configuration and every width: initial states map to initial      *)
(* states and every step maps to a step of one token or to a stutter.      *)
(***************************************************************************)

\* The abstract state of a token, from its curve c and its terms o.
PhaseOf(c) ==
  CASE c.status = "Absent"   -> "Planned"
    [] c.status = "Trading"  -> "Open"
    [] c.status = "Complete" -> "SoldOut"
    [] OTHER                 -> "Graduated"

AllotmentOf(c, o) == IF c.status = "Absent" THEN 0 ELSE o.rt

SoldOf(c, o) == IF c.status = "Absent" THEN 0 ELSE o.rt - c.rt

LEMMA Bars ==
  /\ phaseBar = [m \in Mints |-> PhaseOf(curve[m])]
  /\ allotmentBar = [m \in Mints |-> AllotmentOf(curve[m], launch[m])]
  /\ soldBar = [m \in Mints |-> SoldOf(curve[m], launch[m])]
  /\ escrowBar = [m \in Mints |-> curve[m].rs]
  BY DEF phaseBar, allotmentBar, soldBar, escrowBar, PhaseOf, AllotmentOf, SoldOf

LEMMA BarsPrimed ==
  /\ phaseBar' = [m \in Mints |-> PhaseOf(curve'[m])]
  /\ allotmentBar' = [m \in Mints |-> AllotmentOf(curve'[m], launch'[m])]
  /\ soldBar' = [m \in Mints |-> SoldOf(curve'[m], launch'[m])]
  /\ escrowBar' = [m \in Mints |-> curve'[m].rs]
  BY DEF phaseBar, allotmentBar, soldBar, escrowBar, PhaseOf, AllotmentOf, SoldOf

LEMMA PhaseCases ==
  ASSUME NEW c
  PROVE  /\ c.status = "Absent" => PhaseOf(c) = "Planned"
         /\ c.status = "Trading" => PhaseOf(c) = "Open"
         /\ c.status = "Complete" => PhaseOf(c) = "SoldOut"
         /\ c.status = "Migrated" => PhaseOf(c) = "Graduated"
  BY DEF PhaseOf

\* A step that leaves what the abstract state is made of is a stutter.
LEMMA SameView ==
  ASSUME \A m \in Mints : /\ curve'[m].status = curve[m].status
                          /\ curve'[m].rs = curve[m].rs
                          /\ curve'[m].rt = curve[m].rt
                          /\ launch'[m] = launch[m]
  PROVE  UNCHANGED Fair!vars
  <1>1. \A m \in Mints :
          /\ PhaseOf(curve'[m]) = PhaseOf(curve[m])
          /\ AllotmentOf(curve'[m], launch'[m]) = AllotmentOf(curve[m], launch[m])
          /\ SoldOf(curve'[m], launch'[m]) = SoldOf(curve[m], launch[m])
    BY DEF PhaseOf, AllotmentOf, SoldOf
  <1>2. /\ phaseBar' = phaseBar /\ allotmentBar' = allotmentBar
        /\ soldBar' = soldBar /\ escrowBar' = escrowBar
    BY <1>1, Bars, BarsPrimed
  <1> QED BY <1>2 DEF Fair!vars

\* A step of one token changes the abstract state of no other.
LEMMA OneToken ==
  ASSUME MintTypes, NEW m \in Mints, Only(m)
  PROVE  /\ phaseBar' = [phaseBar EXCEPT ![m] = PhaseOf(curve'[m])]
         /\ allotmentBar' = [allotmentBar EXCEPT ![m] = AllotmentOf(curve'[m], launch'[m])]
         /\ soldBar' = [soldBar EXCEPT ![m] = SoldOf(curve'[m], launch'[m])]
         /\ escrowBar' = [escrowBar EXCEPT ![m] = curve'[m].rs]
         /\ phaseBar[m] = PhaseOf(curve[m])
         /\ allotmentBar[m] = AllotmentOf(curve[m], launch[m])
         /\ soldBar[m] = SoldOf(curve[m], launch[m])
         /\ escrowBar[m] = curve[m].rs
         /\ phaseBar'[m] = PhaseOf(curve'[m])
         /\ allotmentBar'[m] = AllotmentOf(curve'[m], launch'[m])
         /\ soldBar'[m] = SoldOf(curve'[m], launch'[m])
         /\ escrowBar'[m] = curve'[m].rs
  <1>1. \A n \in Mints : n # m => curve'[n] = curve[n] /\ launch'[n] = launch[n]
    BY DEF Only, MintTypes
  <1> QED BY <1>1, Bars, BarsPrimed

-----------------------------------------------------------------------------

LEMMA FairInit == Init => Fair!Init
  <1> SUFFICES ASSUME Init
               PROVE  Fair!Init
    OBVIOUS
  <1>1. \A m \in Mints : curve[m].status = "Absent" /\ curve[m].rs = 0
    BY DEF Init, NoCurve
  <1>2. /\ phaseBar = [m \in Mints |-> "Planned"]
        /\ allotmentBar = [m \in Mints |-> 0]
        /\ soldBar = [m \in Mints |-> 0]
        /\ escrowBar = [m \in Mints |-> 0]
    BY <1>1, Bars DEF PhaseOf, AllotmentOf, SoldOf
  <1> QED BY <1>2 DEF Fair!Init

LEMMA OfferStep ==
  ASSUME IInv, NEW m \in Mints, CreateToken(m)
  PROVE  Fair!Offer(m)
  <1> DEFINE p == config.params
  <1>1. Rest /\ MintTypes /\ SoundMint(m) /\ Only(m)
    <2>1. Rest /\ MintTypes /\ SoundMint(m)
      BY IInvParts
    <2> QED BY <2>1 DEF CreateToken, CreateAccepted, MintTypes, Only
  <1>2. /\ curve[m].status = "Absent"
        /\ curve'[m] = NewCurve(p) /\ launch'[m] = p
    BY <1>1 DEF CreateToken, CreateAccepted, MintTypes
  <1>3. p.rt \in Nat \ {0}
    <2>1. p \in ValidParams
      BY <1>1, ConfigFields
    <2> QED BY <2>1, ValidTerms DEF Amount
  <1>4. curve[m].rs = 0
    BY <1>1, <1>2 DEF SoundMint, Sound, SoundAbsent, NoCurve
  <1> HIDE DEF p
  <1>5. /\ curve'[m].status = "Trading" /\ curve'[m].rt = p.rt
        /\ curve'[m].rs = 0 /\ launch'[m].rt = p.rt
    BY <1>2 DEF NewCurve
  <1>6. /\ PhaseOf(curve[m]) = "Planned" /\ PhaseOf(curve'[m]) = "Open"
        /\ AllotmentOf(curve'[m], launch'[m]) = p.rt
        /\ SoldOf(curve[m], launch[m]) = 0 /\ SoldOf(curve'[m], launch'[m]) = 0
    BY <1>2, <1>3, <1>5, PhaseCases DEF AllotmentOf, SoldOf
  <1>7. soldBar' = soldBar /\ escrowBar' = escrowBar
    BY <1>1, <1>4, <1>5, <1>6, OneToken, Bars
  <1> QED BY <1>1, <1>3, <1>6, <1>7, OneToken DEF Fair!Offer

LEMMA InvestStep ==
  ASSUME IInv, NEW m \in Mints, NEW budget \in BuyBudgets, NEW least,
         Buy(m, budget, least)
  PROVE  Fair!Invest(m)
  <1> DEFINE c == curve[m]
             d == curve'[m]
             o == launch[m]
             q == QuoteBuy(c.vs, c.vt, c.rt, budget, config.params.fees)
  <1>1. Rest /\ MintTypes /\ SoundMint(m) /\ Only(m)
    BY IInvParts, BuyStep, BudgetIsNat
  <1>2. /\ c.status = "Trading" /\ d = AfterBuy(c, q, now) /\ launch'[m] = o
        /\ BuyQuoted(c.vs, c.vt, c.rt, budget, config.params.fees)
    BY <1>1 DEF Buy, BuyAccepted, BuyQuote, MintTypes
  <1>3. /\ c \in Curve /\ o.rt \in Nat \ {0}
        /\ c.rt <= o.rt
    <2>1. SoundLive(c, vault[m], circulating[m], stray[m], pool[m], burned[m],
                    o, gifts[m], now) /\ o.rt \in Nat \ {0}
      BY <1>1, <1>2, LiveFacts DEF SoundMint
    <2> QED BY <1>1, <2>1 DEF SoundLive, SoundReserves, MintTypes
  <1>4. /\ c.vs \in Nat /\ c.vt \in Nat /\ c.rt \in Nat /\ c.rs \in Nat
    BY <1>3, CurveFields, AmountIsNat
  <1>5. budget \in Nat /\ config.params.fees \in [protocol : Nat, creator : Nat]
    BY <1>1, ConfigFields, FeesAreNat, LaunchpadAssumption DEF Amount
  <1> HIDE DEF c, d, o
  <1>6. q.tokens \in 1 .. c.rt /\ q.sol \in Nat \ {0}
    BY <1>2, <1>4, <1>5, QuoteBuySound
  <1> HIDE DEF q
  <1>7. /\ d.rs = c.rs + q.sol /\ d.rt = c.rt - q.tokens
        /\ d.status = IF c.rt = q.tokens THEN "Complete" ELSE "Trading"
    BY <1>2, <1>3 DEF AfterBuy, Curve
  <1>8. /\ PhaseOf(c) = "Open"
        /\ AllotmentOf(c, o) = o.rt /\ AllotmentOf(d, o) = o.rt
        /\ SoldOf(c, o) = o.rt - c.rt /\ SoldOf(d, o) = o.rt - d.rt
        /\ PhaseOf(d) = IF c.rt = q.tokens THEN "SoldOut" ELSE "Open"
    BY <1>2, <1>7, PhaseCases DEF AllotmentOf, SoldOf
  <1>9. /\ SoldOf(d, o) \in SoldOf(c, o) + 1 .. AllotmentOf(c, o)
        /\ d.rs > c.rs
        /\ PhaseOf(d) = IF SoldOf(d, o) = AllotmentOf(c, o) THEN "SoldOut" ELSE "Open"
    BY <1>3, <1>4, <1>6, <1>7, <1>8
  <1>10. allotmentBar' = allotmentBar
    BY <1>1, <1>2, <1>8, OneToken, Bars DEF c, d, o
  <1> QED BY <1>1, <1>2, <1>8, <1>9, <1>10, OneToken DEF Fair!Invest, c, d, o

LEMMA ExitStep ==
  ASSUME IInv, NEW m \in Mints, NEW tokens \in 1 .. circulating[m], NEW least,
         Sell(m, tokens, least)
  PROVE  Fair!Exit(m)
  <1> DEFINE c == curve[m]
             d == curve'[m]
             o == launch[m]
             q == QuoteSell(c.vs, c.vt, tokens, config.params.fees)
  <1>1. Rest /\ MintTypes /\ SoundMint(m) /\ Only(m) /\ SoundMint(m)'
    BY IInvParts, SellStep, IInvPrimed
  <1>2. /\ c.status \in {"Trading", "Complete"} /\ d = AfterSell(c, q, now)
        /\ launch'[m] = o
        /\ SellQuoted(c.vs, c.vt, c.rs, tokens, config.params.fees)
    BY <1>1 DEF Sell, SellAccepted, SellQuote, Stuck, MintTypes
  <1>3. c \in Curve /\ tokens \in Nat \ {0}
    BY <1>1 DEF MintTypes
  <1>4. /\ c.vs \in Nat /\ c.vt \in Nat /\ c.rt \in Nat /\ c.rs \in Nat
    BY <1>3, CurveFields, AmountIsNat
  <1>5. config.params.fees \in [protocol : Nat, creator : Nat]
    BY <1>1, ConfigFields, FeesAreNat
  <1>6. d.status = "Trading"
    <2> HIDE DEF c, d, q
    <2> QED BY <1>2, <1>3 DEF AfterSell, Curve
  <1>7. d.rt <= o.rt /\ o.rt \in Nat
    <2>1. Sound(curve'[m], lamports'[m], vault'[m], circulating'[m], stray'[m],
                pool'[m], burned'[m], launch'[m], gifts'[m], now')
      BY <1>1 DEF SoundMint
    <2>2. SoundLive(curve'[m], vault'[m], circulating'[m], stray'[m], pool'[m],
                    burned'[m], launch'[m], gifts'[m], now') /\ launch'[m].rt \in Nat
      BY <1>6, <2>1, LiveFacts
    <2> QED BY <1>2, <2>2 DEF SoundLive, SoundReserves
  <1> HIDE DEF c, d, o
  <1>8. q.sol \in 1 .. c.vs /\ q.sol <= c.rs
    BY <1>2, <1>3, <1>4, <1>5, QuoteSellSound
  <1>9. q.tokens = tokens
    BY DEF QuoteSell
  <1> HIDE DEF q
  <1>10. d.rs = c.rs - q.sol /\ d.rt = c.rt + tokens
    BY <1>2, <1>3, <1>9 DEF AfterSell, Curve
  <1>11. /\ PhaseOf(c) \in {"Open", "SoldOut"} /\ PhaseOf(d) = "Open"
         /\ AllotmentOf(c, o) = o.rt /\ AllotmentOf(d, o) = o.rt
         /\ SoldOf(c, o) = o.rt - c.rt /\ SoldOf(d, o) = o.rt - d.rt
    BY <1>2, <1>6, PhaseCases DEF AllotmentOf, SoldOf
  <1>12. /\ SoldOf(d, o) \in 0 .. SoldOf(c, o) - 1
         /\ d.rs \in 0 .. c.rs - 1
    BY <1>3, <1>4, <1>7, <1>8, <1>10, <1>11
  <1>13. allotmentBar' = allotmentBar
    BY <1>1, <1>2, <1>11, OneToken, Bars DEF c, d, o
  <1> QED BY <1>1, <1>2, <1>11, <1>12, <1>13, OneToken DEF Fair!Exit, c, d, o

LEMMA GraduateStep ==
  ASSUME IInv, NEW m \in Mints, Migrate(m)
  PROVE  Fair!Graduate(m)
  <1> DEFINE c == curve[m]
             d == curve'[m]
             o == launch[m]
             cost == amm[config.params.ammConfig].cost
  <1>1. Rest /\ MintTypes /\ SoundMint(m) /\ Only(m)
    BY IInvParts, MigrateStep
  <1>2. /\ c.status = "Complete" /\ d = AfterMigrate(c) /\ launch'[m] = o
        /\ PoolSol(c, cost) > 0
    BY <1>1 DEF Migrate, CanGraduate, MintTypes
  <1>3. c \in Curve
    BY <1>1 DEF MintTypes
  <1>4. c.rt = 0
    BY <1>1, <1>2, LiveFacts DEF SoundMint, SoundLive, SoundStatus
  <1>5. cost \in Nat
    <2>1. config.params.ammConfig \in AmmConfigs
      BY <1>1, ConfigFields, ValidTerms DEF ConfigParams
    <2>2. amm[config.params.ammConfig] \in [open : BOOLEAN, cost : Amount]
      BY <1>1, <2>1, LaunchpadAssumption DEF Rest
    <2> QED BY <2>2 DEF Amount
  <1> HIDE DEF c, d, o, cost
  <1>6. c.rs \in Nat /\ c.migrationFee \in Nat
    BY <1>3, CurveFields, AmountIsNat
  <1>7. c.rs > 0
    BY <1>2, <1>5, <1>6 DEF PoolSol
  <1>8. d.status = "Migrated" /\ d.rs = 0 /\ d.rt = 0
    BY <1>2, <1>3 DEF AfterMigrate, Curve
  <1>9. /\ PhaseOf(c) = "SoldOut" /\ PhaseOf(d) = "Graduated"
        /\ AllotmentOf(d, o) = AllotmentOf(c, o) /\ SoldOf(d, o) = SoldOf(c, o)
    BY <1>2, <1>4, <1>8, PhaseCases DEF AllotmentOf, SoldOf
  <1>10. allotmentBar' = allotmentBar /\ soldBar' = soldBar
    BY <1>1, <1>2, <1>9, OneToken, Bars DEF c, d, o
  <1> QED BY <1>1, <1>7, <1>8, <1>9, <1>10, OneToken DEF Fair!Graduate, c, d, o

LEMMA FairStep == IInv /\ [Next]_vars => [Fair!Next]_Fair!vars
  <1> SUFFICES ASSUME IInv, [Next]_vars
               PROVE  [Fair!Next]_Fair!vars
    OBVIOUS
  <1>1. MintTypes
    BY IInvParts
  <1>2. ASSUME UNCHANGED <<curve, launch>>
        PROVE  UNCHANGED Fair!vars
    BY <1>2, SameView
  <1>3. ASSUME NEW m \in Mints, CreateToken(m)
        PROVE  Fair!Next
    BY <1>3, OfferStep DEF Fair!Next
  <1>4. ASSUME NEW m \in Mints, Trade(m)
        PROVE  Fair!Next
    BY <1>4, InvestStep, ExitStep DEF Fair!Next, Trade
  <1>5. ASSUME NEW m \in Mints, Migrate(m)
        PROVE  Fair!Next
    BY <1>5, GraduateStep DEF Fair!Next
  <1>6. ASSUME NEW m \in Mints, ClaimCreatorFees(m) \/ CollectProtocolFees(m)
        PROVE  UNCHANGED Fair!vars
    <2>1. /\ launch' = launch
          /\ \/ curve' = [curve EXCEPT ![m].creatorFees = 0]
             \/ curve' = [curve EXCEPT ![m].protocolFees = 0]
      BY <1>6 DEF ClaimCreatorFees, CollectProtocolFees
    <2>2. ASSUME NEW n \in Mints
          PROVE  /\ curve'[n].status = curve[n].status
                 /\ curve'[n].rs = curve[n].rs
                 /\ curve'[n].rt = curve[n].rt
      <3> DEFINE c == curve[n]
                 d == curve'[n]
      <3>1. /\ c \in Curve
            /\ \/ d = c \/ d = [c EXCEPT !.creatorFees = 0]
               \/ d = [c EXCEPT !.protocolFees = 0]
        BY <1>1, <2>1 DEF MintTypes
      <3> HIDE DEF c, d
      <3>2. d.status = c.status /\ d.rs = c.rs /\ d.rt = c.rt
        BY <3>1 DEF Curve
      <3> QED BY <3>2 DEF c, d
    <2> QED BY <2>1, <2>2, SameView
  <1>7. ASSUME NEW m \in Mints, Gift(m)
        PROVE  UNCHANGED <<curve, launch>>
    BY <1>7 DEF Gift, GiveSol, GiveTokens, GiveStray
  <1>8. \/ UNCHANGED <<curve, launch>>
        \/ \E m \in Mints :
             \/ CreateToken(m) \/ Trade(m) \/ ClaimCreatorFees(m)
             \/ CollectProtocolFees(m) \/ Migrate(m) \/ Gift(m)
    BY DEF Next, vars, curveVars, Admin, UpdateConfig, SetPaused,
           TransferAdmin, AcceptAdmin, RaydiumChange, Tick
  <1> QED BY <1>2, <1>3, <1>4, <1>5, <1>6, <1>7, <1>8

\* The program keeps what a fair launch promises, whatever the number of
\* tokens, the terms, the fees, the changes of configuration and Raydium.
THEOREM LaunchIsFair == Spec => ImplementsFairLaunch
  BY FairInit, FairStep, Soundness, PTL DEF Spec, ImplementsFairLaunch, Fair!Spec

=============================================================================
