------------------------- MODULE AccountLocksProofs -------------------------
(***************************************************************************)
(* Client, IDL and handlers agree on the accounts of every instruction,    *)
(* and a trade only locks its own token's, whatever the number of tokens,  *)
(* wallets, fee tiers and transactions under way.                          *)
(***************************************************************************)
EXTENDS AccountLocks, TLAPS

TradeOps == {"createToken", "buy", "sell", "claimCreatorFees",
             "collectProtocolFees", "migrate"}

\* Only the instructions about a token name one, and who names a token account
\* to sell from names one of its own.
Instructions ==
  {i \in [op : AdminOps \cup TradeOps, payer : Wallets,
          mint : Mints \cup {Nobody}, recipient : Recipients \cup {Nobody},
          raydium : Raydiums \cup {Nobody},
          account : {Nobody} \cup {OtherAccount(w, m) : w \in Wallets, m \in Mints}] :
     /\ i.op \in TradeOps => i.mint \in Mints
     /\ i.account \in {Nobody, OtherAccount(i.payer, i.mint)}}

Configs ==
  [admin : Wallets \cup {Nobody}, pending : Wallets \cup {Nobody},
   recipient : Recipients \cup {Nobody}, raydium : Raydiums \cup {Nobody}]

Transactions ==
  [phase : {"idle", "sent", "running", "refused"},
   list : SUBSET Instructions, stale : BOOLEAN]

TypeOK ==
  /\ config \in Configs
  /\ creator \in [Mints -> Wallets \cup {Nobody}]
  /\ tx \in [Slots -> Transactions]

\* What the client read when it built i is still so.
UpToDate(i) ==
  /\ i.op \notin {"initialize", "updateConfig"} =>
       i.recipient = config.recipient /\ i.raydium = config.raydium
  /\ i.op = "initialize" => config.admin = Nobody /\ i.payer = Deployer
  /\ i.op \in {"setPaused", "transferAdmin", "updateConfig"} =>
       i.payer = config.admin
  /\ i.op = "acceptAdmin" => i.payer = config.pending /\ i.payer # Nobody
  /\ i.op = "collectProtocolFees" => i.mint \in Launched
  /\ i.op = "createToken" => creator[i.mint] = Nobody
  /\ i.op = "claimCreatorFees" => creator[i.mint] = i.payer

FreshUnlessStale ==
  \A s \in Slots : tx[s].stale \/ \A i \in tx[s].list : UpToDate(i)

\* No two transactions launch the same mint.
LaunchedOnce ==
  \A s \in Slots, t \in Slots : \A i \in tx[s].list, j \in tx[t].list :
    i.op = "createToken" /\ j.op = "createToken" /\ i.mint = j.mint => s = t

\* The inductive invariant.
LocksInv ==
  /\ TypeOK
  /\ FreshUnlessStale
  /\ LaunchedOnce
  /\ RefusedOnlyIfStale

-----------------------------------------------------------------------------
(***************************************************************************)
(* An instruction that is up to date runs: one lemma per list of accounts. *)
(***************************************************************************)

LEMMA CreateTokenRuns ==
  ASSUME NEW i \in Instructions, i.op = "createToken", UpToDate(i)
  PROVE  Runs(i)
  BY DEF Runs, Listed, Idl, IdlCreateToken, ClientCreateToken, Signatures,
         Constrained, LaunchAccepts, Launched, RaydiumTakes, Changed, UpToDate,
         CurveVault

LEMMA TradeRuns ==
  ASSUME NEW i \in Instructions, i.op \in {"buy", "sell"}
  PROVE  Runs(i)
  <1>1. CASE i.op = "buy"
    BY <1>1 DEF Runs, Listed, Idl, IdlBuy, ClientBuy, Signatures,
                Constrained, RaydiumTakes, Changed, CurveVault
  <1>2. CASE i.op = "sell"
    <2>1. i.account \in {Nobody, OtherAccount(i.payer, i.mint)}
      BY DEF Instructions
    <2> QED BY <1>2, <2>1 DEF Runs, Listed, Idl, IdlSell, ClientSell, Signatures,
                Constrained, SellAccepts, TokenAccounts, RaydiumTakes, Changed,
                CurveVault
  <1> QED BY <1>1, <1>2

LEMMA ClaimRuns ==
  ASSUME NEW i \in Instructions, i.op = "claimCreatorFees", UpToDate(i)
  PROVE  Runs(i)
  <1>1. i.mint \in Launched
    BY AccountLocksAssumption DEF UpToDate, Launched, Instructions, TradeOps
  <1> QED BY <1>1 DEF Runs, Listed, Idl, IdlClaim, ClientClaim, Signatures,
                      Constrained, FeesAccept, RaydiumTakes, Changed, UpToDate

LEMMA CollectRuns ==
  ASSUME NEW i \in Instructions, i.op = "collectProtocolFees", UpToDate(i)
  PROVE  Runs(i)
  BY DEF Runs, Listed, Idl, IdlCollect, ClientCollect, Signatures,
         Constrained, FeesAccept, RaydiumTakes, Changed, UpToDate

\* The sorted order of Raydium's mints is the same on both sides.
LEMMA MigrateRuns ==
  ASSUME NEW i \in Instructions, i.op = "migrate", UpToDate(i)
  PROVE  Runs(i)
  <1> DEFINE a == ClientMigrate(i)
  <1>1. Listed(i) = a /\ Idl(i.op, a) = IdlMigrate(a)
    BY DEF Listed, Idl
  <1>2. \A n \in DOMAIN IdlMigrate(a).derived : a[n] = IdlMigrate(a).derived[n]
    <2>1. /\ a.config = ConfigPda /\ a.mint = i.mint
          /\ a.bondingCurve = CurvePda(i.mint)
          /\ a.curveVault = Ata(CurvePda(i.mint), i.mint)
          /\ a.poolCreator = PoolCreatorPda(i.mint)
          /\ a.poolState = PoolPda(i.mint)
      BY DEF ClientMigrate, PoolAccounts, PoolCreatorAccounts, CurveVault
    <2>2. DOMAIN IdlMigrate(a).derived =
            {"config", "bondingCurve", "curveVault", "poolCreator", "poolState"}
      BY DEF IdlMigrate
    <2> HIDE DEF a
    <2> QED BY <2>1, <2>2 DEF IdlMigrate
  <1>3. \A n \in IdlMigrate(a).signers : a[n] \in Signatures(i)
    BY DEF IdlMigrate, ClientMigrate, Signatures
  <1>4. Constrained(i, a)
    BY DEF Constrained, MigrateAccepts, ClientMigrate, PoolCreatorAccounts, UpToDate
  <1>5. RaydiumTakes("migrate", a)
    BY DEF RaydiumTakes, RaydiumMints, ClientMigrate, PoolAccounts,
           PoolCreatorAccounts, Token0Mint, Token1Mint
  <1>6. Changed("migrate") \subseteq IdlMigrate(a).writable
    BY DEF Changed, IdlMigrate
  <1> HIDE DEF a
  <1> QED BY <1>1, <1>2, <1>3, <1>4, <1>5, <1>6 DEF Runs

LEMMA AdminRuns ==
  ASSUME NEW i \in Instructions, i.op \in AdminOps, UpToDate(i)
  PROVE  Runs(i)
  <1>1. CASE i.op = "initialize"
    BY <1>1 DEF Runs, Listed, Idl, IdlInitialize, ClientInitialize, AdminAccounts,
                Signatures, Constrained, AdminAccepts, RaydiumTakes, Changed, UpToDate
  <1>2. CASE i.op = "updateConfig"
    BY <1>2 DEF Runs, Listed, Idl, IdlUpdateConfig, ClientUpdateConfig,
                AdminAccounts, Signatures, Constrained, AdminAccepts, RaydiumTakes, Changed,
                UpToDate
  <1>3. CASE i.op = "setPaused"
    BY <1>3 DEF Runs, Listed, Idl, IdlSetPaused, AdminAccounts, Signatures,
                Constrained, AdminAccepts, RaydiumTakes, Changed, UpToDate
  <1>4. CASE i.op = "transferAdmin"
    BY <1>4 DEF Runs, Listed, Idl, IdlTransferAdmin, AdminAccounts, Signatures,
                Constrained, AdminAccepts, RaydiumTakes, Changed, UpToDate
  <1>5. CASE i.op = "acceptAdmin"
    BY <1>5 DEF Runs, Listed, Idl, IdlAcceptAdmin, ClientAcceptAdmin, Signatures,
                Constrained, AdminAccepts, RaydiumTakes, Changed, UpToDate
  <1> QED BY <1>1, <1>2, <1>3, <1>4, <1>5 DEF AdminOps

LEMMA UpToDateRuns ==
  ASSUME NEW i \in Instructions, UpToDate(i)
  PROVE  Runs(i)
  BY CreateTokenRuns, TradeRuns, ClaimRuns, CollectRuns, MigrateRuns, AdminRuns
     DEF Instructions, TradeOps

-----------------------------------------------------------------------------
(***************************************************************************)
(* What the client builds.                                                 *)
(***************************************************************************)

\* A launch builds one createToken, of a mint nobody has.
LEMMA BuildableUpToDate ==
  ASSUME TypeOK, NEW w \in Wallets, NEW list \in Buildable(w)
  PROVE  /\ list \subseteq Instructions
         /\ \A i \in list : UpToDate(i)
         /\ \A i \in list : i.op = "createToken" => ~Taken(i.mint)
  <1> DEFINE Good(i) == /\ i \in Instructions /\ UpToDate(i)
                        /\ i.op = "createToken" => ~Taken(i.mint)
  <1> USE DEF TypeOK, Configs, AdminOps, TradeOps
  <1>1. ASSUME NEW op \in TradeOps \cup AdminOps, NEW m \in Mints \cup {Nobody},
               op \in TradeOps => m \in Mints
        PROVE  Instruction(op, w, m) \in Instructions
    BY <1>1 DEF Instruction, Instructions
  <1>2. ASSUME NEW m \in Launched,
               NEW op \in {"buy", "sell", "collectProtocolFees", "migrate"}
        PROVE  Good(Instruction(op, w, m))
    BY <1>1, <1>2 DEF Launched, UpToDate, Instruction
  <1>0. ASSUME NEW m \in Launched, NEW i \in Trades(w, m)
        PROVE  Good(i)
    <2>1. CASE i = [Instruction("sell", w, m) EXCEPT !.account = OtherAccount(w, m)]
      <3>1. i = [op |-> "sell", payer |-> w, mint |-> m,
                 recipient |-> config.recipient, raydium |-> config.raydium,
                 account |-> OtherAccount(w, m)]
        BY <2>1 DEF Instruction
      <3>2. m \in Mints
        BY DEF Launched
      <3>3. i \in Instructions
        BY <3>1, <3>2 DEF Instructions
      <3> QED BY <3>1, <3>3 DEF UpToDate
    <2> QED BY <1>2, <2>1 DEF Trades
  <1>3. ASSUME NEW m \in Launched, creator[m] = w
        PROVE  Good(Instruction("claimCreatorFees", w, m))
    BY <1>1, <1>3 DEF Launched, UpToDate, Instruction
  <1>4. ASSUME NEW m \in Mints \ Launched, ~Taken(m)
        PROVE  /\ Good(Instruction("createToken", w, m))
               /\ Good(Instruction("buy", w, m))
    <2>1. creator[m] = Nobody
      BY DEF Launched
    <2> QED BY <1>1, <1>4, <2>1 DEF UpToDate, Instruction
  <1>5. ASSUME NEW op \in {"initialize", "updateConfig"}, NEW i \in Asking(op, w),
               op = "initialize" => config.admin = Nobody /\ w = Deployer,
               op = "updateConfig" => w = config.admin
        PROVE  Good(i)
    <2>1. PICK f \in Recipients, r \in Raydiums :
            i = [op |-> op, payer |-> w, mint |-> Nobody, recipient |-> f,
                 raydium |-> r, account |-> Nobody]
      BY <1>5 DEF Asking
    <2> QED BY <1>5, <2>1 DEF Instructions, UpToDate
  <1>6. ASSUME NEW op \in {"setPaused", "transferAdmin"}, w = config.admin
        PROVE  Good(Instruction(op, w, Nobody))
    BY <1>1, <1>6 DEF UpToDate, Instruction
  <1>7. ASSUME w = config.pending
        PROVE  Good(Instruction("acceptAdmin", w, Nobody))
    BY <1>1, <1>7, AccountLocksAssumption DEF UpToDate, Instruction
  <1> HIDE DEF Good
  <1>8. ASSUME list \in AdminBuildable(w) PROVE \A i \in list : Good(i)
    BY <1>5, <1>6, <1>7, <1>8 DEF AdminBuildable
  <1>9. ASSUME list \notin AdminBuildable(w) PROVE \A i \in list : Good(i)
    BY <1>0, <1>2, <1>3, <1>4, <1>9 DEF Buildable
  <1> QED BY <1>8, <1>9 DEF Good

-----------------------------------------------------------------------------
(***************************************************************************)
(* The inductive invariant.                                                *)
(***************************************************************************)

LEMMA LocksInit == Init => LocksInv
  BY DEF Init, LocksInv, TypeOK, Configs, Transactions, Idle, FreshUnlessStale,
         LaunchedOnce, RefusedOnlyIfStale

LEMMA BuildInv ==
  ASSUME LocksInv, NEW s \in Slots, NEW w \in Wallets, Build(s, w)
  PROVE  LocksInv'
  <1>1. PICK list \in Buildable(w) :
          tx' = [tx EXCEPT ![s] = [phase |-> "sent", list |-> list, stale |-> FALSE]]
    BY DEF Build
  <1>2. UNCHANGED <<config, creator>> /\ TypeOK
    BY DEF Build, LocksInv
  <1>3. /\ list \subseteq Instructions
        /\ \A i \in list : UpToDate(i)
        /\ \A i \in list : i.op = "createToken" => ~Taken(i.mint)
    BY <1>2, BuildableUpToDate
  <1>4. /\ tx'[s] = [phase |-> "sent", list |-> list, stale |-> FALSE]
        /\ \A t \in Slots \ {s} : tx'[t] = tx[t]
    BY <1>1, <1>2 DEF TypeOK
  <1>5. TypeOK'
    BY <1>1, <1>2, <1>3 DEF TypeOK, Transactions
  <1>6. FreshUnlessStale'
    BY <1>2, <1>3, <1>4 DEF LocksInv, FreshUnlessStale, UpToDate, Launched
  <1>7. LaunchedOnce'
    BY <1>3, <1>4 DEF LocksInv, LaunchedOnce, Taken
  <1>8. RefusedOnlyIfStale'
    BY <1>4 DEF LocksInv, RefusedOnlyIfStale
  <1> QED BY <1>5, <1>6, <1>7, <1>8 DEF LocksInv

\* Starting, refusing and forgetting only change a phase, or drop a list.
LEMMA PhaseInv ==
  ASSUME LocksInv, NEW s \in Slots, Start(s) \/ Refuse(s) \/ Forget(s)
  PROVE  LocksInv'
  <1>1. UNCHANGED <<config, creator>> /\ TypeOK
    BY DEF Start, Refuse, Forget, LocksInv
  <1>2. \A t \in Slots \ {s} : tx'[t] = tx[t]
    BY <1>1 DEF TypeOK, Start, Refuse, Forget
  <1>3. \/ tx'[s] = Idle
        \/ /\ tx'[s].list = tx[s].list /\ tx'[s].stale = tx[s].stale
           /\ tx'[s].phase = "refused" => \E i \in tx[s].list : ~Runs(i)
    BY <1>1 DEF TypeOK, Transactions, Start, Refuse, Forget
  <1>4. TypeOK'
    <2>1. tx'[s] \in Transactions
      <3>1. tx[s] \in Transactions /\ Idle \in Transactions
        BY <1>1 DEF TypeOK, Transactions, Idle
      <3>2. \/ tx'[s] = [tx[s] EXCEPT !.phase = "running"]
            \/ tx'[s] = [tx[s] EXCEPT !.phase = "refused"]
            \/ tx'[s] = Idle
        BY <1>1 DEF TypeOK, Start, Refuse, Forget
      <3> QED BY <3>1, <3>2 DEF Transactions
    <2>2. tx' = [t \in Slots |-> tx'[t]]
      BY <1>1 DEF TypeOK, Start, Refuse, Forget
    <2> QED BY <1>1, <1>2, <2>1, <2>2 DEF TypeOK
  <1>5. FreshUnlessStale'
    BY <1>1, <1>2, <1>3 DEF LocksInv, FreshUnlessStale, UpToDate, Launched, Idle
  <1>6. LaunchedOnce'
    BY <1>2, <1>3 DEF LocksInv, LaunchedOnce, Idle
  <1>7. RefusedOnlyIfStale'
    <2>1. ASSUME NEW i \in tx[s].list, ~Runs(i) PROVE tx[s].stale
      BY <1>1, <2>1, UpToDateRuns DEF LocksInv, FreshUnlessStale, TypeOK, Transactions
    <2> QED BY <1>2, <1>3, <2>1 DEF LocksInv, RefusedOnlyIfStale, Idle
  <1> QED BY <1>4, <1>5, <1>6, <1>7 DEF LocksInv

LEMMA ConfiguredType ==
  ASSUME TypeOK, NEW i \in Instructions, NEW c \in Configured(i)
  PROVE  c \in Configs
  <1>1. c \in {config} \cup {[admin |-> i.payer, pending |-> Nobody,
                             recipient |-> i.recipient, raydium |-> i.raydium]}
          \cup {[config EXCEPT !.recipient = i.recipient, !.raydium = i.raydium]}
          \cup {[config EXCEPT !.pending = w] : w \in Wallets}
          \cup {[config EXCEPT !.admin = config.pending, !.pending = Nobody]}
    BY Zenon DEF Configured
  <1>2. config \in Configs
    BY DEF TypeOK
  <1>3. /\ i.payer \in Wallets /\ i.recipient \in Recipients \cup {Nobody}
        /\ i.raydium \in Raydiums \cup {Nobody}
    BY DEF Instructions
  <1>4. [config EXCEPT !.recipient = i.recipient, !.raydium = i.raydium] \in Configs
    BY <1>2, <1>3 DEF Configs
  <1>5. \A w \in Wallets : [config EXCEPT !.pending = w] \in Configs
    BY <1>2 DEF Configs
  <1>6. [config EXCEPT !.admin = config.pending, !.pending = Nobody] \in Configs
    BY <1>2 DEF Configs
  <1>7. [admin |-> i.payer, pending |-> Nobody, recipient |-> i.recipient,
         raydium |-> i.raydium] \in Configs
    BY <1>3 DEF Configs
  <1> QED BY <1>1, <1>2, <1>4, <1>5, <1>6, <1>7

LEMMA FinishInv ==
  ASSUME LocksInv, NEW s \in Slots, Finish(s)
  PROVE  LocksInv'
  <1> DEFINE launch(i, m) == i.op = "createToken" /\ i.mint = m
  <1>1. /\ TypeOK
        /\ \A i \in tx[s].list : i \in Instructions /\ Runs(i)
        /\ \E i \in tx[s].list : config' \in Configured(i)
    BY DEF Finish, LocksInv, TypeOK, Transactions
  <1>2. /\ tx'[s] = Idle
        /\ \A t \in Slots \ {s} :
             /\ tx'[t].list = tx[t].list /\ tx'[t].phase = tx[t].phase
             /\ tx'[t].stale = (tx[t] # Idle /\ (tx[t].stale \/ config' # config))
    BY <1>1 DEF Finish, TypeOK, Transactions
  <1>3. \A m \in Mints :
          creator'[m] = IF \E i \in tx[s].list : launch(i, m)
                        THEN (CHOOSE i \in tx[s].list : i.mint = m).payer
                        ELSE creator[m]
    BY DEF Finish
  <1>4. TypeOK'
    <2>1. config' \in Configs
      BY <1>1, ConfiguredType
    <2>2. creator' \in [Mints -> Wallets \cup {Nobody}]
      <3>1. ASSUME NEW m \in Mints, NEW i \in tx[s].list, launch(i, m)
            PROVE  (CHOOSE j \in tx[s].list : j.mint = m).payer \in Wallets
        <4>1. (CHOOSE j \in tx[s].list : j.mint = m) \in tx[s].list
          BY <3>1
        <4> QED BY <1>1, <4>1 DEF Instructions
      <3>2. \A m \in Mints : creator'[m] \in Wallets \cup {Nobody}
        BY <1>1, <1>3, <3>1 DEF TypeOK
      <3> QED BY <3>2 DEF Finish
    <2>3. tx' \in [Slots -> Transactions]
      BY <1>1, ZenonT(40) DEF Finish, TypeOK, Transactions, Idle
    <2> QED BY <2>1, <2>2, <2>3 DEF TypeOK
  \* A mint is launched when nobody has it.
  <1>5. ASSUME NEW i \in tx[s].list, i.op = "createToken"
        PROVE  creator[i.mint] = Nobody
    <2>1. Runs(i) /\ i \in Instructions
      BY <1>1
    <2> QED BY <1>5, <2>1 DEF Runs, Constrained, LaunchAccepts, Launched, Listed,
                             ClientCreateToken, Instructions, TradeOps
  <1>6. ASSUME NEW t \in Slots \ {s}, ~tx'[t].stale, NEW i \in tx'[t].list
        PROVE  UpToDate(i)'
    <2>1. tx[t] # Idle /\ ~tx[t].stale /\ config' = config
      <3>1. tx[t] # Idle
        BY <1>2, <1>6 DEF Idle
      <3> QED BY <1>1, <1>2, <1>6, <3>1 DEF TypeOK, Transactions
    <2>2. i \in tx[t].list /\ UpToDate(i) /\ i \in Instructions
      BY <1>1, <1>2, <2>1 DEF LocksInv, FreshUnlessStale, TypeOK, Transactions
    <2>3. i.op = "createToken" => creator'[i.mint] = creator[i.mint]
      <3>1. ASSUME i.op = "createToken", NEW j \in tx[s].list, launch(j, i.mint)
            PROVE  FALSE
        BY <2>2, <3>1 DEF LocksInv, LaunchedOnce
      <3> QED BY <1>3, <2>2, <3>1 DEF Instructions, TradeOps
    <2>4. i.op = "claimCreatorFees" => creator'[i.mint] = creator[i.mint]
      <3>1. ASSUME i.op = "claimCreatorFees", NEW j \in tx[s].list, launch(j, i.mint)
            PROVE  FALSE
        <4>1. creator[i.mint] = Nobody
          BY <1>5, <3>1
        <4> QED BY <2>2, <3>1, <4>1, AccountLocksAssumption
                DEF UpToDate, Instructions
      <3> QED BY <1>3, <2>2, <3>1 DEF Instructions, TradeOps
    \* A launched token stays launched.
    <2>5. i.op = "collectProtocolFees" => i.mint \in Launched'
      <3>1. ASSUME NEW m \in Launched PROVE m \in Launched'
        <4>1. \A j \in tx[s].list : ~launch(j, m)
          BY <1>5 DEF Launched
        <4> QED BY <1>3, <4>1 DEF Launched
      <3> QED BY <2>2, <3>1 DEF UpToDate
    <2> QED BY <2>1, <2>2, <2>3, <2>4, <2>5 DEF UpToDate
  <1>7. FreshUnlessStale'
    BY <1>2, <1>6 DEF FreshUnlessStale, Idle
  <1>8. LaunchedOnce'
    BY <1>2 DEF LocksInv, LaunchedOnce, Idle
  <1>9. ASSUME NEW t \in Slots, tx'[t].phase = "refused" PROVE tx'[t].stale
    <2>1. t # s /\ tx[t].phase = "refused"
      BY <1>2, <1>9 DEF Idle
    <2>2. tx[t].stale /\ tx[t] # Idle
      BY <2>1 DEF LocksInv, RefusedOnlyIfStale, Idle
    <2> QED BY <1>2, <2>1, <2>2
  <1>10. RefusedOnlyIfStale'
    BY <1>9 DEF RefusedOnlyIfStale
  <1> QED BY <1>4, <1>7, <1>8, <1>10 DEF LocksInv

LEMMA LocksNext == LocksInv /\ [Next]_vars => LocksInv'
  <1> SUFFICES ASSUME LocksInv, [Next]_vars PROVE LocksInv'
    OBVIOUS
  <1>1. CASE Next
    BY <1>1, BuildInv, PhaseInv, FinishInv DEF Next
  <1>2. CASE UNCHANGED vars
    BY <1>2 DEF LocksInv, TypeOK, FreshUnlessStale, UpToDate, Launched,
                LaunchedOnce, RefusedOnlyIfStale, vars
  <1> QED BY <1>1, <1>2

\* Launches are launched once, and what a transaction under way names was
\* derived from a configuration that is in force or was (client.ts, pda.ts).
THEOREM AlwaysLocksInv == Spec => []LocksInv
  BY LocksInit, LocksNext, PTL DEF Spec

\* A transaction is refused for its accounts only if the configuration changed
\* after the client read it: client, IDL and handlers never disagree.
THEOREM RefusalsAreStale == Spec => []RefusedOnlyIfStale
  <1>1. LocksInv => RefusedOnlyIfStale
    BY DEF LocksInv
  <1> QED BY <1>1, AlwaysLocksInv, PTL

-----------------------------------------------------------------------------
(***************************************************************************)
(* What a trade locks.                                                     *)
(***************************************************************************)

\* What a trade of m by w may write; it also reads the configuration and m.
TradeWrites(w, m) == {w, CurvePda(m), CurveVault(m)} \cup TokenAccounts(w, m)

TradeNames(w, m) == TradeWrites(w, m) \cup {ConfigPda, m}

LEMMA TradeLocks ==
  ASSUME NEW w, NEW m, NEW i \in Trades(w, m)
  PROVE  /\ Writes(i) \subseteq TradeWrites(w, m)
         /\ Names(i) \subseteq TradeNames(w, m)
  <1>1. /\ i.op \in {"buy", "sell"} /\ i.payer = w /\ i.mint = m
        /\ i.account \in {Nobody, OtherAccount(w, m)}
    BY DEF Trades, Instruction
  <1>2. CASE i.op = "buy"
    <2> DEFINE a == ClientBuy(i)
    <2>1. /\ DOMAIN a = {"buyer", "config", "bondingCurve", "mint", "curveVault",
                         "buyerTokenAccount"}
          /\ a.buyer = w /\ a.config = ConfigPda /\ a.bondingCurve = CurvePda(m)
          /\ a.mint = m /\ a.curveVault = CurveVault(m)
          /\ a.buyerTokenAccount \in TokenAccounts(w, m)
      BY <1>1 DEF ClientBuy, TokenAccounts
    <2>2. /\ Listed(i) = a
          /\ Idl("buy", a).writable =
               {"buyer", "bondingCurve", "curveVault", "buyerTokenAccount"}
      BY <1>2 DEF Listed, Idl, IdlBuy
    <2> HIDE DEF a
    <2> QED BY <1>1, <1>2, <2>1, <2>2 DEF Writes, Names, TradeWrites, TradeNames
  <1>3. CASE i.op = "sell"
    <2> DEFINE a == ClientSell(i)
    <2>1. /\ DOMAIN a = {"seller", "config", "bondingCurve", "mint", "curveVault",
                         "sellerTokenAccount"}
          /\ a.seller = w /\ a.config = ConfigPda /\ a.bondingCurve = CurvePda(m)
          /\ a.mint = m /\ a.curveVault = CurveVault(m)
          /\ a.sellerTokenAccount \in TokenAccounts(w, m)
      BY <1>1 DEF ClientSell, TokenAccounts
    <2>2. /\ Listed(i) = a
          /\ Idl("sell", a).writable =
               {"seller", "bondingCurve", "curveVault", "sellerTokenAccount"}
      BY <1>3 DEF Listed, Idl, IdlSell
    <2> HIDE DEF a
    <2> QED BY <1>1, <1>3, <2>1, <2>2 DEF Writes, Names, TradeWrites, TradeNames
  <1> QED BY <1>1, <1>2, <1>3

\* What any other instruction about a token can lock.
Involved(i) ==
  LET m == i.mint
      pool == PoolPda(m)
      owner == PoolCreatorPda(m)
  IN {i.payer, m, i.recipient, CurvePda(m), CurveVault(m), Ata(i.payer, m),
      OtherAccount(i.payer, m),
      AmmConfig(i.raydium), PoolFee(i.raydium), pool, LpMint(pool),
      Observation(pool), PoolVault(pool, m), PoolVault(pool, Wsol), owner,
      Ata(owner, m), Ata(owner, Wsol), Ata(owner, LpMint(pool))}

LEMMA MigrateLocks ==
  ASSUME NEW i, i.op = "migrate"
  PROVE  /\ Writes(i) \subseteq Involved(i)
         /\ Names(i) \subseteq Involved(i) \cup {ConfigPda}
  <1> DEFINE a == ClientMigrate(i)
             names == {"payer", "config", "bondingCurve", "mint", "curveVault",
                       "poolCreator", "poolCreatorToken", "poolCreatorWsol",
                       "poolCreatorLp", "feeRecipient", "ammConfig", "poolState",
                       "lpMint", "token0Vault", "token1Vault", "createPoolFee",
                       "observationState"}
  <1>1. Listed(i) = a
    BY DEF Listed
  <1>2. DOMAIN a = names
    BY DEF ClientMigrate
  <1>3. Idl("migrate", a).writable \subseteq names \ {"config"}
    BY DEF Idl, IdlMigrate
  <1>4. /\ a.token0Vault \in Involved(i) /\ a.token1Vault \in Involved(i)
        /\ a.poolState \in Involved(i) /\ a.lpMint \in Involved(i)
        /\ a.observationState \in Involved(i)
    BY DEF ClientMigrate, PoolAccounts, Token0Mint, Token1Mint, Involved
  <1>5. /\ a.poolCreator \in Involved(i) /\ a.poolCreatorToken \in Involved(i)
        /\ a.poolCreatorWsol \in Involved(i) /\ a.poolCreatorLp \in Involved(i)
    BY DEF ClientMigrate, PoolCreatorAccounts, Involved
  <1>6. /\ a.payer \in Involved(i) /\ a.bondingCurve \in Involved(i)
        /\ a.mint \in Involved(i) /\ a.curveVault \in Involved(i)
        /\ a.feeRecipient \in Involved(i) /\ a.ammConfig \in Involved(i)
        /\ a.createPoolFee \in Involved(i) /\ a.config = ConfigPda
    BY DEF ClientMigrate, Involved
  <1>7. i.payer \in Involved(i)
    BY DEF Involved
  <1> HIDE DEF a
  <1>8. \A n \in names \ {"config"} : a[n] \in Involved(i)
    BY <1>4, <1>5, <1>6
  <1>9. Writes(i) \subseteq Involved(i)
    <2> HIDE DEF names
    <2> QED BY <1>1, <1>3, <1>7, <1>8 DEF Writes
  <1>10. Names(i) \subseteq Involved(i) \cup {ConfigPda}
    <2> HIDE DEF names
    <2> QED BY <1>1, <1>2, <1>6, <1>7, <1>8 DEF Names
  <1> QED BY <1>9, <1>10

LEMMA TokenOpLocks ==
  ASSUME NEW i \in Instructions, i.op \in TradeOps
  PROVE  /\ Writes(i) \subseteq Involved(i)
         /\ Names(i) \subseteq Involved(i) \cup {ConfigPda}
  <1>1. CASE i.op = "createToken"
    BY <1>1 DEF Writes, Names, Listed, Idl, IdlCreateToken, ClientCreateToken, Involved
  <1>2. CASE i.op = "buy"
    BY <1>2 DEF Writes, Names, Listed, Idl, IdlBuy, ClientBuy, Involved
  <1>3. CASE i.op = "sell"
    <2>1. i.account \in {Nobody, OtherAccount(i.payer, i.mint)}
      BY DEF Instructions
    <2> QED BY <1>3, <2>1 DEF Writes, Names, Listed, Idl, IdlSell, ClientSell,
                              Involved
  <1>4. CASE i.op = "claimCreatorFees"
    BY <1>4 DEF Writes, Names, Listed, Idl, IdlClaim, ClientClaim, Involved
  <1>5. CASE i.op = "collectProtocolFees"
    BY <1>5 DEF Writes, Names, Listed, Idl, IdlCollect, ClientCollect, Involved
  <1> QED BY <1>1, <1>2, <1>3, <1>4, <1>5, MigrateLocks DEF TradeOps

-----------------------------------------------------------------------------
(***************************************************************************)
(* Two tokens and two wallets have nothing to write in common.             *)
(***************************************************************************)

LEMMA AtasDiffer ==
  ASSUME NEW o, NEW x, NEW p, NEW y
  PROVE  /\ Ata(o, x) = Ata(p, y) => o = p /\ x = y
         /\ Ata(o, x) # PoolVault(p, y)
         /\ Ata(o, x) # CurvePda(y) /\ Ata(o, x) # PoolPda(y)
         /\ Ata(o, x) # PoolCreatorPda(y) /\ Ata(o, x) # LpMint(y)
         /\ Ata(o, x) # Observation(y) /\ Ata(o, x) # AmmConfig(y)
         /\ Ata(o, x) # PoolFee(y) /\ Ata(o, x) # ConfigPda
         /\ Ata(o, x) # OtherAccount(p, y)
  BY DEF Ata, OtherAccount, CurvePda, PoolPda, PoolCreatorPda, LpMint, Observation, AmmConfig,
         PoolFee, ConfigPda, PoolVault

LEMMA OthersDiffer ==
  ASSUME NEW o, NEW x, NEW p, NEW y
  PROVE  /\ OtherAccount(o, x) = OtherAccount(p, y) => o = p /\ x = y
         /\ OtherAccount(o, x) # PoolVault(p, y)
         /\ OtherAccount(o, x) # CurvePda(y) /\ OtherAccount(o, x) # PoolPda(y)
         /\ OtherAccount(o, x) # PoolCreatorPda(y) /\ OtherAccount(o, x) # LpMint(y)
         /\ OtherAccount(o, x) # Observation(y) /\ OtherAccount(o, x) # AmmConfig(y)
         /\ OtherAccount(o, x) # PoolFee(y) /\ OtherAccount(o, x) # ConfigPda
  BY DEF OtherAccount, CurvePda, PoolPda, PoolCreatorPda, LpMint, Observation,
         AmmConfig, PoolFee, ConfigPda, PoolVault

LEMMA CurvesDiffer ==
  ASSUME NEW x, NEW p, NEW y
  PROVE  /\ CurvePda(x) = CurvePda(y) => x = y
         /\ CurvePda(x) # PoolVault(p, y)
         /\ CurvePda(x) # PoolPda(y) /\ CurvePda(x) # PoolCreatorPda(y)
         /\ CurvePda(x) # LpMint(y) /\ CurvePda(x) # Observation(y)
         /\ CurvePda(x) # AmmConfig(y) /\ CurvePda(x) # PoolFee(y)
         /\ CurvePda(x) # ConfigPda
  BY DEF CurvePda, PoolPda, PoolCreatorPda, LpMint, Observation, AmmConfig,
         PoolFee, ConfigPda, PoolVault

LEMMA ConfigDiffers ==
  ASSUME NEW p, NEW y
  PROVE  /\ ConfigPda # PoolVault(p, y)
         /\ ConfigPda # PoolPda(y) /\ ConfigPda # PoolCreatorPda(y)
         /\ ConfigPda # LpMint(y) /\ ConfigPda # Observation(y)
         /\ ConfigPda # AmmConfig(y) /\ ConfigPda # PoolFee(y)
  BY DEF PoolPda, PoolCreatorPda, LpMint, Observation, AmmConfig,
         PoolFee, ConfigPda, PoolVault

LEMMA AddressesDerived ==
  ASSUME NEW i \in Instructions, i.op \in TradeOps
  PROVE  \A a \in Involved(i) : a \in {i.payer, i.mint, i.recipient} \cup Derived
  <1> DEFINE m == i.mint  pool == PoolPda(m)  owner == PoolCreatorPda(m)
  <1>1. m \in Mints /\ i.payer \in Wallets /\ i.raydium \in Raydiums \cup {Nobody}
    BY DEF Instructions
  <1>2. DerivedOf(m) \subseteq Derived
    BY <1>1 DEF Derived
  <1>3. {AmmConfig(i.raydium), PoolFee(i.raydium)} \subseteq Derived
    BY <1>1 DEF Derived
  <1>4. {CurvePda(m), CurveVault(m), Ata(i.payer, m), OtherAccount(i.payer, m),
         pool, LpMint(pool), Observation(pool), PoolVault(pool, m), PoolVault(pool, Wsol), owner,
         Ata(owner, m), Ata(owner, Wsol), Ata(owner, LpMint(pool))}
           \subseteq DerivedOf(m)
    BY <1>1 DEF DerivedOf, TokenAccounts
  <1> QED BY <1>2, <1>3, <1>4 DEF Involved

LEMMA KeysAreKeys ==
  ASSUME NEW k \in Mints \cup Wallets \cup Recipients \cup {Nobody}
  PROVE  k \notin Derived
  BY KeysAssumption

LEMMA OtherTokensApart ==
  ASSUME NEW i \in Instructions, i.op \in TradeOps,
         NEW w \in Wallets, NEW m \in Mints, i.mint # m, i.payer # w
  PROVE  /\ TradeWrites(w, m) \cap (Involved(i) \cup {ConfigPda}) = {}
         /\ {ConfigPda, m} \cap Involved(i) = {}
  <1> DEFINE n == i.mint  pool == PoolPda(n)  owner == PoolCreatorPda(n)
             keys == {i.payer, n, i.recipient}
  <1>1. /\ n \in Mints /\ i.payer \in Wallets /\ i.recipient \in Recipients \cup {Nobody}
        /\ n # m /\ i.payer # w
    BY DEF Instructions
  <1>2. /\ w \notin keys \cup Derived /\ m \notin keys \cup Derived
        /\ keys \cap Derived = {} /\ ConfigPda \in Derived
    BY <1>1, KeysAreKeys, KeysAssumption, AccountLocksAssumption DEF Derived
  <1>3. w \notin Involved(i) /\ m \notin Involved(i) /\ w # ConfigPda
    BY <1>2, AddressesDerived
  <1>4. {CurvePda(m), CurveVault(m), Ata(w, m), OtherAccount(w, m)} \subseteq Derived
    <2>1. {CurvePda(m), CurveVault(m), Ata(w, m), OtherAccount(w, m)}
            \subseteq DerivedOf(m)
      BY DEF DerivedOf, TokenAccounts
    <2> QED BY <2>1 DEF Derived
  <1>5. ConfigPda \notin Involved(i)
    BY <1>2, CurvesDiffer, AtasDiffer, OthersDiffer, ConfigDiffers
       DEF Involved, CurveVault
  <1>6. CurvePda(m) \notin Involved(i) /\ CurvePda(m) # ConfigPda
    BY <1>1, <1>2, <1>4, CurvesDiffer, AtasDiffer, OthersDiffer
       DEF Involved, CurveVault
  \* An associated account is of one token and of one owner.
  <1>7. m # Wsol /\ m # LpMint(pool)
    <2>1. LpMint(pool) \in Derived
      <3>1. LpMint(pool) \in DerivedOf(n)
        BY DEF DerivedOf
      <3> QED BY <1>1, <3>1 DEF Derived
    <2> QED BY <1>2, <2>1, KeysAssumption
  <1>8. CurveVault(m) \notin Involved(i) /\ CurveVault(m) # ConfigPda
    BY <1>1, <1>2, <1>4, <1>7, AtasDiffer DEF Involved, CurveVault
  <1>9. Ata(w, m) \notin Involved(i) /\ Ata(w, m) # ConfigPda
    BY <1>1, <1>2, <1>4, <1>7, AtasDiffer DEF Involved, CurveVault
  <1>10. OtherAccount(w, m) \notin Involved(i) /\ OtherAccount(w, m) # ConfigPda
    BY <1>1, <1>2, <1>4, AtasDiffer, OthersDiffer DEF Involved, CurveVault
  <1> QED BY <1>3, <1>5, <1>6, <1>8, <1>9, <1>10 DEF TradeWrites, TokenAccounts

\* A trade waits for a transaction on another token only if both have the same
\* wallet, or if that one changes the configuration.
THEOREM TradesStayApart == Spec => []OnlyOwnTokenWaits
  <1>1. ASSUME TypeOK PROVE OnlyOwnTokenWaits
    <2>1. SUFFICES ASSUME NEW s \in Slots, NEW w \in Wallets, NEW m \in Launched,
                          NEW trade \in Trades(w, m),
                          Exclude({trade}, tx[s].list),
                          \A i \in tx[s].list : i.mint # m /\ i.payer # w
                   PROVE  \E i \in tx[s].list : i.op \in AdminOps
      BY DEF OnlyOwnTokenWaits
    <2>2. PICK i \in tx[s].list :
            \/ TradeWrites(w, m) \cap Names(i) # {}
            \/ TradeNames(w, m) \cap Writes(i) # {}
      BY <2>1, TradeLocks DEF Exclude
    <2>3. i \in Instructions /\ m \in Mints /\ i.mint # m /\ i.payer # w
      BY <1>1, <2>1 DEF TypeOK, Transactions, Launched
    <2>4. ASSUME i.op \in TradeOps PROVE FALSE
      <3>1. /\ Writes(i) \subseteq Involved(i)
            /\ Names(i) \subseteq Involved(i) \cup {ConfigPda}
        BY <2>3, <2>4, TokenOpLocks
      <3>2. /\ TradeWrites(w, m) \cap (Involved(i) \cup {ConfigPda}) = {}
            /\ {ConfigPda, m} \cap Involved(i) = {}
        BY <2>3, <2>4, OtherTokensApart
      <3> QED BY <2>2, <3>1, <3>2 DEF TradeNames
    <2>5. i.op \in AdminOps
      BY <2>3, <2>4 DEF Instructions
    <2> QED BY <2>5
  <1>2. LocksInv => TypeOK
    BY DEF LocksInv
  <1> QED BY <1>1, <1>2, AlwaysLocksInv, PTL

=============================================================================
