----------------------------- MODULE AccountLocks -----------------------------
(***************************************************************************)
(* The accounts of the program's instructions.  A Solana transaction names *)
(* beforehand every account it uses and which of them it may write; the    *)
(* runtime runs two transactions at once unless one of them may write what *)
(* the other one names.  Three parts of the code must agree on the lists:  *)
(*   - the client, which computes the addresses (sdk/src/client.ts, pda.ts)*)
(*   - the IDL, which says what may be written, who signs and which        *)
(*     addresses are derived (sdk/src/idl/launchpad.ts)                    *)
(*   - the handlers, which check the rest and change the accounts.         *)
(* Launchpad has what an instruction computes; here it is which accounts   *)
(* it needs.  Programs, sysvars and the event authority are constants that *)
(* nobody writes and are left out.                                         *)
(***************************************************************************)
EXTENDS Naturals, FiniteSets

CONSTANTS
  Mints,        \* keys of the tokens
  LowMints,     \* those that sort before the key of wrapped SOL
  Wallets,      \* keys that pay for and sign transactions
  Recipients,   \* keys usable as fee recipient
  Raydiums,     \* Raydium fee tiers
  Wsol,         \* the mint of wrapped SOL
  Deployer,     \* the wallet that is the program's upgrade authority
  Nobody,       \* Pubkey::default()
  Slots         \* bound: transactions under way at once

ASSUME AccountLocksAssumption ==
  /\ LowMints \subseteq Mints
  /\ Deployer \in Wallets /\ Nobody \notin Wallets
  /\ IsFiniteSet(Slots)

VARIABLES
  config,    \* what accounts depend on in the Config account
  creator,   \* the creator of each launched token, or Nobody
  tx         \* the transaction in each slot

vars == <<config, creator, tx>>

-----------------------------------------------------------------------------
(***************************************************************************)
(* Addresses.                                                              *)
(***************************************************************************)

ConfigPda == <<"config">>
CurvePda(m) == <<"bonding_curve", m>>
PoolCreatorPda(m) == <<"pool_creator", m>>
PoolPda(m) == <<"raydium_pool", m>>

\* The associated token account of an owner.
Ata(owner, m) == <<"ata", owner, m>>

CurveVault(m) == Ata(CurvePda(m), m)

\* A token account that a wallet opened beside its associated one.
OtherAccount(owner, m) == <<"token_account", owner, m>>

\* The accounts that hold tokens of m under the authority of owner.
TokenAccounts(owner, m) == {Ata(owner, m), OtherAccount(owner, m)}

\* Addresses derived by Raydium.
LpMint(pool) == <<"pool_lp_mint", pool>>
Observation(pool) == <<"observation", pool>>
PoolVault(pool, m) == <<"pool_vault", pool, m>>
AmmConfig(r) == <<"amm_config", r>>
PoolFee(r) == <<"create_pool_fee", r>>

\* Every derived address, or token account, an instruction can name.
DerivedOf(m) ==
  LET pool == PoolPda(m)
      owner == PoolCreatorPda(m)
  IN {CurvePda(m), CurveVault(m), owner, pool, LpMint(pool), Observation(pool)}
     \cup (UNION {TokenAccounts(w, m) : w \in Wallets})
     \cup {PoolVault(pool, x) : x \in {m, Wsol}}
     \cup {Ata(owner, x) : x \in {m, Wsol, LpMint(pool)}}

Derived ==
  {ConfigPda}
  \cup (UNION {DerivedOf(m) : m \in Mints})
  \cup (UNION {{AmmConfig(r), PoolFee(r)} : r \in Raydiums \cup {Nobody}})

\* A key belongs to one party, and no key is an address derived from seeds
\* (those are off the curve that keypairs are on) or holds tokens itself.  (A
\* fee recipient that trades too would make its trades wait for the fees it
\* receives.)
ASSUME KeysAssumption ==
  /\ Mints \cap Wallets = {} /\ Mints \cap Recipients = {}
  /\ Wallets \cap Recipients = {}
  /\ Wsol \notin Mints /\ Nobody \notin Mints
  /\ (Mints \cup Wallets \cup Recipients \cup {Nobody}) \cap Derived = {}

\* Mutation: the token is taken for Raydium's first one whatever its key.
Token0MintUnsorted(m) == m

\* Raydium's two mints, sorted by key.
Token0Mint(m) == IF m \in LowMints THEN m ELSE Wsol
Token1Mint(m) == IF m \in LowMints THEN Wsol ELSE m

\* The same order, as migrate works it out.
RaydiumMints(m) == IF m \in LowMints THEN <<m, Wsol>> ELSE <<Wsol, m>>

-----------------------------------------------------------------------------
(***************************************************************************)
(* The client.  An instruction i is [op, payer, mint, recipient, raydium,  *)
(* account]: recipient and raydium are read from the configuration when it *)
(* is built, or are the arguments of initialize and update_config; account *)
(* is the token account a caller sells from, Nobody to leave it to the     *)
(* client.  Each list is by account name.                                  *)
(***************************************************************************)

ClientCreateToken(i) ==
  [creator |-> i.payer, config |-> ConfigPda, mint |-> i.mint,
   bondingCurve |-> CurvePda(i.mint), curveVault |-> CurveVault(i.mint),
   feeRecipient |-> i.recipient]

ClientBuy(i) ==
  [buyer |-> i.payer, config |-> ConfigPda, bondingCurve |-> CurvePda(i.mint),
   mint |-> i.mint, curveVault |-> CurveVault(i.mint),
   buyerTokenAccount |-> Ata(i.payer, i.mint)]

ClientSell(i) ==
  [seller |-> i.payer, config |-> ConfigPda, bondingCurve |-> CurvePda(i.mint),
   mint |-> i.mint, curveVault |-> CurveVault(i.mint),
   sellerTokenAccount |->
     IF i.account = Nobody THEN Ata(i.payer, i.mint) ELSE i.account]

ClientClaim(i) ==
  [creator |-> i.payer, bondingCurve |-> CurvePda(i.mint)]

ClientCollect(i) ==
  [config |-> ConfigPda, bondingCurve |-> CurvePda(i.mint),
   feeRecipient |-> i.recipient]

PoolAccounts(m) ==
  LET pool == PoolPda(m)
  IN [poolState |-> pool, lpMint |-> LpMint(pool),
      token0Vault |-> PoolVault(pool, Token0Mint(m)),
      token1Vault |-> PoolVault(pool, Token1Mint(m)),
      observationState |-> Observation(pool)]

PoolCreatorAccounts(m) ==
  LET owner == PoolCreatorPda(m)
  IN [poolCreator |-> owner, poolCreatorToken |-> Ata(owner, m),
      poolCreatorWsol |-> Ata(owner, Wsol),
      poolCreatorLp |-> Ata(owner, LpMint(PoolPda(m)))]

ClientMigrate(i) ==
  LET pool == PoolAccounts(i.mint)
      owner == PoolCreatorAccounts(i.mint)
  IN [payer |-> i.payer, config |-> ConfigPda, bondingCurve |-> CurvePda(i.mint),
      mint |-> i.mint, curveVault |-> CurveVault(i.mint),
      poolCreator |-> owner.poolCreator,
      poolCreatorToken |-> owner.poolCreatorToken,
      poolCreatorWsol |-> owner.poolCreatorWsol,
      poolCreatorLp |-> owner.poolCreatorLp,
      feeRecipient |-> i.recipient, ammConfig |-> AmmConfig(i.raydium),
      poolState |-> pool.poolState, lpMint |-> pool.lpMint,
      token0Vault |-> pool.token0Vault, token1Vault |-> pool.token1Vault,
      createPoolFee |-> PoolFee(i.raydium),
      observationState |-> pool.observationState]

\* set_paused and transfer_admin.
AdminAccounts(i) == [admin |-> i.payer, config |-> ConfigPda]

ClientInitialize(i) ==
  [admin |-> i.payer, config |-> ConfigPda, feeRecipient |-> i.recipient]

\* Mutation: the recipient in force is listed instead of the one asked for.
ClientUpdateConfigStale(i) ==
  [admin |-> i.payer, config |-> ConfigPda, feeRecipient |-> config.recipient]

ClientUpdateConfig(i) ==
  [admin |-> i.payer, config |-> ConfigPda, feeRecipient |-> i.recipient]

ClientAcceptAdmin(i) == [newAdmin |-> i.payer, config |-> ConfigPda]

Listed(i) ==
  CASE i.op = "initialize" -> ClientInitialize(i)
    [] i.op = "createToken" -> ClientCreateToken(i)
    [] i.op = "buy" -> ClientBuy(i)
    [] i.op = "sell" -> ClientSell(i)
    [] i.op = "claimCreatorFees" -> ClientClaim(i)
    [] i.op = "collectProtocolFees" -> ClientCollect(i)
    [] i.op = "migrate" -> ClientMigrate(i)
    [] i.op = "updateConfig" -> ClientUpdateConfig(i)
    [] i.op = "acceptAdmin" -> ClientAcceptAdmin(i)
    [] OTHER -> AdminAccounts(i)

\* The mint keypair signs a launch beside the wallet.
Signatures(i) ==
  {i.payer} \cup (IF i.op = "createToken" THEN {i.mint} ELSE {})

-----------------------------------------------------------------------------
(***************************************************************************)
(* The IDL: names of the accounts that may be written and of those that    *)
(* must sign, and the addresses derived from the others of the list a.     *)
(***************************************************************************)

IdlInitialize(a) ==
  [writable |-> {"admin", "config"}, signers |-> {"admin"},
   derived |-> [config |-> ConfigPda]]

IdlCreateToken(a) ==
  [writable |-> {"creator", "mint", "bondingCurve", "curveVault", "feeRecipient"},
   signers |-> {"creator", "mint"},
   derived |-> [config |-> ConfigPda, bondingCurve |-> CurvePda(a.mint),
                curveVault |-> Ata(a.bondingCurve, a.mint)]]

\* Mutation: every trade may write the configuration.
IdlBuyWritesConfig(a) ==
  [writable |-> {"buyer", "config", "bondingCurve", "curveVault", "buyerTokenAccount"},
   signers |-> {"buyer"},
   derived |-> [config |-> ConfigPda, bondingCurve |-> CurvePda(a.mint),
                curveVault |-> Ata(a.bondingCurve, a.mint),
                buyerTokenAccount |-> Ata(a.buyer, a.mint)]]

IdlBuy(a) ==
  [writable |-> {"buyer", "bondingCurve", "curveVault", "buyerTokenAccount"},
   signers |-> {"buyer"},
   derived |-> [config |-> ConfigPda, bondingCurve |-> CurvePda(a.mint),
                curveVault |-> Ata(a.bondingCurve, a.mint),
                buyerTokenAccount |-> Ata(a.buyer, a.mint)]]

IdlSell(a) ==
  [writable |-> {"seller", "bondingCurve", "curveVault", "sellerTokenAccount"},
   signers |-> {"seller"},
   derived |-> [config |-> ConfigPda, bondingCurve |-> CurvePda(a.mint),
                curveVault |-> Ata(a.bondingCurve, a.mint)]]

\* The curve's address is derived from the mint it stores, here and below: the
\* handler's constraints have it.
IdlClaim(a) ==
  [writable |-> {"creator", "bondingCurve"}, signers |-> {"creator"},
   derived |-> <<>>]

IdlCollect(a) ==
  [writable |-> {"bondingCurve", "feeRecipient"}, signers |-> {},
   derived |-> [config |-> ConfigPda]]

IdlMigrate(a) ==
  [writable |-> {"payer", "bondingCurve", "mint", "curveVault", "poolCreator",
                 "poolCreatorToken", "poolCreatorWsol", "poolCreatorLp",
                 "feeRecipient", "poolState", "lpMint", "token0Vault",
                 "token1Vault", "createPoolFee", "observationState"},
   signers |-> {"payer"},
   derived |-> [config |-> ConfigPda, bondingCurve |-> CurvePda(a.mint),
                curveVault |-> Ata(a.bondingCurve, a.mint),
                poolCreator |-> PoolCreatorPda(a.mint),
                poolState |-> PoolPda(a.mint)]]

IdlSetPaused(a) ==
  [writable |-> {"config"}, signers |-> {"admin"},
   derived |-> [config |-> ConfigPda]]

IdlTransferAdmin(a) ==
  [writable |-> {"config"}, signers |-> {"admin"},
   derived |-> [config |-> ConfigPda]]

IdlUpdateConfig(a) ==
  [writable |-> {"config"}, signers |-> {"admin"},
   derived |-> [config |-> ConfigPda]]

IdlAcceptAdmin(a) ==
  [writable |-> {"config"}, signers |-> {"newAdmin"},
   derived |-> [config |-> ConfigPda]]

Idl(op, a) ==
  CASE op = "initialize" -> IdlInitialize(a)
    [] op = "createToken" -> IdlCreateToken(a)
    [] op = "buy" -> IdlBuy(a)
    [] op = "sell" -> IdlSell(a)
    [] op = "claimCreatorFees" -> IdlClaim(a)
    [] op = "collectProtocolFees" -> IdlCollect(a)
    [] op = "migrate" -> IdlMigrate(a)
    [] op = "setPaused" -> IdlSetPaused(a)
    [] op = "transferAdmin" -> IdlTransferAdmin(a)
    [] op = "updateConfig" -> IdlUpdateConfig(a)
    [] op = "acceptAdmin" -> IdlAcceptAdmin(a)

-----------------------------------------------------------------------------
(***************************************************************************)
(* The handlers: the accounts each changes, and what it checks besides.    *)
(***************************************************************************)

Changed(op) ==
  CASE op = "createToken" ->
         {"creator", "mint", "bondingCurve", "curveVault", "feeRecipient"}
    [] op = "buy" -> {"buyer", "bondingCurve", "curveVault", "buyerTokenAccount"}
    [] op = "sell" -> {"seller", "bondingCurve", "curveVault", "sellerTokenAccount"}
    [] op = "claimCreatorFees" -> {"creator", "bondingCurve"}
    [] op = "collectProtocolFees" -> {"bondingCurve", "feeRecipient"}
    [] op = "migrate" ->
         {"payer", "bondingCurve", "mint", "curveVault", "poolCreator",
          "poolCreatorToken", "poolCreatorWsol", "poolCreatorLp",
          "feeRecipient", "poolState", "lpMint", "token0Vault", "token1Vault",
          "createPoolFee", "observationState"}
    [] op = "initialize" -> {"admin", "config"}
    [] OTHER -> {"config"}

\* The constraints of the accounts structs that no derived address of the IDL
\* says: init, address, has_one, the mint and authority of a token account, and
\* the seeds that depend on what an account holds.  Accounts that an instruction
\* does not create are taken to exist, Launchpad says when they do.

Launched == {m \in Mints : creator[m] # Nobody}

AdminAccepts(i, a) ==
  CASE i.op = "initialize" ->
         /\ config.admin = Nobody
         /\ a.admin = Deployer
         /\ a.feeRecipient = i.recipient
    [] i.op = "updateConfig" ->
         a.admin = config.admin /\ a.feeRecipient = i.recipient
    [] i.op = "acceptAdmin" ->
         config.pending # Nobody /\ a.newAdmin = config.pending
    [] OTHER -> a.admin = config.admin

LaunchAccepts(a) ==
  a.mint \notin Launched /\ a.feeRecipient = config.recipient

SellAccepts(a) == a.sellerTokenAccount \in TokenAccounts(a.seller, a.mint)

\* A curve's address is derived from the mint it stores.
FeesAccept(op, a) ==
  \E m \in Launched :
    /\ a.bondingCurve = CurvePda(m)
    /\ op = "claimCreatorFees" => a.creator = creator[m]
    /\ op = "collectProtocolFees" => a.feeRecipient = config.recipient

MigrateAccepts(a) ==
  /\ a.feeRecipient = config.recipient
  /\ a.ammConfig = AmmConfig(config.raydium)
  /\ a.createPoolFee = PoolFee(config.raydium)
  /\ a.poolCreatorToken = Ata(a.poolCreator, a.mint)
  /\ a.poolCreatorWsol = Ata(a.poolCreator, Wsol)

\* A buy has only accounts that the IDL derives.
Constrained(i, a) ==
  CASE i.op = "createToken" -> LaunchAccepts(a)
    [] i.op = "buy" -> TRUE
    [] i.op = "sell" -> SellAccepts(a)
    [] i.op \in {"claimCreatorFees", "collectProtocolFees"} -> FeesAccept(i.op, a)
    [] i.op = "migrate" -> MigrateAccepts(a)
    [] OTHER -> AdminAccepts(i, a)

\* What Raydium checks of the accounts migrate hands it.
RaydiumTakes(op, a) ==
  op = "migrate" =>
    LET mints == RaydiumMints(a.mint)
    IN /\ a.lpMint = LpMint(a.poolState)
       /\ a.observationState = Observation(a.poolState)
       /\ a.token0Vault = PoolVault(a.poolState, mints[1])
       /\ a.token1Vault = PoolVault(a.poolState, mints[2])
       /\ a.poolCreatorLp = Ata(a.poolCreator, a.lpMint)

\* The instruction runs with the accounts it was given.
Runs(i) ==
  LET a == Listed(i)
      idl == Idl(i.op, a)
  IN /\ \A n \in DOMAIN idl.derived : a[n] = idl.derived[n]
     /\ \A n \in idl.signers : a[n] \in Signatures(i)
     /\ Constrained(i, a)
     /\ RaydiumTakes(i.op, a)
     /\ Changed(i.op) \subseteq idl.writable

-----------------------------------------------------------------------------
(***************************************************************************)
(* The runtime.                                                            *)
(***************************************************************************)

Writes(i) == LET a == Listed(i) IN {a[n] : n \in Idl(i.op, a).writable} \cup {i.payer}

Names(i) == LET a == Listed(i) IN {a[n] : n \in DOMAIN a} \cup {i.payer}

\* Two transactions, as sets of instructions, cannot run at once.
Exclude(s, t) ==
  \E i \in s, j \in t :
    Writes(i) \cap Names(j) # {} \/ Names(i) \cap Writes(j) # {}

Instruction(op, payer, m) ==
  [op |-> op, payer |-> payer, mint |-> m, recipient |-> config.recipient,
   raydium |-> config.raydium, account |-> Nobody]

\* The trades of m a wallet can have the client build: it may sell from any of
\* its token accounts.
Trades(w, m) ==
  {Instruction("buy", w, m), Instruction("sell", w, m),
   [Instruction("sell", w, m) EXCEPT !.account = OtherAccount(w, m)]}

\* A launch in some slot uses the mint: keypairs are not generated twice.
Taken(m) == \E s \in Slots : \E i \in tx[s].list : i.op = "createToken" /\ i.mint = m

\* The same instruction with what an administrator asks for.
Asking(op, w) ==
  {[op |-> op, payer |-> w, mint |-> Nobody, recipient |-> f, raydium |-> r,
    account |-> Nobody] :
     f \in Recipients, r \in Raydiums}

AdminBuildable(w) ==
     {{i} : i \in IF config.admin = Nobody /\ w = Deployer
                  THEN Asking("initialize", w) ELSE {}}
  \cup {{i} : i \in IF w = config.admin THEN Asking("updateConfig", w) ELSE {}}
  \cup {{Instruction(op, w, Nobody)} :
          op \in IF w = config.admin THEN {"setPaused", "transferAdmin"} ELSE {}}
  \cup {{Instruction(op, w, Nobody)} :
          op \in IF w = config.pending THEN {"acceptAdmin"} ELSE {}}

\* What a wallet may have the client build, given what it can know now.
Buildable(w) ==
     AdminBuildable(w)
  \cup (UNION {{{i} : i \in Trades(w, m)} : m \in Launched})
  \cup {{Instruction(op, w, m)} : op \in {"collectProtocolFees", "migrate"},
                                m \in Launched}
  \cup {{Instruction("claimCreatorFees", w, m)} : m \in {n \in Launched : creator[n] = w}}
  \cup (UNION {{{Instruction("createToken", w, m)},
               {Instruction("createToken", w, m), Instruction("buy", w, m)}} :
                m \in {n \in Mints \ Launched : config.admin # Nobody /\ ~Taken(n)}})

Idle == [phase |-> "idle", list |-> {}, stale |-> FALSE]

Build(s, w) ==
  /\ tx[s] = Idle
  /\ \E list \in Buildable(w) :
       tx' = [tx EXCEPT ![s] = [phase |-> "sent", list |-> list, stale |-> FALSE]]
  /\ UNCHANGED <<config, creator>>

\* The runtime takes the locks of a transaction.
Start(s) ==
  /\ tx[s].phase = "sent"
  /\ \A other \in Slots :
       tx[other].phase = "running" => ~Exclude(tx[s].list, tx[other].list)
  /\ tx' = [tx EXCEPT ![s].phase = "running"]
  /\ UNCHANGED <<config, creator>>

\* The Config account after an instruction; transfer_admin names any wallet.
Configured(i) ==
  CASE i.op = "initialize" ->
         {[admin |-> i.payer, pending |-> Nobody, recipient |-> i.recipient,
           raydium |-> i.raydium]}
    [] i.op = "updateConfig" ->
         {[config EXCEPT !.recipient = i.recipient, !.raydium = i.raydium]}
    [] i.op = "transferAdmin" -> {[config EXCEPT !.pending = w] : w \in Wallets}
    [] i.op = "acceptAdmin" ->
         {[config EXCEPT !.admin = config.pending, !.pending = Nobody]}
    [] OTHER -> {config}

\* Every instruction runs, and what was read before a change is stale.
Finish(s) ==
  /\ tx[s].phase = "running"
  /\ \A i \in tx[s].list : Runs(i)
  /\ \E i \in tx[s].list : config' \in Configured(i)
  /\ creator' = [m \in Mints |->
                   IF \E i \in tx[s].list : i.op = "createToken" /\ i.mint = m
                   THEN (CHOOSE i \in tx[s].list : i.mint = m).payer
                   ELSE creator[m]]
  /\ tx' = [t \in Slots |->
              IF t = s THEN Idle
              ELSE [tx[t] EXCEPT !.stale = tx[t] # Idle /\ (@ \/ config' # config)]]

\* An instruction is refused, and the transaction with it.
Refuse(s) ==
  /\ tx[s].phase = "running"
  /\ \E i \in tx[s].list : ~Runs(i)
  /\ tx' = [tx EXCEPT ![s].phase = "refused"]
  /\ UNCHANGED <<config, creator>>

Forget(s) ==
  /\ tx[s].phase = "refused"
  /\ tx' = [tx EXCEPT ![s] = Idle]
  /\ UNCHANGED <<config, creator>>

-----------------------------------------------------------------------------

Init ==
  /\ config = [admin |-> Nobody, pending |-> Nobody, recipient |-> Nobody,
               raydium |-> Nobody]
  /\ creator = [m \in Mints |-> Nobody]
  /\ tx = [s \in Slots |-> Idle]

Next ==
  \E s \in Slots :
    \/ \E w \in Wallets : Build(s, w)
    \/ Start(s) \/ Finish(s) \/ Refuse(s) \/ Forget(s)

Spec == Init /\ [][Next]_vars

-----------------------------------------------------------------------------
(***************************************************************************)
(* Properties.                                                             *)
(***************************************************************************)

\* Client, IDL and handlers agree on every account of every instruction, the
\* first buy of a launch and both orders of Raydium's mints included: the only
\* transactions refused for their accounts are those the configuration changed
\* under, between the client's read of it and the execution (client.ts:213-493
\* against idl/launchpad.ts and the accounts structs).
RefusedOnlyIfStale == \A s \in Slots : tx[s].phase = "refused" => tx[s].stale

AdminOps ==
  {"initialize", "updateConfig", "setPaused", "transferAdmin", "acceptAdmin"}

\* "SOL and fees stay in the curve's account, so a trade locks for writing only
\* accounts of that token" (README.md:84, state.rs:152-154): a trade waits for
\* a transaction on another token only if both have the same wallet, or if
\* that one changes the configuration itself.
OnlyOwnTokenWaits ==
  \A s \in Slots : tx[s].phase = "running" =>
    \A w \in Wallets, m \in Launched : \A trade \in Trades(w, m) :
      /\ Exclude({trade}, tx[s].list)
      /\ \A i \in tx[s].list : i.mint # m /\ i.payer # w
      => \E i \in tx[s].list : i.op \in AdminOps

=============================================================================
