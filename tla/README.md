# A formal model of the Solana launchpad

TLA+ modules, TLC configurations and TLAPS proofs kept beside the launchpad:
the on-chain program (`programs/launchpad`), the TypeScript SDK (`sdk`) with the
command line (`scripts/cli.ts`), and the backend (`backend`). Paths below are
relative to `src/`. `PROJECT.json` lists the components, the runs, the mutations
of the model every property must refuse, the source lines of every definition,
the hazards and the theorems.

    tlc -workers 2 -config MCLaunchpadTrading.cfg MCLaunchpad.tla
    tlapm LaunchpadProofs.tla

## 1. The system

Anyone launches a token with one transaction. The token is sold on a bonding
curve, a constant product over virtual reserves; when the last token on sale is
bought the curve is *complete*, and anyone, in practice the keeper of the
backend, *graduates* it: the SOL it raised and the tokens reserved for it open
a Raydium pool at the curve's final price. A complete curve that cannot
graduate for seven days is *reopened* by the first sell.

| component | state | operations | talks to |
|---|---|---|---|
| configuration (`instructions/admin.rs`, `state.rs`) | admin, pending admin, pauses, the terms of future launches, fees, fee recipient, Raydium accounts | initialize, update, pause, transfer and accept admin | read by every other instruction |
| token creation (`create_token.rs`) | a new curve, a copy of the terms, the supply in its vault | create_token | configuration |
| trading (`trade.rs`, `math.rs`) | virtual and real reserves, unclaimed fees, status, completion time | buy, sell | configuration (fees, pause), clock |
| fees (`fees.rs`) | unclaimed fees of a curve | claim_creator_fees, collect_protocol_fees | configuration (recipient) |
| graduation (`migrate.rs`, `raydium.rs`) | status, lamports and vault of the curve, the pool | migrate | configuration, Raydium's AmmConfig, token programs |
| SDK client, command line (`sdk/src/client.ts`, `math.ts`, `scripts/cli.ts`) | what a command has read, its quote, its signed transaction and the height it waits until | read, quote, build, sign, send, confirm or give up | accounts of the program through an RPC node |
| addresses and IDL (`sdk/src/pda.ts`, `idl/launchpad.ts`) | none | derive, list the accounts of an instruction | the handlers' account structs, the runtime's locks, Raydium |
| indexer (`backend/src/indexer`) | cursor, rows of tokens, trades and graduations (`db/`) | sync by pages and batches, apply events, publish | RPC node, SQLite, event bus |
| live feed (`indexer/bus.ts`, `api/app.ts`) | one queue per client | publish, write | indexer, HTTP clients |
| keeper (`keeper.ts`) | cool-down of each mint, in memory | tick: migrate complete curves, sweep fees | RPC node, program |
| uploads (`POST /api/metadata` of `api/app.ts`, `api/rate-limit.ts`, `metadata/storage.ts`) | uploads per address, files by content | limit, store image and document, answer with a URI | file system |
| metadata worker (`metadata/fetcher.ts`) | attempts and status of a token's metadata | tick: fetch ten at a time | database, files, the web |
| other REST routes, wiring (`api/`, `index.ts`) | cached configuration | requests | database, RPC node |

What is hard here:

* **Rounding and width.** Every amount is a `u64` computed over `u128` with a
  chosen rounding; one rounding the other way breaks the product, the solvency
  or the price of the pool, by an amount no example test notices.
* **Interleaving on chain.** Transactions of traders, the admin, crankers and
  Raydium interleave in any order. A curve keeps the terms of its launch but
  pays the fees of the moment and graduates into the Raydium tier of the moment.
* **Long legal histories.** Completion, timeout, reopening, completion again,
  with lamports and tokens sent by strangers in between.
* **Stale reads.** The client quotes, signs and sends on what it read some
  time ago, the keeper works through a list that ages, and a transaction that
  somebody has given up on may still land.
* **A lagging copy.** The indexer rebuilds the state of the program from
  transactions that are listed before they can be fetched, with a process, a
  machine and requests that fail at any point.
* **Three lists of accounts.** Client, IDL and handlers each say what an
  instruction touches, and Raydium sorts its mints.
* **Files that are written over.** Uploads of the same bytes share a name.

What makes each component correct is in section 3, next to the run that checks it.

## 2. The modules

| module | models | role |
|---|---|---|
| `CurveMath` | `math.rs` | pure operators, no state |
| `Launchpad` | the on-chain program and, external, Raydium's fee tiers and the clock | one action per instruction |
| `FairLaunch` | | abstract: what a launch promises the public |
| `LaunchpadFair` | | the refinement mapping from `Launchpad` to `FairLaunch` |
| `SdkMath` | `sdk/src/math.ts` | pure operators |
| `Client` | `sdk/src/client.ts`, `scripts/cli.ts` | sessions, composed with `Launchpad` and `SdkMath` |
| `AccountLocks` | `pda.ts`, `client.ts`, `idl/launchpad.ts`, the account structs of the handlers, the runtime's locks | |
| `ChainEvents` | the events of the instructions, in transactions | the chain the backend reads |
| `Indexer` | `indexer.ts`, the writes of `db.ts`, `bus.ts` | composed with `ChainEvents`; ends with its refinement mapping to `Mirror` |
| `Mirror` | | abstract: what a reader of the database may rely on |
| `Keeper` | `keeper.ts`, its requests and the part of the program it depends on | |
| `LiveStream` | the stream handler of `api/app.ts`, `bus.ts` | one client |
| `MetadataWorker` | `metadata/fetcher.ts`, its queries in `db.ts`, `safe-fetch.ts` as an answer within a deadline | |
| `Uploads` | the upload handler of `api/app.ts`, `rate-limit.ts`, `storage.ts` | composed with `MetadataWorker` |
| `MCLaunchpad`, `MCSdkMath`, `MCClient` | | instances for TLC |
| `CurveMathProofs`, `SdkMathProofs`, `LaunchpadProofs`, `ClientProofs`, `AccountLocksProofs`, `IndexerProofs`, `KeeperProofs` | | theorems, section 4 |
| `ApiProofs` | | theorems about the two handlers of `api/app.ts`, `Uploads` with its worker and `LiveStream` |

### Launchpad

A Solana transaction is atomic and transactions that write one account are
serialised, so an instruction is one step and an instruction that fails is no
step. The whole handler is in its action: `Sell` reopens a stuck curve, moves
the reserves, splits the fee and pays the seller in one step; `Migrate` takes
the fees, opens the pool, burns the surplus and empties the vault.
`Init` is `initialize`. State and code correspond as follows.

| variable | in the program |
|---|---|
| `config` | the `Config` account (`admin`, `pending`, pauses, `params`) |
| `curve[m]` | the `BondingCurve` account; `vs`, `vt`, `rs`, `rt` are the virtual and real reserves of SOL and tokens |
| `lamports[m]` | its lamports above the rent-exempt minimum |
| `vault[m]` | the token account of the curve |
| `circulating[m]` | all tokens held by users, who may trade them among themselves |
| `stray[m]` | tokens sent to the pool creator's account ahead of graduation |
| `pool[m]`, `burned[m]` | what the Raydium pool opened with, what was burned |
| `amm[a]` | an AmmConfig of Raydium: open or closed, and what creating a pool costs (rents and fee together) |
| `launch[m]`, `gifts[m]` | history: the terms of the launch, what was given to the curve |

Left out, because no property can tell: the wallets of users and of the fee
recipient, the creation fee, metadata and authorities of the mint, LP tokens,
rent, logging. `u128` products never overflow (two `u64` factors), only the
conversions to `u64` are checked (`Fits`). A token account recreated for a
curve after its graduation has no effect on anything here and is not modelled.

### Client

`Client` extends `Launchpad` with people at the command line. A command is a
process of its own, so a session is where that process is: `reading` (one
account per step), `signed` (quoted, with a blockhash), `sent`, `confirming`,
and one of the ends `done`, `refused`, `expired`, `thrown`. Every `await` is a
step and the chain moves in between. `flight` holds the transactions that may
still be executed: their arguments and the last height their blockhash is good
for. The height the client waits until is fetched separately, after sending
(`cli.ts:93-100`), and that is the point of `ExpiryIsFinal`. `Execute` is the
action of `Launchpad` for the instruction, `CreateAndBuy` for the two
instructions of a launch with a first buy. Sending simulates first and throws
on a refusal. What the program accepts is written out in `Launchpad`
(`BuyAccepted`, `SellAccepted`, `CreateAccepted`); they are the guards of its
actions, and `Succeeds` and `Effect`, what a simulation answers, are stated
with the same definitions, so that they can be reasoned about. `World` is everybody else: any step of `Launchpad`,
with a bound on other people's trades.

A curve and a configuration are read separately and possibly before and after
a change, the local clock may be ahead of the chain's (`Skews`), and two of the
fields are histories: `moved`, when what the command depends on changed under
it, and `unsure`, when it went on although trading was paused or its clock was
ahead. `balance` is the part of `circulating` a session's wallet holds; wallets
of the sessions move their tokens only through the command line.

### AccountLocks

An address is the tuple of its seeds, so two derivations give the same address
exactly when their seeds are the same; that keys do not collide is assumed
(`KeysAssumption`).
For each instruction there are three definitions, in the words of the three
parts: `Client...` lists the accounts by name, `Idl...` says which are writable,
which sign and how they are derived, and `Constrained` and `Changed` are the
handler's constraints and writes. `Constrained` has what the account structs
demand beyond the IDL's derived addresses, one definition per struct
(`AdminAccepts`, `LaunchAccepts`, `SellAccepts`, `FeesAccept`,
`MigrateAccepts`): the fee recipient an update is given, the mint and the owner
of the account a seller sells from, the creator, the seeds that depend on what
a curve stores. A caller may name the token account to sell from
(`client.ts:320`), so `TokenAccounts` of a wallet are two. Whether an account
exists, and with which balance, is in `Launchpad`. `Start` takes the locks as the runtime does.
`stale` is a history: the configuration changed after a transaction was built.
Wallets are taken to be no fee recipients: two trades of one wallet wait for
each other, and so would one with a collection paid to it.

### Indexer and ChainEvents

A signature is the position of a transaction in the chain. Node runs one
callback at a time, so the steps are what lies between two awaits (a page, a
batch) and, inside a batch, each database transaction and the publication that
follows it: the process can die between those. `db` is the database as other
readers see it and `disk` what a loss of power leaves: `db.ts` sets
`synchronous = NORMAL` with a write-ahead log, which keeps transactions whole
but may lose the last ones. Log notifications only cut the wait short, so
`Wake` stands for the timer and for them. A graceful `stop` lets the sync end
first and is a crash while waiting. Of the reserves, only the tokens left are
kept: `Launchpad` shows that they determine the rest.

`Mirror` is the promise to the API, which reads the rows between any two steps
of the loop: what it finds is every token as it was after one and the same
transaction, transactions are followed one by one and none is skipped, and only
a loss of power goes back. `Indexer` implements it with the transactions after
`start` as the moments to follow; a token launched before `start` is not
followed and counts as never launched.

A transaction of `ChainEvents` is one or two instructions on a token (the
launch with the creator's first buy; a buy and a sell in one transaction), a
failed transaction, or one without token events.

### Keeper

One variable for where the tick is, which is also the busy flag: while it is
not `idle` the timer does nothing. Each `await` is a step, and between two of
them the chain moves: curves complete, reopen, are cranked by others, the
configuration changes. A transaction carries the configuration it was built
with and the program refuses it when that is no longer the current one. A
transaction whose confirmation failed stays in flight and may land at any later
time. `failures` counts down instead of holding a date, so no bound on time is
needed. The fee sweep is taken as switched on (`collectFeesMinLamports > 0`).

### LiveStream

`pc` is the `await` the handler is in: the write of `ready` (`greeting`), of an
event (`writing`) or of a ping, or the promise of the sleep, unresolved
(`asleep`) or resolved (`roused`). `wake` exists in the last two, and calling
it again does nothing. `Publish` is one call of the listener. The indexer
publishes what a transaction committed without an `await` in between; the model
lets other steps in there, which only adds behaviours. `feed` and `sent` are
histories. The inner loop does not look at `closed`, so a client that leaves
during a write costs one more sleep; `Drain` keeps that.

### MetadataWorker and Uploads

`requests` counts the open fetches of each token, so that overlapping ones
would show. The order of the query is kept, ties of block time included.
`Crash` stands for a shutdown, which waits for nothing, and for an exception
nobody catches; `safe-fetch.ts:108` can throw one when a redirect is not a URL.
Lost commits after a power loss are in `Indexer` and left out here.

`Uploads` puts the upload handler in front of it. Files are named by their
content, so it follows the uploads of one document and its image: a request is
`parsing`, then in the write of the image, then in that of the document, and
answers. `writeFile` empties a file before it fills it, so a file is `absent`,
`partial`, `whole`, or `spoiled`: it had been stored, and another upload of the
same bytes opened it again and has not filled it. A file that was never stored
stays `partial` however often it is opened. Two requests may write one file at
once, and where one opens a file the other has filled it may stay spoiled until a
write ends alone. A request that stored its document may still be answered with
an error, when the URI is longer than 200 bytes (`app.ts:255`). The limiter keeps
one entry per address; `hits` is that entry for the address that uploads,
`recent` the history it is measured against, the uploads of the last window by
their age, and `Prune` what other addresses do to it. Tokens in `Local` are
launched with the document once its URI is out; the worker's resolver reads it
from the disk and succeeds if it is whole. Other documents are good or not at
each attempt, whatever they were before. `Stop` is the end of the process for
both.

## 3. The runs

Every property of a passing run has a mutation of the model, a plausible bug in
the code it maps, that makes TLC refute it.

| run | what it asks |
|---|---|
| `trading` | One token, up to four trades, with fees, gifts, pauses, timeout and a Raydium that opens and closes. The books balance to the lamport (`Solvency`) and to the token (`SupplyConserved`). A curve is in order (`CurveInOrder`): the vault covers what is for sale, virtual and real reserves move together from the terms of the launch, the product is never below the launch's, and it waits for graduation exactly when it is sold out. Holders can be paid back whatever they sell (`HoldersCanBePaid`), no step of a live curve lowers the product (`KNeverDecreases`), the pool opens at the curve's price (`PoolOpensAtCurvePrice`), the least supply `validate` accepts is enough for it although every trade rounds, when a graduation costs a lamport per trade (`VaultCoversPool`), fees respect the hard cap (`FeeCapped`). |
| `config` | Two tokens while the admin changes fees, terms and tier between their steps; one set of terms is refused by `validate`, one reaches the width of the integers in two trades. Nothing wraps (`TypeOK`), a completed curve has raised enough (`GraduationFunded`), and no token is affected by another or by a later configuration: `Launchpad` implements `FairLaunch` (`ImplementsFairLaunch`). A reopening does not occur here: it is in `trading` and in the theorem `LaunchIsFair`. |
| `sdk_math` | Over all small inputs: the closed forms are the optima they stand for (`RoundingIsOptimal`), a round trip never gains (`RoundTripLoses`), the inverse quote is the least budget for which the program delivers at least the tokens asked for, and the least that buys out the curve when it has fewer left (`BudgetIsLeast`), and the SDK quotes what the program does or throws when it refuses (`SdkMirrorsProgram`). |
| `client` | One person whose reads, quote, blockhash, sending and waiting interleave with everybody else. Nobody gets less than agreed (`NoLessThanAgreed`); if nothing moved, a transaction the client builds is executed exactly as quoted (`QuoteHoldsUnlessMoved`); one reported as expired never lands (`ExpiryIsFinal`); an administrator's command changes only what it names, unless somebody else's change came in between (`UnspecifiedKept`). |
| `account_locks` | Every instruction the client can build, two at a time. The only ones refused for their accounts are those the configuration changed under (`RefusedOnlyIfStale`): a wrong account, signer or order of mints in any of the three lists would be refused. A trade waits for no other token (`OnlyOwnTokenWaits`). |
| `indexer` | Through late transactions, failed requests, crashes and a loss of power the rows are the chain at the cursor (`RowsFollowChain`), every trade is there once and in order (`TradesInChainOrder`), clients are told once, in order and only what is committed (`FeedFollowsRows`), the cursor moves one transaction at a time (`CursorAdvances`) and reaches the end (`CatchesUp`). To a reader the rows are a mirror of the chain, never a mixture of two of its states: `Indexer` implements `Mirror` (`MirrorsChain`). The run has one mint; that the rows of several are of the same moment is the theorem `RowsMirrorChain`. |
| `keeper` | Every complete curve leaves that state unless its migration cannot succeed (`EveryCurveGraduates`), fees are swept (`FeesSwept`), a reported migration happened (`TruthfulReport`), a failure waits out its cool-down (`CoolDownRespected`). |
| `live_stream` | The client gets the events of its mint in order and without a gap from the moment it subscribes (`NothingSkipped`), none waits for the next ping (`AwakeForWork`), and the handler ends when the client has gone, even in the middle of a write (`AbortEnds`). |
| `metadata` | Uploads of one document at once, a token launched with it and another one. The limiter lets through less than twice its limit in any window and refuses nobody early (`UploadsBounded`), a URI that was returned names files that are there, except for what `reupload` shows (`UrisResolve`), what the worker found or gave up stays so (`SettlesOnce`) and every token gets there (`EveryTokenSettles`). |
| `steep`, `progress`, `reupload` | Three statements of the repository that the code does not keep; see section 6. |

### Bounds

| bound | value | why it is enough |
|---|---|---|
| `BPS` | 10 | a basis point is a tenth: fees of 20% to 50% round at every trade, which 10000 would not show on small numbers |
| `MaxU64` | 24 in `config`, 200 or 1000 elsewhere | 24 is within the reach of two trades of the third terms; the others are out of reach |
| reserves | up to 20 virtual SOL and 24 tokens | completion takes one to three trades, and every rounding case occurs; the terms of `trading` meet the assumption of `PoolIsCovered` with equality |
| `MaxTrades` | 4 in `trading`, 3 with two tokens and in `client` | buy, complete, reopen by a sell, complete again |
| `MaxTime`, `MigrationTimeout` | 3 and 2 in `trading` | the timeout passes once, and may or may not pass again |
| `MaxGift` | 1 | gifts only add up |
| `Sessions`, `MaxCommands`, `MaxOthers` (client) | 1, 2, 1 | two commands of one person (a purchase, then the sale of it) with a trade of somebody else at any point; sessions interact only through the chain, where another one is `World` |
| `Window`, `MaxHeight`, `Skews` (client) | 1, 2, {0, 1} | a blockhash is good, the last one, and too old; a clock is right or one unit ahead, enough to see a timeout early |
| `MCCommands`, `MCTerms` (client) | six commands, three sets of terms | every kind of command; terms that differ in everything or in their fees only, closed under the update of the fees |
| room for trades (client) | budgets of 8, four trades, `MaxU64` 200 | TLC checks here what `QuotesHold` assumes of the widths (`MCRoom`) |
| `MaxTime`, `MigrationTimeout` (client, config) | 1, 1 | a curve completes at time 1 at the earliest, so the timeout does not pass after it. A client whose clock is ahead sees it when it has not, and its sale is refused. A sale that does reopen a curve is in `trading`, and for the client only in the theorem `QuotesHold` |
| accounts (account_locks) | two slots, a mint on either side of wrapped SOL, two wallets with two token accounts per mint, two recipients, one tier | locks are a relation between two transactions; Raydium's order has two cases |
| `MaxTxs` | 3, with `PAGE` and `FETCH_CONCURRENCY` 2 | two pages, two batches; a launch, a completion, a reopening and a graduation fit in three transactions of two instructions |
| `MaxFaults` (indexer) | 2 | a fault while recovering from another |
| `Starts` | 0, 1 | with and without `startSignature`; a token may be launched before it |
| `CoolDown` | 2 | a mint can be retried too early in two ways |
| `MaxUpdates`, `MaxFaults` (keeper) | 1 and 1 | a configuration goes stale in the middle of a tick; a transaction is lost, lands late, or the process restarts |
| `MaxEvents` | 5 | events arrive during a write, a ping and a sleep, one or several at once |
| `Slots`, `PerWindow`, `WindowLen` | 2, 2 and 2 | two writers of one file; a window that is full, half full and over |
| `Limit`, `MaxAttempts`, `MaxCrashes` | 1, 2 and 1 | two tokens do not fit in a tick, a failed one is retried, a retry can be cut short |

Counters that only serve as bounds are in the guards of the actions that
consume them: trades, the clock, gifts, faults, updates, commands, blocks, the
length of the chain. Deadlock is checked in every run but `indexer`, `keeper`
and `live_stream`, where the bounds on faults, updates and events, or the end
of the connection, end a behaviour (`CHECK_DEADLOCK FALSE`).

### Fairness

`Launchpad`, `Client` and `AccountLocks` have none: nobody is obliged to trade,
migrate or finish a command, and their properties are safety. Nothing is
assumed of uploads, of the limiter and its clock either.

`Indexer`: the loop's steps (`Sync`), its timer (`Wake`) and the restart of the
process (`Start`) happen if they can. The timer is `setTimeout`, requests are
answered or throw, and a service that is never restarted promises nothing.
That the node stops failing and in the end has each transaction it lists is in
the bound on faults. Nothing is assumed of notifications or of checkpoints.

`Keeper`: the steps of the tick and its timer, the clock, and the execution of
the transaction it waits for, unless that expires, which is a fault. Other
crankers, traders and the admin owe nothing.

`LiveStream`: timers fire and a write ends, as it does when the client reads or
its connection is closed; a client that does neither stalls its own handler.
Nobody has to publish or leave.

`Uploads`: the worker's interval goes on (`Worker`) and each read or fetch of a
document ends (`Resolve`), since a deadline destroys the socket of each of its
at most four requests. Launches owe nothing; they are finitely many, and under
an endless stream of them the query, newest first, promises nothing to older
tokens.

## 4. Proofs

All for every value of the constants that satisfies the assumptions stated in
the modules: `BPS` and `MaxU64` positive, sets of their types, sizes and limits
positive, caps in their ranges.

**Arithmetic.** `CurveMathProofs` proves what callers rely on: a quoted buy
never costs more than its budget (`BuyWithinBudget`, so the defensive check of
`math.rs:121` cannot fail), delivers something and not more than is left
(`QuoteBuySound`); a quoted sell is covered (`QuoteSellSound`); neither lowers
the product. The lemmas bound a floor or a ceiling division by its exact
quotient and derive everything else from that.

**The program.** `LaunchpadProofs` proves `Soundness`: `Spec => []IInv`, where
`IInv` is `TypeOK` and, for every mint, `SoundMint`. The properties of the runs
are not inductive by themselves: that holders can be paid needs the product to
hold, the product needs the virtual reserves to track the real ones from the
terms of the launch, and that a completed curve is funded needs those terms to
be valid. `SoundMint` puts these together by status: the lamport equation
always; for a live curve the reserves, the product, the status and the token
books; for a migrated one its pool and its books. Each action has a lemma for
the mint it touches, stated over the values before and after, and the others
keep theirs. From it: `TypeCorrect`, `Solvent`, `SupplyIsConserved`,
`ReservesSound` (`CurveInOrder`), `HoldersArePayable`, `CompletedIsFunded`,
`PoolPrice`, `ProductNeverDecreases`.

`HoldersArePayable` is the argument that matters most. The price of `t` tokens
is at most `vs * t / (vt + t)`; with all of the circulating tokens sold back
`vt + t` is at most the launch's `vt`, so by the product `vs - price` is at
least the launch's `vs`, and the real reserves are exactly the difference.

`PoolIsCovered` is `VaultCoversPool`. `validate` reserves for the pool what the
final price asks for if nothing is rounded, and `math.rs:192-195` concedes that
the dust of the trades could raise that price, relying on the costs of a
graduation to outweigh it. The theorem says when they do (`DustIsSmall`): if the
terms leave more virtual tokens at completion than the launch has virtual
lamports plus one for each trade, and a graduation costs at least a lamport per
trade. A launch of this program has about 3·10^10 lamports of virtual SOL
against 2.8·10^14 token units, and creating a pool costs more than 10^8
lamports. Its inductive invariant bounds the product: each trade adds at most
the launch's virtual tokens to it, so that `n` trades move the price no further
than `n` lamports more would have.

`FeesAreCapped`: a trade rounds its fee in one of two ways, a share rounded up
or what is left of a budget; each is within one lamport and one part of the cap
of the exact share, and the configuration in force has passed `validate`, so the
share is at most the cap.

`LaunchIsFair`: the initial states map to initial states of `FairLaunch`, and
each instruction to a step of the one token it is about or, for everything
administrative, to a stutter.

**The SDK.** `SdkMathProofs` states the four properties of `sdk_math` for every
amount. Its first step, `AlwaysQuotable`, is that the inputs are reserves and
fees the program can have, so that no division is by zero. From the bounds of
`CurveMathProofs` follow that the closed forms are the optima they stand for
(`RoundingAlwaysOptimal`), that buying and selling back loses
(`RoundTripAlwaysLoses`), that the budget of the
inverse quote buys at least the tokens asked for and one lamport less does not,
while the curve has that many, and otherwise just buys it out
(`BudgetAlwaysLeast`), and that
the SDK agrees with the program also on what it refuses (`SdkAlwaysMirrors`).

**The client.** `ClientProofs` has four parts.

*Waiting.* `ExpiredStaysOut`: whoever sent a transaction that may still be
executed is waiting for it, and waits for a height no lower than the last one
its blockhash is good for. It depends on neither quotes nor instructions.

*Agreements.* `AgreementsHold` is `NoLessThanAgreed`. Its invariant, `DealInv`,
joins the waiting, the books of `LaunchpadProofs` carried over every step of
the clients, and what each session knows: it asked for a command that exists,
the reserves and terms it read are ones the program can have had, and once
signed, its order says what its quote says. Without the books a quote on what
was read need not be a number in range; without the waiting a transaction need
not belong to the session whose agreement it is measured against. The only new
instruction is the launch with a first buy, two instructions in a transaction:
its lemma takes the second from the state the first leaves. `SafeAmongClients`
reads solvency, supply and `HoldersCanBePaid` off the same invariant.

*Quotes.* `QuotesHold` is `QuoteHoldsUnlessMoved`: if nothing moved and the
clock was right, whatever the client builds is accepted and does what was
quoted. The client checks less than the program: it looks neither at the vault
and the lamports of a curve, nor at the wallet's tokens among those that
circulate, nor at the widths of the accounts. So the theorem is about what
holds of every live curve, and its invariant, `ForeseenInv`, has four parts on
top of the books (`IInv`) and of what the sessions read (`ReadInv`). `HeldInv`:
the tokens of a mint in the wallets are finitely many and no more than
circulate, a statement about the set of held tokens (`Held`) rather than about
a sum, which would need induction. `RaisedInv`: a curve holds no more lamports
than the trades so far can have brought. `Poised`: a session that reads knows
accounts that still are as it read them. `Foresees`: an order that was built
would be executed now, with exactly its quote. A step of the chain that leaves
a curve alone leaves its vault, its lamports and its circulating tokens alone
too (`Quiet`), so an order can only be spoilt by a step its session is told of
(`moved`); the lemmas of `SdkMathProofs` give that the two quotes are equal.

The theorem has one hypothesis, `RoomToTrade(most)`: no budget exceeds `most`,
and the launch's virtual lamports with one `most` for every trade fit the
width. It cannot be dropped: `trade.rs` refuses a buy that overflows a `u64`,
and the client does not look at that. In the program it is the lamports that
exist, about 6·10^17 or a thirtieth of a `u64`, that bound what a curve can
hold, unless an administrator launches with virtual reserves near the width. The
model does not count everybody's SOL and bounds it more crudely, by the trades:
with budgets up to 1000 SOL the hypothesis covers 18 million of them.

*Administration.* `UpdatesKeepTheRest` is `UnspecifiedKept`: until something
moves, the configuration is the one that was read (`ReadInv`), so the values
that the client fills in are those in force. That the values a command leads to
are terms of the instance again is `ClientAssumption`, which TLC evaluates.

**The account lists.** `AccountLocksProofs` proves `RefusalsAreStale` and
`TradesStayApart`. The invariant `LocksInv` adds to the first that a
transaction built under the present configuration names what the handlers will
look for (`FreshUnlessStale`) and that a mint is launched by one transaction
only (`LaunchedOnce`). One lemma per instruction then compares the three lists.

**The indexer.** `IndexerProofs` has four parts, each building on the ones
before.

*The cursor.* `CursorMovesByOne`. The invariant follows the signatures through a
sync: while pages come in, the list runs down one by one from the newest and
stays above the cursor; a short page ends at the cursor, so the reversed list
runs up from it; a batch is its beginning. So the head of a batch is always the
transaction after the cursor, whatever failed before, for every page and batch
size.

*The rows.* `RowsAlwaysFollowChain` and `TradesAlwaysInChainOrder`, from
`RowsInv`: the chain is well formed, a token launched in it stays launched, and
both `db` and `disk` agree with it at their own cursor, which is what carries
the proof over a loss of power. The events of a transaction are a path of at
most four steps from the state before it to the state after it, so what
`Applied` computes by recursion is followed step by step and needs no induction.

*The feed.* `FeedAlwaysFollowsRows`. Between a commit and its publication `live`
holds exactly the notes of the transaction at the cursor (`LiveInv`), and the
feed has reached the one before it, or that one when nothing is waiting
(`FeedInv`): in order, with nothing twice, and without a gap as long as the
process has not died.

*The mirror.* `RowsMirrorChain`: `Spec` implies `Mirror`'s specification under
the mapping. Its invariant adds to the rows that the disk is never ahead of the
memory (`DiskBehind`), so that a loss of power falls back and not forward. A
lemma about the state, `CopyIsMoment`, says that the rows are the moment of the
cursor; each action then needs only what it does to the chain and the cursor: a
confirmation after `start` is `Grow`, a commit is `Follow`, a loss of power is
`FallBack`, and everything else, pages, batches, faults and publications, is a
stutter.

**The keeper.** `KeeperProofs` proves `ReportsAreTrue` and `FailuresRest`. A
confirmation that reports success has left its curve migrated, which no step
undoes; and the countdown the code acts on and the time that has really passed
since a failure always add up to the cool-down.

**The API.** `ApiProofs` proves of uploads `AnswersResolve`, because a request
goes on only when its write has ended, which leaves the file whole or spoiled
by another request, and no opening makes a stored file partial again; and of the worker `SettledStaysSettled`, because a
token is fetched at most once at a time and only while it is pending.

`LimitHolds` is `UploadsBounded`. `LimiterInv` divides the uploads of the last
window into those of the entry's window, which its count counts and the first
of which is exactly as old as the entry, and those from before it. The latter
stay below the limit: when an entry runs out, its first upload leaves the span
with it. Below the limit and at most the limit together are less than twice the
limit.

Of the live stream it proves `NoEventIsSkipped`, whose invariant is the property
with the types of its sequences, and `NeverAsleepOnWork`.

**Only model-checked.** Liveness under fairness is out of the prover's reach:
`CatchesUp`, `EveryCurveGraduates`, `FeesSwept`, `AbortEnds`,
`EveryTokenSettles`. Every invariant, action property and refinement of a
passing run is stated by a theorem.

## 5. Not modelled

* Account layouts, conversions between `bigint` and the wire, the argument and
  event layouts of the IDL: no state. What the IDL says of accounts is in
  `AccountLocks`.
* The CPIs inside `migrate` one by one: the transaction is all or nothing.
* `init`, `claim` and `migrate` of the command line send like the commands
  that are modelled; `curve` and `list` only print.
* A rollback of a confirmed transaction: the backend takes confirmed as final.
* Queries, search, candles, floating-point prices: display.
* Pinata, the detection of image types, addresses and redirects of the safe
  fetch, environment variables, local validator and code generation: I/O.
* The cached configuration of `index.ts`: what it keeps is only shown by
  `GET /api/config`; nothing is quoted, signed or sent with it.
* The length of a live client's queue: nothing in the code limits it, so there
  is no property of it to hold.

## 6. Where the code and its documents differ

* `steep`: `constants.rs:52-54` and `README.md:88` say every curve that
  completes can graduate. With terms that leave a single virtual token the SOL
  raised is worth less than one token unit at the final price, and `migrate`
  refuses (`migrate.rs:173`). `validate` accepts such terms. The timeout still
  lets holders out, and no sensible admin would choose them.
* `progress`: `client.ts:82` and `math.ts:192` call the progress of a curve
  "0 → 100". `metrics` (`client.ts:178`) computes it from the initial reserves
  of the current configuration instead of those the curve was launched with, so
  an update of the configuration makes it wrong, or negative, for every older
  token. The backend keeps the reserves of each launch and is right.
* `reupload`: `storage.ts:10` says uploading the same bytes twice is harmless.
  `put` (`storage.ts:45`) writes over the file, which empties it first: a second
  upload that fails or is cut off spoils the file of the first, whose URI is
  out and which is served as immutable.

Six remarks that no run is spent on. `math.ts:145-147` promises of
`solCostForTokens` the budget "to buy exactly `tokenAmount` tokens", and that
the program "then delivers at least `tokenAmount` tokens". That is what
`BudgetIsLeast` says up to the tokens the curve has left; beyond them
`math.ts:151` silently caps the amount, so the budget buys the rest of the curve
and the promise does not hold. `.env.example:25` of the backend says fees are
swept "above this amount", `config.ts:28` says "at least"; the code
(`keeper.ts`) and `FeesSwept` agree with the second. `app.ts:24` calls the limit
of uploads "per IP and minute", while the windows are fixed ones: nearly twice
the limit, `2 * P - 1` for a limit of `P`, may pass within a minute, which is
what `UploadsBounded` holds it to. `state.rs:175-176` says later
configuration changes cannot make the graduation of an existing token
impossible, while the AmmConfig is read at graduation (`migrate.rs:153`), so
pointing it at a closed tier does; `README.md:92` counts the tier among the
powers of the admin. `schema.ts:2-4` says every value of the program fits a
signed 64-bit integer, while `validate` accepts any `u64` supply
(`state.rs:84-137`). And "unspecified values are kept" (`cli.ts:16`) means the
values that were read: of two administrators' commands at once, the second puts
back what the first changed, which is why `UnspecifiedKept` asks that nothing
moved.

## 7. What is left

In the order of their worth:

1. The cached configuration, as bounded staleness, should anything come to
   depend on it.
2. Liveness as theorems, when the proof system reasons about fairness.
