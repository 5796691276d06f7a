# Formal model of CapRail

TLA+ specifications of CapRail, the TLC runs that check them on small
instances, and theorems about them proved with TLAPS for every value of the
constants. CapRail keeps company shares as Token-2022 tokens on Solana, with a
transfer hook that enforces who may hold them and when, a secondary market of
offers, a worker that indexes the program's events into Postgres, and an API and
web panel over that index.

## Inventory

| Part | State | Operations | Interacts with |
| --- | --- | --- | --- |
| Share token (`programs/caprail`, `programs/caprail-hook`) | Company (roles), TokenConfig (policy, version), InvestorRecord per wallet, Grant per wallet, token accounts | set_roles, set_policy, set_investor_status, distribute, create_grant; the hook's execute on every transfer | Token-2022 calls the hook; holders call Token-2022 directly |
| Secondary market (`programs/caprail`) | Offer per address, the delegation of the seller's token account, stablecoin accounts | create_offer, accept_offer, cancel_offer | a trade is a transfer by delegate through the hook; sellers approve and revoke by hand |
| Company and token creation, platform settings | Company, mint, PlatformConfig | create_company, create_token, init_platform | once each |
| Worker pipeline (`apps/worker`: pipeline, backfill, run, cursor) | promise chain, recent signatures, cursor in memory and in the database, pass flag | push, handle, backfillPass, start, stop | websocket and RPC endpoints, the index writers |
| Index writers (`apply.ts`, `index-store.ts`) | rows of companies, tokens, policies, investors, journal, holdings, offers, trades | one per event, and refusals | run inside the pipeline, one database transaction per chain transaction |
| Stale sweep (`stale.ts`) | `checked_at`, `checked_slot`, `touched_slot` of an offer row | due, assess, record | races the index writers on offer rows |
| Parsing (`packages/indexer`) | none | attributeLogs, collectEvents, collectErrors, refusedTransfer | the logs of a transaction; the worker applies what it finds |
| API (`apps/api`) | nonces, rate-limit windows, feed marks | nonce, verify, reads, event stream | reads the index; the feed polls it |
| Web (`apps/web`) | session, query cache, stream state, a transaction under way per form | sign-in, submit, report, stream, cache patches | API, wallet, chain |

What makes them correct, and what is hard about each:

- **Share token.** The chain runs instructions one at a time and undoes one that
  fails, so the difficulty is not interleaving inside an instruction but long
  sequences of legal ones: grants, purchases on top, burns, lapsing
  admissions, policy switches. A vested curve that rounds or jumps the wrong way
  frees or re-locks shares at a boundary second. Promises: unvested shares are
  not given away; nobody receives without admission; supply is conserved.
- **Market.** An offer is only a delegation, and an account has one. Promises:
  one offer never damages another; the books of an offer always add up; half a
  trade does not exist; a closed offer stays closed.
- **Worker.** Two sources of the same records, in any order, with loss, errors
  and restarts. Promises: every record is indexed; each takes effect once; the
  cursor does not run ahead or back.
- **Index rows.** Deltas and reconciled readings of the same holding; offer rows
  written by both the sweep and the events; last-writer rules by slot, second or
  version.
- **Feed and panel.** A stream that starts "now" next to a read that happened a
  moment ago; marks that must neither repeat nor skip; a cache that events patch
  and reads replace. Promise: the panel comes to show what is in the index.
- **Sign-in.** Single-use nonces under concurrent, repeated and late requests;
  roles that change after the token was signed; a session that belongs to one
  wallet while the wallet changes accounts.

- **Storefront and transactions.** A form filled in from a page of some age; a
  simulation, a signature and a confirmation with the market moving between them; a
  node or a wallet that does not answer about a transaction that may still land; the
  hook's checks written again in SQL. Promises: what the form says of a purchase is so,
  the journal says it once, and what is shown can be bought.

`PROJECT.json` lists the components with what is modelled of each, and every
hazard at its line.

## Modules

| Module | What it is |
| --- | --- |
| `Vesting` | `vested()` and the lock the hook derives from it, as operators |
| `CapTable` | what the share token promises, without roles, policies, clock or schedules |
| `ShareToken` | one company's token: every instruction on it, the hook, the holders' own transfers and burns |
| `Pricing` | payment for an offer and the platform's fee, as operators |
| `Market` | `ShareToken` with offers, delegations and stablecoin |
| `Pipeline` | the worker: subscription, backfill, promise chain, cursor, restart |
| `HoldingsIndex` | the holdings rows and the journal: deltas, reconciliation with the chain |
| `RegistryIndex` | the rows of roles, policy and investor status, each with its stamp |
| `WorkerIndex` | `Pipeline` committing the rows of both, in one database transaction |
| `OfferIndex` | one offer's row, its events and the stale sweep, against the chain and a lagging node |
| `Access` | the API in front of a company: nonces, tokens, limiter, roles |
| `Session` | `Access` with a browser tab: the wallet's accounts, the session shown and stored |
| `Feed` | tables, the company's poller, streams, and the panel's cache |
| `Logs` | what is read from a transaction's log: frames, events, refusals |
| `Purchase` | `Market` with the storefront: its listing, a purchase from the form to its outcome, the journal |
| `MC*` | the instances TLC checks |
| `Sums` | what a sum over a finite set is, proved once by induction on sets |
| `ShareTokenProofs`, `MarketProofs`, `PurchaseProofs` | the theorems of the curve and the token, of the market, and of the storefront, each EXTENDing the one before |
| `WorkerIndexProofs` | those of the pipeline, of the holdings rows and of the rows that mirror the settings |
| `OfferIndexProofs`, `SessionProofs`, `FeedProofs` | those of one offer's row, of sign-in and session, of the feed |

`Market` EXTENDS `ShareToken` and `Pricing`; `ShareToken` EXTENDS `Vesting` and
implements `CapTable` through an INSTANCE. A chain of implementations follows:
`Market` implements `ShareToken`, which implements `CapTable`. `WorkerIndex`
EXTENDS `HoldingsIndex` and `RegistryIndex`, which both EXTEND `Pipeline`: what
the pipeline commits is what they write. `Session` EXTENDS `Access`, and
`Purchase` EXTENDS `Market` and `Logs`.

Definitions whose comment begins "A slip" are not part of any specification. Each
is a bug the code could have had; PROJECT.json pairs it with the definition it
would replace and the property that then fails.

### How they correspond to the code

*ShareToken.* One action per instruction; its guard is the accounts' constraints
and the handler's `require!`s, and an instruction that is refused is a step that
does not exist. `Transfer` is `transfer_checked` of a mint with a hook: the hook's
checks (`HookAllows`, with the balance after the debit) and the movement.
`Distribute`, `CreateGrant`, `HolderTransfer` and the market's trades all go
through it, as in the code. `HolderBurn` does not: Token-2022 calls no hook on a
burn. A wallet has one share account, its associated one, which is created when
first needed. `Init` is the state after `create_token`: supply in the treasury,
policy version 1, roles any valid pair. `burned` and, in `Market`, `trades` and
`handled` are history variables.

*Market.* `delegate` and `delegated` are the two fields Token-2022 keeps on an
account. `ApproveByHand` and `RevokeByHand` are the seller at the token program
without CapRail, and may hand an old offer its delegation back; an `Outsider`
delegate may transfer (under the hook) or burn. `handled` remembers the offers
whose seller did so, because the promises about delegations are made to sellers
who do not. `PayFor` requires the stablecoin accounts to be distinct: Anchor
refuses duplicate mutable accounts in one instruction.

*Pipeline.* Transactions are numbered in chain order and share slots as `Slot`
says. The promise chain is `queue`, its head the transaction in hand; `saving` is
the moment between the commit of its records and the save of the cursor. A pass
lists once, when it starts, and then has one transaction at a time in the
chain. `Restart` ends the process anywhere and keeps only the database. A
notification reaches only a subscription that is open when the transaction
lands, and even then may be lost. An apply may fail before or after its commit.

*HoldingsIndex.* `rows` are the rows of the table, `Moved` the two calls of
`applyTransferAllowed` in their order, so a transfer to oneself sees its own debit.
`Reconciled` is the read of the chain while the transaction is applied: it answers
with the balance of whatever has landed by then. `applied`, the pipeline's set of
committed transactions, is the journal's unique index (`Journaled`). `reconciled`
is a history variable.

*RegistryIndex.* `AfterEvents` are the rows event by event, as `createApplier` loops
over a transaction's events. Roles carry the program's second, policies their version,
statuses their slot; there is no journal, so a replay writes again and only the stamps
decide. `RegistryAssumption` says what the program itself guarantees of the chain: a
company and its token are created once and before anything changes them, the clock does
not go back, every policy raises the version. `Mirror` is the claim the properties make:
each row says what the last of some transactions to speak of it said.

*OfferIndex.* `chain` is one step per slot with the offer and the seller's account
after it. `Apply` takes any record in any order, again and again; the pipeline's
refusal to apply what refers to an unknown offer is `Due`. The sweep is three
steps, and between any two of them anything may happen, the node it reads from
being behind the index or ahead of it. `checked_at` is abstracted to whether the
30 seconds have passed. `early` is a history variable.

*Access.* One action per request, plus the two places where a request is split by
an await that matters: `Verify` and `Answer` (the nonce is gone before the roles are
read and the token signed), `Authorise` and `Serve` (the role is read before the
rows). `Refuse` covers the database failing as well as the API saying no.
`hits`, `issued`, `granted` and `request.held` are history.

*Session.* One action per effect, timer or callback of `SessionProvider`. An effect
runs with the change that causes it. Which account the extension signs with is its
own affair: the one it was asked for, or the one selected now. `keeps` is FALSE in
private mode, where `sessionStorage` refuses writes.

*Feed.* A record is a number of a kind, because that is what the marks look at.
`Draw` takes an id from its sequence and `Commit` makes the row visible, later and
in another order. A poll is a read (`PollRead`) and its delivery (`Deliver`);
`Connect` starts the poller with its first poll, `Abort` of the last stream ends
it. The panel's reads are TanStack queries: an answer replaces the cache, an
invalidation restarts a read, or joins the one under way while nothing is loaded.

*Logs.* A line keeps what the parser looks at: which program is entered or left, which
error or event it names. `AttributeLogs` is `attributeLogs`: the stack and the output after
each line (`AfterLines`), and the output after the last;
`ParseTransaction` is what the worker applies, `ReasonFromLogs` what the panel shows.

*Purchase.* `Checks` are the reasons why the network refuses a purchase, in the order
of `accept_offer`: the accounts' constraints and its own checks, then the hook, then
the payment. `Refusal` is the first that fails. The same operator decides the
simulation, the wallet's preflight and the landing, each in the state of its moment,
and `Land` moves shares and money by `Market`'s own `AcceptOffer`. A member of `tries` is one
call of `submitPlan` and the transaction it sent: `step` is where the form is, `fate` where
the transaction is, and neither waits for the other. `Listed`, `Admits`, `Available` and `Takeable` are what
the API, its SQL function, the worker's sweep and the panel compute, each from its own
source. `ReadShop` reads an index that is up to date but for the sweep, because how the
index comes to be that is the business of the pipeline and of `OfferIndex`; from then on
the page is as old as you like. `paid` and, in what was refused, `why` are history.

### Abstractions

Amounts, times and slots are naturals or integers; the code computes products in
128 bits and refuses the ones that do not fit a u64 (`ValidTerms`), so no width is
lost. Jurisdiction, names, decimals, rents and, but for `Logs`, logs are left out, and events
are what the index takes from them. The ROFR window is always closed in this version of the
program (`create_offer` writes 0) and is kept as a guard. `Session` has one company,
whose investors are the same throughout.

## Runs

| Run | What it shows | Bounds |
| --- | --- | --- |
| `vesting` | the curve equals a definition that does not divide; time never re-locks | totals 0..7, times -2..4, every schedule including invalid ones |
| `share_token` | locks, admission, conservation, refinement of `CapTable` | 2 investors, 2 keys, 3 shares, clock 0..2, one valid and one invalid schedule, 2 policy versions |
| `market` | books, delegations, fees, lifecycle, delivery against payment | 2 offers of one seller, 3 shares, 2 prices, one that overflows for 3 shares |
| `purchase` | verdicts are true, the journal is right and single, the storefront shows what can be bought; `Market` implements `ShareToken`, so locks and admission hold in it | 1 offer, 2 shares, 2 prices, 1 submission beside other purchases; a grant locked until the last second, an admission that ends at it; cash for one price and not for the other |
| `pipeline_backfill` | without the subscription nothing is lost, rows follow the chain and settle on its last word | 5 transactions in 4 slots, 2 endpoints, 3 errors, 1 restart |
| `pipeline_live` | with it, effects are single, rows are the journal's, the newest word wins, the cursor never goes back, passes end | 4 transactions, 1 error, 1 restart, recent set of 1 |
| `pipeline_loss` | violated: a lost notification is a lost record | 3 transactions, nothing fails but the socket |
| `index_twice` | violated: a late transfer is counted twice | 4 transactions, nothing fails but the socket |
| `offer` | the row passes its table's checks, no outdated reading stands, closed stays closed, and it comes to say what can be bought | 3 shares, 4 slots of anything |
| `access` | one session per nonce, an exact limiter, no stale role, the token sent is of the session shown | 2 accounts of investors, who may or may not have a role, 2 sign-ins at once, 1 repeated request, limit 3 in a window of 2 s, one change of roles |
| `session_switch` | violated: an account switched away from is signed in | 2 accounts, 1 sign-in |
| `feed` | nothing is handed out twice, the panel catches up | 2 records of a kind, or 3 policies in 2 slots; 2 connections, 1 failed poll |

Why the bounds are enough to be interesting. Three shares let a grant be partly
vested, topped up and partly sold, and an offer be filled in one, two or three
parts; a fee of a tenth on 15, 30 or 45 rounds differently each time, and the
parts' fees differ from the whole's. Two offers of one seller are the smallest
case in which one can take the other's delegation. Expiries and schedule ends fall
on seconds the clock reaches, so the boundaries are tested. In `market` nobody
can be admitted, so shares move only under an open policy: admission is the
business of `share_token` and `purchase`. The type invariants of token and market are in no
run: they are proved.

In the pipeline runs the first transaction creates company and token, the others
need it, and each moves shares and changes roles, policy and status at once; one
transfer is to oneself and the last needs every share before it. In
`pipeline_backfill` another company's transaction shares the first slot, so the
cursor meets a tie, and two role changes share a second, so a stamp does. Its
recent set holds a whole pass: forgetting within a pass replays role changes that
are already in, which is looked at below. In `pipeline_live` a recent set of one
forgets at every second transaction and every change has its own second. Three
errors reach a pass, its second endpoint and the pass after it.

In `offer`, four slots hold a creation and three steps: fills out of order, a fill
between a withdrawal and a new approval, an account emptied, closed and
opened again. In `purchase` one submission is enough, because `Others` holds the rest of the market,
the buyer's other purchases included, and submissions share nothing with each other but the
chain and the journal, where each has rows of its own. The last second is the one where the lock opens and the
admission is over, so both sides of each boundary are met. In `access` the limit is reachable only by two sign-ins and a
repetition together, and lifetimes of one second end while an answer is under way.
In `feed` kinds come one at a time because they share nothing but poller and
stream, whose steps do not look at the kind; two policies of one slot, in either
order, around a poll are the case the keys exist for.

Deadlock is not checked in `vesting` (the clock stops), in the pipeline runs
(everything is indexed), in `offer` (every reading has expired and every record is in)
and in `access` (clock and sign-ins are bounded). Symmetry of wallets, keys and
calls is used where no property is temporal beyond an action property.

### Fairness

*Pipeline and WorkerIndex.* `PassStep` is weakly fair because the timer starts a
pass every 30 seconds for ever and each await of a pass is answered; `PipelineStep`
because a chained promise runs when the one before it has settled. Landing,
notifying and restarting are not fair, and nothing is obliged to fail. Errors and
restarts are bounded, which stands for "not for ever": a transaction that can never
be applied would stop every pass at itself.

*OfferIndex.* The node follows the chain; each record is applied once, which is
what the pipeline promises; the sweep starts whenever something is due, because its
timer runs for ever (`run.ts:98-112`); the 30 seconds pass. Its read and its write
are strongly fair: they may fail, but not every time. Chain steps are not fair.

*Feed.* The poller's timer, the stream's retry (`sse.ts:114-124`), the frames that
have arrived and the answers of reads. Nobody is obliged to commit, connections and
failed polls are bounded, and the last connection does not break.

### What the violated runs show

`pipeline_loss`. The worker's comments promise that a dropped websocket costs
latency, never records (`apps/worker/src/run.ts:18-20`). The backfill reads only
what lies after the cursor, and the cursor is moved by every live transaction that
is applied (`pipeline.ts:54`), also past one that never arrived. TLC's behaviour:
three transactions land; the notification of 1, the creation of a token, does not
arrive, that of 2 does, is applied, and moves the cursor to 2. Every later pass
lists what came after 2, and so never 1; and 3, an event of the missing token, is
refused by each of them as not indexed yet, which stops the index there. The run
needs no failure, no restart and no reordering. The same happens when a live
transaction fails (its RPC read is "not served yet") and the next one succeeds
before the pass that was to retry it, or when a transaction lands between the first
pass's listing and the opening of the subscription. With the subscription off,
`pipeline_backfill` shows that nothing is lost.

`index_twice`. A row reconciled with the chain counts every transfer up to its
slot, and "a delta from one of those would be applied twice" (`apply.ts:79-80`).
`covered()` recognises such a row by `verifiedAt`, which the next delta clears. A
distribution is missed by the socket and in the hands of a pass; the next transfer
arrives live, finds a row that cannot cover it and reads the chain; another one
clears the mark; the pass then applies the distribution's delta to a balance that
already has it.

`session_switch`. "Switching accounts in the wallet must never keep the previous
account's token" (`web/src/auth/session.ts:81-82`). `SessionProvider.tsx:109-111` saves
and shows the answer for the account the sign-in began with; if the account was
switched in between, the tab is signed in as one account while the wallet holds
another, until the next switch or reload. `BearerIsTheOneShown` bounds it: screen and
token still belong to the same session.

### What the models leave to the reader

Behaviours met while modelling that no run is about:

- Roles changed twice in one second, the later one live, then the earlier one
  from a pass: `<=` (`index-store.ts:159-173`) lets the earlier win until another
  change. `pipeline_live` gives every change its own second for this reason.
- A pass longer than the recent set brings back what it has forgotten; rows without a
  journal are then written again. Without the subscription it takes an endpoint that
  fails in the middle of such a pass: the fallback lists it from its start, writes the
  earlier of two changes of one second again, and stops before the later one; the next
  pass starts at the cursor, behind both, and the earlier change stays.
  `pipeline_backfill` keeps its passes within the recent set, and
  `BackfillWritesTheSettings` assumes it (`WithinRecent`).
- A transfer to a reconciled row that covers it leaves `distributed` as it was
  (`apply.ts:355`), although the shares came from the treasury
  (`schema.ts:348-349`). `RowsAreTheJournal` speaks of rows never reconciled.
- A transfer indexed before the offer it concerns touches no row
  (`apply.ts:441`, against `stale.ts:45-48`); `ReadingStands` sets those aside as
  `early`, and the next reading mends it.
- `PanelCatchesUp` sets aside (`excused`) a record committed between a new poller's
  creation and its first marks, after the panel's own read; one committed below the
  mark, which `reader.ts:556-558` names; one that an older answer, already on its way,
  erases from the cache; and the invalidation of the first open joining a read that
  was already answered (`company/feed.ts:112-121`).
- A stream is authorised when it opens and goes on when the role is withdrawn or the
  token expires (`routes/events.ts:23-57`).
- `Field.tsx:182` says "not sent" of every outcome `failed`, which is also that of a
  transaction that was sent and whose confirmation gave up (`send.ts:104`), or of a wallet
  whose answer was lost; it may land after that, and a second click buys again.
  `VerdictIsTrue` speaks of `settled` and `refused`, which are always true.
- `send.ts:17-18` counts a node that did not answer as `failed`; when it is the blockhash or the
  simulation that gets no answer, `submitPlan` rejects, `run` does not catch it, and the form
  stays busy: the step `silent` of `Purchase`.
- The storefront shows shares that a grant still locks: grants are in no index. So
  `StorefrontIsTheNetwork` asks only about shares that are not locked.
- `create_company` is sent with an id drawn for that click, so a retry after a failed
  confirmation of a transaction that landed makes a second company
  (`company/setup/CompanySetup.tsx`).
- The runtime truncates long logs, and an event or a refusal beyond the cut is lost to the
  index.
- In private mode the session is shown but requests carry no token: `save` fails
  silently (`session.ts:116-122`) and the client reads the store (`providers.tsx:31`).

## Proofs

Every theorem is of a specification a run checks, for every value of its constants:
any number of wallets, offers, transactions, accounts, submissions, errors and
restarts. They rest on the named assumptions of the modules, which say what the
program's own checks or the chain guarantee (a fee of at most a tenth, roles held by
two keys, transactions numbered in chain order, `NoOverdraft`: the token program
moves only what there is). A theorem that needs more says so in its ASSUME:

- `IsFiniteSet(Wallets)` or `IsFiniteSet(Offers)` where something is summed over them;
- `FeeTreasury \notin Wallets` for `FeesAddUp`, because a buyer who is the treasury
  would pay with the fees;
- `~ Live` for the results about the backfill alone: with the subscription they
  are false, which is what `pipeline_loss`, `index_twice` and the roles of one second
  show;
- transfers of more than nothing for `BackfillWritesTheCapTable`. The program refuses
  amounts of zero, holders at the token program need not, and a transfer of nothing is
  enough of a row to be read where there was none;
- `OwnStamps` for what is said of the settings in any order of arrival: two transactions
  that change the roles fall in different seconds, two that change one investor's status
  in different slots. With equal stamps a late or replayed change turns the row back.
  The policy's version needs no such hypothesis, and the backfill alone does not either;
- `[]WithinRecent` instead, for the settings under the backfill alone: there is no
  fallback endpoint, or no pass lists more than the recent set holds (2,000 signatures).

The argument of each, and the inductive invariant it needs:

**Vesting** (`ShareTokenProofs`, first part). Everything follows from what a quotient
is (`DivFloor`): `Vested` stays within the total, never falls, and is the most shares
the elapsed time has paid for, which is the reference of the run `vesting` without its
bounds (`VestedIsTheFloor`); `Locked` stays within the total for any schedule. The last
part of the module states the same of the clock of `MCVesting`, whose bounds are then
any naturals and any set of instants: `ClockVestsTheFloor` and `ClockNeverRelocks` are
the two properties of the run.

**Share token.** Types; `GrantLocked`, inductive together with types (the curve carries
it across `Tick`, the hook across transfers, and a grant's total arriving in the same
step across `CreateGrant`); `SupplyAccounted`, by taking the debited and the credited
account out of the sum; `ReceivedOnlyWhileAdmitted`; and the cap table, action by
action.

**Market.** Every market step is a token step or stutters, so `MarketSpec => Spec` and
the token's theorems carry over. `TradesSettleTheOffer` needs `NothingSoldBefore` (an
address without an offer has no trades) to be inductive. `UntouchedOfferStaysBacked`
and `ClosedOfferHoldsNoDelegation` hold only together (`BackedInv`): that
`create_offer` cannot take a live delegation rests on the books, since something
remains of an open offer and so the delegated amount is not 0; that a filled offer
releases its delegation rests on the delegation equalling the remainder.
`OfferLifecycle` and `DeliveryVersusPayment` follow step by step.
`PlatformKeepsTheFees` is a sum over the offers, of which an acceptance changes one.

**Purchase.** `PurchaseInv` is the market's books, the terms offers were made on
(`TermsHold`), `TriesRight`, `JournalRight` and `PageRight`. The verdicts are not
inductive alone: that a receipt is of the shown payment needs that a price on a page
of any age is still its offer's (`PageRight`, `TermsHold`), and that a refusal is final
needs, for each step of the form, what may be true of the transaction behind it
(`Truthful`). A submission only moves forward (`Advances`), and only `Land` moves
shares, by the market's own action: hence `PurchaseSpec => MarketSpec`, and with it
every theorem above. The journal is right because a row is a function of the attempt
(`RowOf`), whoever writes it: the worker's and the panel's readings of a log are
computed line by line, over the logs of an accepted and of a refused purchase.
`StorefrontIsTheNetwork` compares the SQL, the sweep and the panel with the checks of
`accept_offer` and the hook, in one state.

**Worker pipeline.** `PipelineInv` says where everything is: what waits has landed, one
entry of the promise chain at most is the pass's and it is the next of its list, a
cursor being saved is the head's, the saved cursor is not ahead of the one in memory,
and effects are one per applied transaction. From it the types, `TakesEffectOnce`
(replays end at the journal, not in the recent set) and `CursorOnlyForward`. Without the
subscription `BackfillInv` adds that the pass's list continues, without a gap, from what
is indexed; that makes `NothingBehindTheCursor` inductive through failures in the
middle of a pass and restarts between commit and save.

**Holdings.** The worker with its rows implements the pipeline (`IndexSpec => Spec`),
so the invariants above are available. `JournalInv` gives `RowsAreTheJournal`: a delta
changes the sum over the journal by the transfer that enters it, in any order.
`VerifiedRowIsTheChain` holds because only a reading of the chain sets the mark and any
delta clears it. `RowsFollowTheChain` needs `OnChain`: without the subscription what is
applied is a prefix of the chain and nothing is ever reconciled, so that every source
row covers its transfer by `NoOverdraft`.

**Settings rows.** An event on the chain is known by its place, a transaction and a
number in it, and places are in one order. `SettingsInv` says that each row is blank and
nobody has spoken, or is what the newest applied place wrote. A transaction's events are
read one by one (`RowRead`), and again when it is replayed: in the middle of a replay the
row may be behind itself, and what carries the loop is that whatever was newer than the
event just read belongs to the same transaction. How a row takes one event (`Takes`)
follows from its stamp: a version always, a second or a slot when no other transaction
has it (`OwnStamps`). Hence `PolicyIsTheNewest` and `RowsSayTheNewest`, in any order of
arrival; with everything applied that is `LastWordWins` (`LastWordOfTheChain`), and
`SettlesOnTheLastWord` is left with the pipeline's liveness (`IndexedRowsSettle`).

With equal stamps the order of arrival decides, and the backfill keeps the chain's.
`RunInv` says so: what is remembered is the run of transactions that ends at the cursor,
and the pass, or the endpoint that takes it over, goes on within that run or right behind
it. So what is not remembered is the next of the chain (`NewIsNext`), at first and after
a restart, and a row says at least what the chain says up to the cursor (`UpToCursor`,
preserved by `RowHeard`). At the tip that is the last word (`BackfillWritesTheSettings`),
which is what the comment at `index-store.ts:159-160` relies on.

**Offer rows.** `OfferInv`: on the chain an offer only shrinks (`ChainInv`); the row is
as some journaled decision left it and no journaled one is further on (`RowDecided`);
whatever moved the shares has touched the row, unless it came before it
(`RowTouched`). The table's checks and `ReadingStands` are preserved with these, against
every record in any order, again and again, and a sweep whose reading is of any age.

**Sign-in and session.** `NonceInv`: a nonce still stored is the last one issued to its
wallet and has granted nothing, and no session is of a nonce to come. `LimitInv`:
however much was pruned, the window holds as many times after any moment that still
matters as were let through after it, oldest first; counting them is a bijection between
places in two sequences (`Shifted`). `RequestInv` and `BearerInv` are one conjunct each
beyond their properties: who has the role while the request is on its way was a role
holder after it was sent, and in private mode nothing is stored.

**Feed.** `FeedInv`: what a connection that still listens was sent lies behind the
marks, and what a poll has read lies ahead of the marks it started from and behind the
marks it will leave, together with what was behind those. Numbers that become visible
late, below the mark, are why "behind" looks at the keys for policies.

TLC has found each of these inductive invariants to hold on the instance of its run, but
for `LimitInv`, which quantifies over all times.

Only model-checked are the liveness properties (`EveryRecordIndexed`, `PassesEnd`,
`SettlesOnTheLastWord`, `ComesToSayWhatIsAvailable`, `PanelCatchesUp`), because liveness
under fairness is beyond TLAPS here. Every safety invariant and every action property of
the passing runs is stated by a theorem.

None of the modules declares a RECURSIVE operator.

## Plan

What remains, in this order.

1. The setup wizard and the cabinet's forms, with their drafts and retries, over the steps
   of `Purchase`.
2. What the market's theorems say of an offer's row: `OfferIndex`'s chain is any
   sequence of steps; that `Market`'s offers are among those is a refinement.
3. The safety halves of the liveness properties that have none yet: which states a pass,
   a stream or the sweep cannot get stuck in.

## Not modelled

- *Screens, landing page, demo tools, the other transaction builders, program IDL.*
  About three fifths of the TypeScript: generated interface descriptions, presentation, scripts
  that drive the instructions against a test network, and the assembly of accounts
  and arguments. They keep no state that outlives a call or a component, so there is
  nothing for a model to be wrong about.
- *Decoding of events* (`packages/indexer`): the bytes of an event, and the transfer a refusal
  is about, found among the inner instructions. A function of one transaction's data;
  `Logs` takes its result.
- *SQL reads and row-level security.* What a scoped query returns is the database's
  doing; the reads that matter to an interleaving are in `Feed` and `Access`.
- *The other forms of the panel.* They submit as `Purchase` does. The setup wizard, with its
  draft in the browser, and the cabinet's forms add rules of their own about retries, which
  have no model yet.
- *Two workers at once.* The database orders their upserts; two pipelines together
  are beyond what the runs can hold.
- *On the chain:* accounts other than associated ones, closing share accounts (but
  for `OfferIndex`, where a closed account is one of the sweep's readings), several
  companies side by side (they share no state), and the ROFR instructions the program
  does not have yet.
- *In the API:* the passage of `POST /attempts` through the limiter, the limiter's sweep of
  other addresses, pages of the journal, and the cabinet's reads.
