# OPRAI in TLA+

Models, model-checking instances and proofs for the parts of OPRAI that move
money, meter it, pay it back, or decide whose it is.  The repository is a set of
services (a Telegram bot, an auth service, an API gateway, a Solana service,
model and memory services, a web application).  The development covers the code
in them that keeps state under concurrency and failure: many coroutines,
handlers and retried callbacks over one database, a Redis that may not answer,
and chains that neither wait nor roll back.

## 1. Inventory

| Component | State | Operations | What is hard |
|---|---|---|---|
| bot / subscriptions (`services/oprai-tg-bot/app/services/subscriptions.py`) | `tg_topups`, `tg_subscriptions` | `pay`, `settle_pending`, `extend` | a broadcast cannot be undone; two actors settle one row; crashes between any two awaits; RPC failures |
| bot / claimable transfers (`claims.py`, `handlers/claim.py`) | `tg_claims` | `create`, `take`, `cancel`, `expire_stale`, `mark_failed`, `record_sent` | taps race each other, the sender and the sweep; unconditional writes |
| bot / credits (`credits.py`) | `tg_credits` | `balance`, `spend`, `refund`, `grant` | concurrent charges, allowances read early, windows that roll under a refund |
| bot / chat turns (`handlers/chat.py`) | `tg_inflight` | `_answer`, `close_orphaned_turns` | restarts in the middle of a turn or of the sweep |
| bot / watcher loop (`main.py`) | none of its own | calls the reconcilers every few seconds | one exception ends a reconciler's cycle |
| bot / deposits (`deposits.py`) | `tg_balance_watch`, block cursor, `tg_deposit_seen`, `tg_wallet_tokens` | `check_native`, `check_tokens`, `poll` | cursor against seen table, cut at the per-cycle limit, nodes that lag, failures after the write and before the notice |
| bot / copy trading (`copy_watcher.py`, `copy_engine.py`, `copy_store.py`, `copy_executor.py`, `handlers/copy.py`) | `tg_copy_subs`, `tg_copy_fills`, the watcher's block | `watch_buys`, `on_buy`, `decide`, `buy`, `record_fill`, `set_copy` | failed passes and lagging nodes repeat blocks; a purchase given up on succeeds; cap read before the buy |
| bot / other handlers, EVM client, signer client | none that outlives a call | swaps, bridges, lending, perps, launches | third-party protocols |
| auth service / sessions (`nonce.go`, `revocation.go`, `jwt.go`, `auth_handler.go`) | nonces, revocations | nonce, verify, session, logout | Redis with an in-memory fallback per instance; calls applied but not answered |
| auth service / accounts (`account_handler.go`, `queries.go`) | `users`, `linked_identities` | sign-in, link, unlink, set primary | check and insert in two statements; failed queries that count as "none" |
| auth service / spending (`spending_handler.go`, `queries.go`) | `spending_limits`, `spending_daily` | upsert, check, commit | check and commit in two requests |
| API gateway (`middleware/auth.go`, `token_blocklist.go`, `handlers/auth_proxy.go`) | blocklist cache, rate buckets | authenticate, log out, limit | caches that answer while Redis does not |
| Solana service (`routes/actions.rs`, `db/economics.rs`, `services/cashback.rs`) | `transactions`, `tx_economics`, the rollups | record, finalize, pay out | exactly-once booking against retried and contradictory callbacks |
| chat service / cashback (`app/main.py`, `evm_payout.py`) | `cashback_claims` | `claim_cashback` | pay-out outside the lock, timeouts of a transfer that goes out |
| admin service | admins, login guard, analytics views | CRUD, login | the views are what cashback is paid from |
| chat, memory, knowledge, DeFi-query services, web application | conversations, vectors | model calls, retrieval, display | outside a model checker's reach |

How they interact, as far as it is modelled: a tap on *Subscribe* runs `pay`,
the watcher loop runs `settle_pending` over the same `tg_topups` rows, and both
read and write the chain through `evm.py`; the subscription they extend is what
`credits.allowance_for` reads when a question is charged; claims share the
watcher loop (`expire_stale`) and the chain.  A web trade passes the gateway's
token check, asks the auth service for its limits, and ends as a row that the
Solana service folds into the rollup; the chat service pays cashback from that
rollup through views of the admin service, keyed by the accounts that the auth
service keeps.

`PROJECT.json` lists every component with its status, and under `hazards` what
each is exposed to, at the line where it bites.

## 2. Modules

| Module | What it is |
|---|---|
| `Subscriptions` | `pay`, `settle_pending`, the table, the chain, time and crashes |
| `PaidMonths` | the abstract promise: a month for a successful transfer, one per transfer |
| `SubscriptionsProps` | safety, liveness, the refinement mapping, the inductive invariant, and what a docstring claims |
| `Claims` | the claim lock, its actors and its properties |
| `Metering` | credits, chat turns, the in-flight table, restarts, and properties |
| `Deposits` | balance watch, log scan, announcing loop, nodes that lag, and properties |
| `CopyTrading` | block watcher, engine, store and executor of copy trading, and properties |
| `Trades` | spending limits, transactions, the economics ledger and the rollups, composed, and properties |
| `Cashback` | claims on the rollups and the pay-out |
| `Sessions` | nonces, tokens, revocations and the gateways, composed, and properties |
| `Accounts` | sign-in, links and primaries, query by query, and properties |
| `Totals` | sums over sets, in the form the provers can reason about |
| `Rewards` | `Trades` and `Cashback` composed: claims are paid from the rollup that trades fill; and the properties of claims |
| `*Proofs` | TLAPS proofs, for every one of these; `RewardsProofs` holds those of `Trades`, `Cashback` and `Rewards` |
| `MC*` | instances: symmetry and the constraints that fix interchangeable arguments |

An action is what a coroutine or handler does between two points where another
can slip in; a single SQL statement is atomic, two statements are two actions.
Labels of `pc` name the points in between.  A definition that starts with
"Slip" in its comment is a plausible mistake in the definition that follows it;
nothing uses it, it records which property would notice the mistake.  Variables
marked "(history)" record what happened and guard nothing.

### Subscriptions

A tap stands for its call of `pay`, for the row it inserts and for the transfer
it broadcasts, because each call makes at most one of each.  `tx_hash` is either
a transfer or the placeholder (`None`).  `pay` is twelve actions, from
`PayCheck` (the `in_flight` test) to `PayExtend`; `settle_pending` fetches a
batch (`RecFetch`), visits its rows in order of `created_at` and ends each visit
with `Continue`, or the whole cycle with `Abort` when an exception reaches the
loop in `main.py`.  A search that fails (`RecSearchFails`) leads where one that
found nothing does.  The chain mines a wallet's transfers in nonce order.  Four
RPC failures can be switched on one by one (`Faults`).  `grants` is a history
variable: months granted on the strength of each transfer.

Abstracted: amounts are opaque, balances and gas are the environment's choice to
refuse, `expires_at` is a count of months, the chain does not reorganise.

### Claims

A row per token, a call of `handle_claim` per opening.  `take` is three actions
(`TakeRead`, then `TakeExpired` or `Take`), because the row it judged may have
changed when it writes.  A transfer may fail before the broadcast, after it, or
by timeout while it is still going to succeed.  `Die` covers both an exception
that `handle_claim` does not catch and the end of the process: in either case
the row stays as it is.  `released` is a history variable: claims whose sender
was told that the money stays.

### Metering

`spend` is three actions: the upsert that rolls the window, the reading of the
subscription, the guarded UPDATE.  Clocks are replaced by two facts, "the window
is old" and "the month is old", which may become true at any time.  `Crash`
takes every turn; `Boot` is `close_orphaned_turns` (delete all rows, then
rewrite messages one by one) and the start of polling, which also follows when
the DELETE failed (`SweepFails`, switched on by `Flaky`): the rows are then left
for the next start.  History variables keep
the books: questions charged less refunds, ration used in earlier windows,
windows so far, credits granted.  `grant` has no caller in the repository yet;
it is modelled as the exported operation it is, in one step, since its second
statement adds to whatever the first left.

### Deposits

One watcher, so the only actors are the watcher, the chain, its nodes, an
operator who moves the cursor back, and failure.  A cycle is a pass through the
labels of `at`; `Abandon` is any exception that reaches the loop, or the end of
the process, at any label: what was written stays, what was found is forgotten.
Every RPC names the node that answers it, because `evm.rpc` chooses one per
call.  Logs are numbered in the order the chain emits them, so "the first 200"
is a set of logs with few before them.  History variables: what reached each
wallet since it is watched, what was announced, where the first scan began,
which nodes `check_native` was answered by (`asked`), whether balances were ever
filed under another block than they were read at (`inexact`), and the blocks
that were claimed on the word of a node that did not have them (`blind`).

Abstracted: the set of active wallets is fixed, token metadata is readable or
not as the environment likes, the chain does not reorganise.  The code reads and
writes a column `tg_balance_watch.block` that `sql/schema.sql` does not create;
the model assumes that it exists.

### CopyTrading

One task polls the head, walks the blocks of the pass and serves the copiers of
each buy it meets, a step at a time (`Poll`, `PassOver`, `Hit`, `ReadSpent`,
`Price`, `Sushi`, `Relay`, `RecordFill`, `Served`, `EndPass`).  Beside it run the
chain, `/copy` commands (`SetCopy`), the refresh of the leaders, the 24 hours of
`spent_today_usd` (`Age`, which may take away any part of the sum) and the end of
the process (`Restart`).  A pass may fail at any request (`Fail`) and is then
repeated from `last`; the node that answers may have a lower head than the one
before.  A purchase may be filled, fail, or be given up on and succeed later
(`GivenUp`), in which case `buy` goes on to the other venue or reports a failure.

Amounts are counted in parts of a millionth of an ETH and the proportional ratio
in the same parts of one, so that a size is a number of grains (`Grain`, parts of
parts) that need not be whole millionths.  `Round` gives the whole millionths a
size may be rounded to (both of them at a half), and `Decide` rounds on both
branches, as the code does.

Abstracted: a block holds at most one leader's buy, a price is the dollars of a
millionth.

### Trades

Three parts that share one account: the spending limits and the day's total
(check in one request, commit in another), the life of a Solana trade from its
quote to the end of `create_transaction`, and the calls that report outcomes.
`create_transaction` is the user's report of a broadcast: it asks for no quote and
no check (`InsertTransaction` follows a refused check or none as well), and it
counts the amount that the request states (`Commit`), whatever amount was checked.
`PatchStatus` is one `patch_transaction_status` with what it spawns: the
unconditional UPDATE of `transactions`, then either `finalize_other` or
`finalize_confirmed`, statement by statement: the UPDATE that one caller wins,
the reading of the chain and of the tier, the booking, the two rollups.
`RecordEvm` is `record_evm_confirmed`, for calls about one swap.  Every statement
whose error is only logged has a twin action that fails.  Tiers are read from
`Pooled`, the fee-paying volume over both chains.

Abstracted: a commission is nothing or the notional, the ladder has two steps,
the transaction's event log is left out.

### Cashback

`ClaimCashback` goes from account resolution (`Resolve`) over the advisory lock
(`Lock`), one action per query, to the reservation (`Reserve`) and, outside the
lock, the pay-out.  The pay-out is refused before anything is sent
(`PayRefused`, then `Release`), sent, or lost track of, before or after it is
sent (`Lose`); a lost one may still be broadcast.  Balances grow as trades are
rolled up, referral cashback also falls, and a wallet may become linked at any
moment.  `peak` and `top` are history: the most a balance has been.

Abstracted: both treasuries are configured and the recipient known; an EVM
pay-out may be refused whatever its size, since its fee depends on gas.

### Rewards

`Trades` extended with the variables of `Cashback` (an instance, `Cash!`).  The
balance that `v_account_cashback_by_chain` shows is the `cash` of the rollup: a
step of the trades that adds to it (`TradeStep`) is, to the claims, a step of
`Earn`; all other steps are of one part alone (`ClaimStep`).  Both parts count
in the same unit, the one `CashOf` is in.  The properties of claims are stated
here, over the state of both parts.

### Sessions

One Redis, several auth instances with a map each, several gateways with a cache
each.  Any call of Redis may fail, applied or not: `Generate` and
`LogoutProxied` then write to the instance's map, with or without a copy in
Redis; `Consume` goes on to the map; `Check` in the gateway lets the request
pass; `Session` asks the map.  A logout is three steps: the gateway's cache, the
gateway's SET, the auth service.  A cache entry is "full" (until the token
expires) or "hour" (what a hit in Redis leaves).  `late` (history) records, when a
request arrives, which logouts of its token had been answered.

Abstracted: signatures and messages are a choice to refuse; time is that copies,
tokens and hour entries may lapse.

### Accounts

An account is named by the wallet that created it, since `users.wallet_address`
is unique and nothing repoints it; an identity has one owner or none, since
`(type, identifier)` is unique.  A sign-in is three steps (lookup, create, seed
the primary), a link three (first check, check for another wallet of the kind,
insert), an unlink two; a query that fails counts as "none" where the code says
so.  `disturbed`, `blind` and `unchecked` are history: wallets and calls that met
one of the failures or overlaps that the code does not handle.

## 3. Runs

| Run | Module / cfg | Expect | Shows |
|---|---|---|---|
| `subs` | `MCSubscriptions` / `Subscriptions.cfg` | pass | one month per transfer, every transfer recorded, credited rows final, failed rows revived only for a real transfer, refinement of `PaidMonths`; a lost payment is found and credited, an unsent one given up, up to the exceptions below; under all faults and a crash |
| `subs_crash` | `MCSubscriptions` / `Subs_crash.cfg` | violation | credited, then a crash, and no month |
| `claims` | `MCClaims` / `Claims.cfg` | pass | one tap pays, none after cancel or expiry, hashes match, no claim hangs |
| `metering` | `MCMetering` / `Metering.cfg` | pass | books balance, rations and the monthly ceiling hold, waiters are told after a restart |
| `deposits` | `MCDeposits` / `Deposits.cfg` | pass | nothing announced twice, no wei announced that has not arrived, the cursor always catches up, with two endpoints |
| `deposits_tail` | `MCDeposits` / `Deposits_tail.cfg` | violation | a transfer in the block where the cap was reached is skipped for good |
| `copytrading` | `MCCopyTrading` / `CopyTrading.cfg` | pass | a buy copied once, none skipped, a true ledger, fills within the cap, up to the named exceptions |
| `rewards` | `MCRewards` / `Rewards.cfg` | pass | the cap up to what was reported besides, rows folded once at a tier they did not raise, rollups that are sums, confirmed rows final; claims within what was earned, and covered by confirmed trades; nothing broadcast handed back |
| `evm_twice` | `Trades` / `Evm_twice.cfg` | violation | one EVM swap recorded and rolled up twice |
| `sessions` | `MCSessions` / `Sessions.cfg` | pass | a nonce used once per copy, logouts honoured |
| `accounts` | `MCAccounts` / `Accounts.cfg` | pass | one account per wallet, wallets permanent |
| `wallet_kind` | `Accounts` / `Wallet_kind.cfg` | violation | an account with two Solana wallets |

Each violation run states what a comment or docstring says and the code does not
do; the findings in `PROJECT.json` quote them:

- `CreditedMeansGranted`: "it never takes the money and leaves the person without
  one" (`subscriptions.py:122`), against a crash between `_close_intent` and
  `extend`.  The RPC failures are switched off, so that nothing but the crash is
  needed.
- `NothingIsDropped`: "the remainder is picked up next cycle instead of being
  dropped" (`deposits.py:31`, `deposits.py:218`, and `sql/schema.sql:164`), against
  a cursor that moves to the block of the last log kept, and past the rest of it.
  One node, no failure, no rewind.
- `RecordedOnce`: "Idempotent on tx_signature" (`economics.rs:379`), against a
  look-up and an insert with nothing unique on the hash, and a failed look-up that
  counts as "absent".
- `OneWalletPerChain`: "at most one Solana + one EVM wallet per account"
  (`queries.go:198`, `account_handler.go:190`), against a check and an insert in two
  statements, and a failed check that counts as "none".

Type invariants are proved for every module; a run checks one only where it says
more than types (balances that never go negative).

**Bounds.**  Two taps are enough for every race between two calls of `pay`, and
the reconciler is a third actor.  Ages are counted up to the give-up age, so that
a row can be within the in-flight window or past it and given up, while its call
is anywhere; in `subs` a row is due at once and stale one tick later, in
`subs_crash` a row may also be too young to settle.  The chain has three blocks and
a window of none or one (`MaxScanBlocks`), which puts a transfer before, in and
after what the search sees.  The batch is one row, so that an older row can keep
a newer one out.  All four RPC failures may happen at any time, again and again.
The constraint `FirstPayer` uses that the taps are alike: one of them opens the
first row, the others pay from its wallet (which is where the search confuses two
payments, and what the safety properties have to stand) or from their own (which
the liveness properties are about); only the first row may lack its block and
only its transfer be reverted.  Claims uses three openings, which is what it takes
for a tap that read the row late, one that read it early and one that pays to
meet; `Cast` fixes which of the interchangeable links two of them open.
Metering uses two questions against a ration of one, so that the last credit is
fought over, a free month of one window and a paid month of two questions, one
chat that cannot be reached, and two crashes, so that the second can hit the
sweep.  Deposits uses three transfers in up to three blocks, a cap of one per
cycle and a node that returns two per query: a block may be fine, cut, or
refused, a range may be narrowed, and the cursor has to move through all of it in
several cycles, with one failure or rewind anywhere.  The two nodes lag
independently; the constraint `OneKind` explores native and token deposits one at
a time, since they share nothing but the blocks.  CopyTrading counts in halves of
a millionth and uses three blocks with a span of one (so a backlog is cut), a
fixed copy that just fits the day and is rounded, a proportional one that is
clamped and sized down, and up to two purchases of a block.  Rewards uses two
trades of up to 2 under a limit of 1, so that a trade can be too large, fit, or
be reported at another amount than it was checked for; three reports (two of one
trade, which may contradict each other), two records of one swap, and two claims
on three chains whose balances rise, fall by referrals, and fall under the
payer's minimum.  It is explored in three regions (`Instance`): the spending
counter; the ledger, with either both records or all three reports; and the
claims, beside one record of a swap.  The regions share what the module's comments
say and no more; that nothing goes wrong across them is what the proofs show,
which need no region.  The view `Present` leaves out `peers`, a history that no
property of the run is about.  Sessions uses one nonce with two sign-ins and three
requests: a logout, one that overtakes it and one that comes after.  Accounts uses
two Solana wallets, one EVM wallet, a Telegram account and two calls at a time.

Deadlock is checked for `copytrading`, whose watcher never stops, and is off in
the other runs: when every call has ended and every bound is reached, the system
may stop.

**Fairness.**  `Subscriptions!FairSpec` assumes that the watcher loop keeps
running (`main.py` restarts it every few seconds whatever a cycle raised), that
time passes, and that a node which is asked for a receipt again and again gives
one in the end (strong fairness of `RecSettle` and `RecNoReceipt`: a receipt that
fails for ever ends every cycle, so nothing could be promised); nothing is
assumed of the search, of the calls of `pay` or of the chain.  `Claims!FairSpec`
assumes the same of the expiry sweep.  `Metering!FairSpec` assumes that a stopped
process is started again and gets through its start.  `Deposits!FairSpec` assumes
that the loop goes round and that nodes catch up.  The other modules state safety
only.

**Exceptions stated in the properties.**  Each is behaviour of the code that a
reader may want to know of; TLC finds a counterexample as soon as one is left
out.

- `LostPaymentIsCredited` (`GivenUpBlind`, `Crowded`): a row that
  `_give_up_if_stale` abandons on a search made before the transfer was mined; a
  row whose `eth_blockNumber` failed and that lost its hash (`subscriptions.py:223`
  says "a missing block only widens the later search", but `_find_lost_payment`
  returns at once); a stale row whose search failed at an RPC call
  (`subscriptions.py:330`, `:340`), which is given up like one that has no payment;
  a row whose transfer is older than the window of 5000 blocks (`:334`); and, as in
  `UnsentIsGivenUp`, a row that a batch of older rows, open for ever, crowds out.
- `WaitersAreTold` speaks of the last stop, since a stop during the sweep loses
  the rows already deleted; when the sweep's DELETE fails (`chat.py:523`) nobody is
  told, and the row waits for the next start.
- `NoPhantomDeposit`: `deposits.py:74` says that every reading carries the height it
  was taken at, but height and balance are two calls, and `evm.rpc` may send them
  to two endpoints.  A balance filed under a later block than it was read at,
  followed by the true one, is announced as a deposit.  The property holds when
  the heights are right, with any number of endpoints, and when one endpoint
  answers.
- `SkipsAreExplained` (proved, not run): what the cursor passes unannounced is in
  a refused block, in the tail of a cut block, or in a block that an endpoint
  answered for without having it, since the tip and the logs are two calls as
  well.
- `CapHoldsUpToReports`: the day may go over its limit by what other trades
  reported since the check, checked or not, and by what the trade reported beyond
  the amount it was checked for.  The comments promise more: "two concurrent
  /commit calls cannot interleave to skip the cap" (`queries.go:556`; they skip no
  amount, but nothing compares the total they leave with the cap), "the hard-stop
  happens here" (`spending_handler.go:121`), and "the cap is enforced on
  actually-broadcast transactions" (`actions.rs:1171`), while `create_transaction`
  asks for no check and takes `est_usd` from its request.  A trade without a price
  is not checked at all.
- `RecordedTwiceOnlyTogether` (proved, not run): a swap is recorded twice only by
  calls that overlapped or one whose look-up failed; `evm_twice` shows the case.
- `WalletUpToOverlap`: a wallet without an account has one balance for all
  chains but a lock per chain.
- `OneSignInPerCopy`: a SET applied but not answered leaves a nonce in Redis and
  in the map; each copy signs in once.
- `LogoutHolds`, `SessionHonoursLogout`: a failed check is open at the gateway,
  and a revocation that only reached a map is not looked up while Redis answers.
- `GatewayRemembers`: a check that missed the cache before the logout may put an
  entry of one hour in the place of the one that lasts.
- `OneAccountPerWallet`: failed queries and overlapping calls, as the history
  variables record them.  `OneWalletOfAKind` (proved, not run) says the same of the
  wallets of an account; `wallet_kind` shows the case.
- `CopiedOnce`, `NothingSkipped`, `LedgerTrue`: blocks scanned again after a
  failure, a restart or a lower head; a Sushi purchase that succeeds after Relay
  was asked; a backlog longer than the span; a fill whose record fails.
- `RecordedWithinCap`: a copy is rounded to six decimals, upwards too, whether it
  fitted the cap (`copy_engine.py:67`) or was sized down to it (`:65`).

Further behaviour met while modelling, without a property of its own: two taps
that both read `in_flight` before either opens its row both pay, though the
schema says "a scope with a payment already in flight cannot start another"
(`sql/schema.sql:404`); the search for a lost payment may take another payment of
the same wallet and amount (`subscriptions.py:348`); a claim whose transfer
failed is refused as expired when its link is opened again, though
`handlers/claim.py:10` says the same link still works; a refund that lands after
the window rolled turns a free question into a purchased credit; a cashback
claim of $5.00 to $5.10 passes the chat service's minimum and its net amount is
refused by the Solana service's (`actions.rs:1207`), every time;
`SetPrimaryIdentity` is documented as repointing the account's wallet
(`queries.go:213`) and does not; `schema.sql:94` of the auth service does not
list the identity type that `HandleSetTwitter` inserts.

## 4. Proofs

All constants are arbitrary, subject to the named assumptions in the modules
(finiteness of the set of taps, natural-number ages and allowances, disjoint
kinds of names, distinct `None`).

*Subscriptions.*  `IInv` is the type invariant with `CursorOK` (the reconciler has
the row and the hash it needs), `KeysOK` (hashes are unique and a row has one
exactly when it was attached), `HashesOK` (whatever is used as a hash was
broadcast, and its row was written before) and `CreditsOK` (a credited row's
transfer succeeded, and whoever is about to grant or has granted a month for a
transfer has a credited row under its hash).  `OneMonthPerTransfer` alone is not
inductive: that nobody else will grant a second month follows only because
closing a row needs it open while a grant leaves it credited, and because two
rows never share a hash.  From it follow the invariants `OneMonthPerTransfer` and
`EveryTransferIsRecorded`, the action properties `CreditedIsFinal` and
`RevivedOnlyForATransfer`, and the refinement `Spec => Promise!Spec`.

*Claims.*  `IInv` adds `LockOK`: whoever pays, and whoever was told that the money
stays, has a row that is no longer pending, and nothing makes a row pending
again.  With it the guarded UPDATE of `take` admits one payer, even though
`_finish` and `mark_failed` write without a guard.

*Metering.*  `IInv` adds `CeilingsOK`: allowances read earlier, and the ration used
in every earlier window, are within the ceilings.  The books are proved scope by
scope (`ScopeOK`, `RolledOK`), one lemma per SQL statement; `MeterTypes` includes
that `paid` and `free_used` never become negative, which is where the guard of
`spend` is needed.

*Deposits.*  `IInv` adds `BatchOK`: what a cycle is about to announce is claimed,
remembered and untold.  `ScanInv` adds `ChainOK` (logs come in the order of their
blocks) and `ScanOK` (the range starts behind the cursor and every log in it is
accounted for, first by the batch, then by the table).  That the cap cuts only
tails rests on the lemma that it keeps a front of the logs found, which needs the
theorems on finite cardinalities.  `DepositsAreReal` is about native balances,
which go up and down: that what was announced has arrived is inductive only
together with when it had arrived.  `NativeInv` therefore says that there is a
function `g` from blocks to amounts, non-decreasing and rising at least as much
as the balance between any two blocks, and a block `r` such that the recorded
balance is the one after `r` and what was announced is at most `g[r]`; the same
for the reading under way and a block `u` not before `r`.  `r <= u` is what the
height guard of `check_native` gives when readings are at their heights, and what
a node that never goes back gives when it is the only one; `Trust` is either, and
once lost never returns (`TrustKept`).  All of it is for any number of nodes.

*CopyTrading.*  `OpenInv` carries `CopiedOnce`: a user has no copy yet of a block
that the watcher may still reach without a setback.  `CapInv` carries
`RecordedWithinCap`: a purchase under way fits the cap on top of what has been
recorded since its check, because nobody else records and time only takes fills
away; the arithmetic of rounding is in lemmas of its own.

*Trades.*  `CapInv` strengthens the cap with the room that a checked trade has left
before its commit, and says that a trade is counted once.  `FoldInv` says that only the call that confirmed a row is
finalizing it and has not folded it yet, `TierInv` that a percentage read is no
higher than the pooled volume gives, which only grows, and `PeerInv` that any two
record calls that can still insert, or have, saw each other.  `RollInv` adds to
`RollupIsSum` that the rows folded are finitely many.  A sum over a set is the
number of its units (`Totals`), so that the library's facts on cardinalities
replace the induction that a fold would need: an element more adds its amount
(`TotalAdd`), a part adds up to no more than the whole (`TotalOfPart`), and the
sum depends on the amounts of its elements only (`TotalSame`).

*Cashback.*  `ReservedWithinEarned` is not inductive: a reservation adds what its
call read some steps before.  `CashInv` says what those readings are still worth.
`LockInv`: two calls between lock and commit are about different balances.
`ReadInv`: what a call for the account has read is within the peak, and the
claims it added up are at least those that stand, because only the holder of the
lock reserves and everybody else can only release.  `WalletInv`, for the wallet
without an account, where the lock does not exclude: the claims that stand exceed
those added up by no more than what was reserved since.  `RowInv` ties the row
and the transfer to the point of the call, and gives `PaidIsNeverReleased`.
`PeakInv` keeps the histories above the balances.

*Rewards.*  Under `AnyBalance` (a balance can be any amount, as rollups are),
`RewardsInv` joins the two invariants by `JoinInv`:
the balance of a chain is its rollup's and, where referrals do not count, has
never been higher.  With it the composition implements both parts
(`RewardsImplementsBoth`), and `ClaimsAreCovered` holds (`EveryClaimIsCovered`):
what an account has claimed on an EVM chain, paid or under way, is at most the
cashback of its confirmed trades there, each counted once.  For Solana there is
no such theorem, because referral cashback may fall after it was claimed;
`ReservedWithinEarned` is what holds there.

*Sessions.*  `NonceInv` follows the copies of a nonce.  `RevocationInv` has three
parts: where a token's calls can be (`StageInv`), that an answered logout of a
valid token is recorded in Redis, in a map or in a cache (`RecordInv`), and what
a request that came after it has met (`MetInv`).

*Accounts.*  `AccountInv`: as long as a wallet is undisturbed, without an identity
it has signed in to nothing, its account is empty and nobody is about to add to
it; with one it has signed in to its owner only.  `KindInv` covers links between
their check and their insert, `PrimaryInv` gives `PrimaryKept`, which is proved
and not run.

Only model-checked: the liveness properties, since the prover does not handle
fairness (`LostPaymentIsCredited`, `UnsentIsGivenUp`, `NeverHangsForEver`,
`WaitersAreTold`, `CursorCatchesUp`), and what the violation
runs show.  Every
invariant and action property that a passing run checks is proved.  Proved and not
run are `SkipsAreExplained`, `RecordedTwiceOnlyTogether`, `OneWalletOfAKind` and
`PrimaryKept`: the first three say what is left of the promises that the violation
runs refute.

## 5. Not modelled, and why

The share of the repository's lines that the modules stand for is small and will
stay so.  Most of its 81 000 lines are prompts, schemas and calls of language
models (`chat-service-py`), read-only queries and formatting
(`defi-query-service`, `market_data.py`), crawlers (`knowledge-ingestion-service`),
clients of on-chain protocols that build a transaction and keep nothing
(`actions.rs` and the plugins), and a user interface: code whose correctness is
what an external service means by its answer, not an order of state changes.

Within reach and left out:

- the chat service's cost cap (checked before and charged after a model call) and
  its session store;
- the gateway's rate limits and the admin login guard: counters whose windows
  are all there is to say of them;
- `HandleSetTwitter`, the Telegram deep-link tokens and account profiles;
- wallets that people switch in the middle of a deposit scan;
- perps deposits (`lighter.py`), launches and alerts of the bot.

Composition left open: `Accounts` meets `Rewards` in `v_wallet_account`.  `Trades`
and `Cashback` are about one account and one wallet, whose linking is free to
happen at any moment; that a wallet has one account is proved in `Accounts` and
not carried over.
