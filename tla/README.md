# Formal models of DAOF-CPA

DAOF-CPA is a gateway in front of LLM providers: users top up a balance, buy
subscriptions, and spend both on proxied requests. This directory holds TLA+
models of its server, the TLC runs that check them and TLAPS proofs about them.
Everything is translated from the Go source; file and line of each definition
are in `PROJECT.json` (`map`).

## Inventory

| Component | State | Operations | Hard behaviour | What makes it correct |
|---|---|---|---|---|
| Top-up orders and payment webhooks (`controller/topup*.go`, `payment_*.go`) | order rows, webhook receipts, refund rows | checkout, callback, manual confirmation, refund, expiry | callbacks repeated, reordered, racing with admins and the sweep; crashes between two commits | each payment is credited exactly once; refunds add up |
| Balance (`controller/user.go`, `proxy/balance_consume.go`) | `quota`, `paid_quota`, daily counters | credit, charge, adjust | a dozen writers of one column | own money is covered by the balance; no charge beyond it |
| Text and media billing (`proxy/text_billing.go`, `media_billing.go`) | one turn or reservation each | settle, reserve, release | the answer is delivered before the charge; streams break | each delivered turn is charged once |
| Billing ledger (`database/billing_helper.go`, `controller/billing_reconcile.go`) | append-only entries, pending entries | write, reconcile | reconcile races with itself | a pending entry is settled once |
| Subscription engine (`proxy/subscription_*.go`) | subscriptions, windows, shared pools, a cache | decide, consume, reset, expire | decision and consumption are apart; windows roll over between them | no window beyond its limit |
| Purchase, grant, refund of subscriptions (`controller/subscription_*.go`) | subscriptions, purchases | buy, grant, refund, reset | buys race with refunds of the money they use | refunded money keeps no subscription |
| Coupons (`controller/coupon.go`) | coupons, uses | lock and apply, revoke | the last use is taken twice | uses never exceed the limit |
| Referral rewards (`database/referral_reward.go`) | rewards | reward a charge | triggered inside other transactions | rewarded once, on paid spend only |
| Channel circuit (`proxy/channel_circuit.go`) | counters and a pointer per channel, all atomics | check, success, failure | no lock: late results meet a newer state | a taken probe slot has a request that will report |
| Distributed lock (`database/distributed_lock_helper.go`) | a lock row with an owner, which is a process, and an expiry | acquire, renew, release | expiry against a working holder; a holder that dies | one holder until a lock expires; never held for ever |
| Usage import (`controller/cliproxy_usage_sync.go`, `upstream_cost.go`) | a queue at the upstream that is popped; records, attributions, estimates | pop, store, match; edit an account's cost | what is popped cannot be fetched again; a batch fails for one record; edits meet matching | a popped record is stored or fails alone; records and entries agree; estimates follow the account |
| Email queue (`proxy/email_queue.go`) | bounded queue, deduplication and rate maps | enqueue, send | full queue, retries | what is refused can be asked again |
| Accounts: reset, verification, login, sessions (`controller/email_*.go`, `database/session_helper.go`) | tokens, sessions, password hash | request, reset, login, revoke | requests overlap | a reset ends the sessions of the old password |
| Packages, quota plans (`controller/package_admin.go`, `quota_plan.go`) | the catalogue | create, edit, delete | admins edit while users buy | what is sold is on sale, complete and above its cost |
| Accounts of a provider (`controller/oauth.go`, `user_oauth_identities.go`) | accounts, identity rows, tickets in memory | callback, register, link, unlink, delete | tickets are replayed, links take no lock | what is presented opens one account; nobody is locked out |
| Access tokens and the key cache (`controller/token.go`, `proxy/cache.go`) | keys, three maps in memory | create, change, delete, synchronise, refresh, evict | synchronisations and refreshes overlap | exactly the good keys are let in |
| Billing rules and settings (`proxy/billing_rules.go`, `controller/sysconfig.go`) | revisions, cancellations, rows in force, a cache | publish, schedule, cancel, activate, save a page | cron, admins, stale pages and stale snapshots | what is canceled is never charged by; the latest due comes into force |
| WebSocket bridge (`proxy/responses_websocket.go`) | slots per user; per session two pumps and what they share | handshake, dial, pump, book a turn, close | two goroutines and two peers, any of which ends first | a slot per bridge; each delivered answer booked, and charged once |
| Notifications, the rest of moderation, credit pools, middleware, web client | see `PROJECT.json` | | | not modelled, with reasons there |

Components meet in the database. Payments, purchases, charges and admin
adjustments all write the user's `quota`; each does it inside one transaction.
A callback runs in its own goroutine; the expiry sweep and the other periodic
jobs run in the cron goroutine; the admin's handlers run beside both. Accounts
are opened by an address (`EmailAccounts`) or a provider (`OAuthAccounts`), and let
in to the gateway by a key (`AuthCache`); a request then passes the subscription
engine (`SubscriptionQuota`) and the breaker of a channel (`ChannelCircuit`), and is
paid from a subscription or the balance (`Wallet`). Money arrives through `Topup`
and becomes subscriptions in `Store`.

The server is built with one database, SQLite in WAL mode (`database/sqlite.go`),
with up to 25 connections. It has one writer at a time. A transaction is one step
of a model: it takes effect as a whole, or fails, also when its first write finds
that what it read has changed (`SQLITE_BUSY_SNAPSHOT`); a handler that reads
before its transaction is cut at that point. Comments in the code about row locks of
PostgreSQL describe no build of this repository.

## Plan

Done, in this order:

1. **Top-up**: `TopupMoney`, `TopupLedger` (the promise), `Topup` (the handlers at
   the grain of their database steps), `TopupProofs`, which holds its proofs. So do
   the other modules named `...Proofs`, each for the module it is named after, but for
   `ChargingProofs` (SubscriptionQuota, BillingRules) and `GatewayProofs`
   (ChannelCircuit, ResponsesBridge, UsageSync). Where one module proves about
   several components, the later ones name their specification and its parts after
   themselves: `RulesSpec`, `BridgeSpec`, `UsageSpec`.
2. **Wallet**: `quota` and `paid_quota`, each writer one action, the admin's form two.
3. **ChannelCircuit**: the breaker at the grain of its atomics.
4. **SubscriptionQuota**: the engine's decision, the counters, the cache. Its
   outcomes are the choices of `Wallet`: `CoverTurn` (a subscription took the
   request), `ChargeTurn` and `DeferTurn`.
5. **Store**: packages, plans, coupons, purchases, gifts. Its purchases are those of
   `Wallet`, where a package is a price.
6. **EmailAccounts**, **OAuthAccounts**, **AuthCache**.
7. **BillingRules**: what `SubscriptionQuota` charges by, there the constant `Use`.
8. **ResponsesBridge**: sessions of several requests. A booked turn is charged (a
   `ChargeTurn` or `CoverTurn` of `Wallet`) or pending (a `DeferTurn`), or has no entry.
9. **UsageSync**: the import of usage with its lock. Its log entries are those the
   turns of `Wallet` write.

Left: the queue of mails with its deduplication, and the dispatch of notifications.

Each module states a type invariant. Where a proof module proves it, the runs leave
it out, as they do some properties that are proved: they spend their time on what could
be wrong and on what is out of the prover's reach.

## Top-up

`Topup` has one action per database step of a handler. `status`, `refunded`,
`receipts`, `manualRefs` and `refunds` are rows; `credits` counts the billing
entries of type topup of an order, so it stands for what was added to `quota`.
`checkout` is where the handler of `CreateTopup` is, `handler[w]` where the
handler of one callback is, with the event it read.

| Actions | Code |
|---|---|
| `PlaceOrder`, `ProviderAccepts`, `ProviderRejects`, `PersistPayInfo`, `PersistFault`, `MarkFailed`, `MarkFailedFault` | `CreateTopup` |
| `Deliver`, `DropDuplicate`, `RecordReceipt`, `MatchOrder`, `Finalize`, `FinalizeDuplicate`, `WebhookFault` | `ProcessPaymentWebhook` and `finalizePaidTopupTransaction` |
| `AdminMarkTopupPaid`, `AdminRefundTopup` | the admin's handlers; one transaction each |
| `ExpireStale` | `expireStaleTopupOrders` |
| `Pay`, `CanSend`, `Redeliver` | the payer and the gateway, external |
| `Crash` | the process stops; rows stay, handlers vanish |

The amounts are compared as "exact" or "off"; signatures, payload formats and notifications are left out. An
event whose signature, merchant or timestamp is wrong changes nothing but the
log of rejections and is left out too, as is epusdt's manual mode, in which no
callback is accepted: its orders are those that no callback reaches.

### Runs

| Run | Instance | Shows |
|---|---|---|
| `deliveries` | one order of 2 fen and 3 micro_usd at either gateway, 2 handlers, 2 signature stamps, 2 references, 1 error, 1 crash, all fairness | `CreditedOnce`, `YifutAckIsSettled`, `RefundRowsSum`, `KeepsLedger`, `PaymentSettles`, `OrderLeavesCreated` |
| `retry` | one order | a finding |

Orders share only the uniqueness of references and the sweep, both of which only
refuse or close, so one order is enough, at either gateway (`provider` is chosen at
the start); the proofs are for any number. Two handlers show every race of two
deliveries, and one error and one crash each failure at every step. 2 fen for 3
micro_usd is a pair in which a partial share is rounded. The runs allow deadlock
(`CHECK_DEADLOCK FALSE`): once the orders are settled and the references used,
nothing is left to happen.

Fairness. A running handler ends: its only wait, the gateway call, has a 12 s
timeout. An unacknowledged callback is sent again, which is what the code relies
on when it answers 500, and the server starts a goroutine per request, so a
delivery is not starved (strong fairness only compensates for the bound on
handlers). The sweep is run on each tick of the cron; it is a hypothesis of
`OrderLeavesCreated` only, since a payment must not need the sweep to be settled.

### Finding

`retry` (`RetryCredits`): the receipt is committed before the credit. An error or a crash in
between answers 500 "so the gateway retries", and the retry is dropped as a
duplicate: paid, acknowledged, never credited.

Also met, in the model and without a run of their own:

- all events of an epusdt payment share one nonce
  (`payment_provider_epusdt.go:538`), so an intermediate event makes the payment
  itself a duplicate;
- the checkout writes `failed` unconditionally and can overwrite a confirmation
  made during its gateway call (`topup.go:201`);
- zero rows in the created -> paid update are taken for "credited by another
  callback" (`payment_webhook.go:224`); they are also what an expired order
  gives, whose payment is then acknowledged as a duplicate;
- the interface says that a failed event fails the order
  (`payment_provider.go:130`); the handler only acknowledges it
  (`payment_webhook.go:102`);
- the sweep writes `canceled`, a status the schema's comments do not list (they
  say `failed` for a timeout).

### Proofs

`TopupProofs` proves, for every set of orders, amounts, handlers, stamps and
references and for every bound on errors and crashes, the theorems listed in
`PROJECT.json`: type correctness, `CreditedOnce`, `CreditHasEvidence`,
`RefundShareExact`, `RefundRowsSum`, `YifutAckIsSettled`, `ClosedStaysClosed` (a
closed order takes no part in anything any more; no run repeats it), and that `Topup`
implements `TopupLedger`. The only assumption is `TopupAssumption`: the types of
the constants, and that an order has a positive price and a positive amount, which
`CreateTopup` checks.

The argument is one inductive invariant, `IInv`. `CreditedOnce` alone is not
inductive: that `Finalize` meets a `created` order does not say the order has no
credit; `OrderInv` does. `CreditHasEvidence` needs to know what a handler has
established when it reaches the transaction (`HandlerInv`: its nonce is recorded
and the amount compared). `YifutAckIsSettled` needs that a recorded nonce of a
payment is either settled or in the hands of a handler (`ReceiptInv`). The proof
that a step keeps `IInv` has a lemma per group of actions. `RefundShareExact` is
the telescoping of the prorated totals.

`RefundRowsSum` is about a sum over a set of any size, a recursive function. The proof
counts instead: a row of n fen stands for n units, and the number of units of a finite
set of rows satisfies the recursion (`CountIsASum`), whose solution is unique, as two
solutions would differ on a smallest subset (`SumIsUnique`, with the library's theorem
that the strict subsets of finite sets are well founded). Then one more row counts for
what it says (`OneMoreRow`), and `BookInv` is inductive beside `IInv`: finitely many
rows, none of which takes back less than nothing, whose units are what the order says.
`Refundable`, which refuses a negative share, and the unique reference of a row are
what a step of it needs.

Only model-checked: the liveness properties; the finding.

## Channel circuit and route selection

Each channel has a breaker: `consecutiveFailures`, a pointer to the open state,
and the flag `halfOpenInflight`, the probe slot. There is no lock. Each atomic
load, store, `Add`, `Swap` and `CompareAndSwap` is one action of
`ChannelCircuit`; `at[r]` is the next one of goroutine `r`. A request is in the
model because a breaker is only as good as the way it is used: what a check
claims, which report an answer leads to, and when there is none.

| Actions | Code |
|---|---|
| `StartChecking`, `Select`, `Exhausted`, `TryAgain`, `Leave` | the retry loops of `ChatCompletionProxyHandler` and of the media handlers |
| `LookRefused`, `LookClosed`, `LookHalfOpen`, `Claim` | `IsChannelCircuitOpen`, after the rate limit and the unhealthy mark |
| `Answer` (`FirstStep`, `TriesAgain`, `Mark`) | `classifyUpstreamStatus` and the `switch` over its result in each handler |
| `ZeroFailures`, `ClearState`, `ReleaseProbe` | `MarkChannelSuccess`, `ForceCloseChannelCircuit`; the last one alone is `releaseChannelProbe` |
| `AddFailure`, `SwapProbe`, `Inspect` | `MarkChannelFailure` |
| `OpenCircuit`, `LoadCooldown`, `Reopen` | `openCircuit`, `extendCircuitOpen` |
| `Expire`, `LimitEnds`, `MarkEnds` | time |
| `StartAt` | a retrieval of a video job or a listing (reports without a check), an admin's reset |

`held[r]` records which slots a request claimed and may still report on, `abandoned`
those that nobody is going to report on; no guard reads them. Left out: weights (any admitted route may be selected), payloads, the
length of the backoff, the cap of five attempts (a request may give up after any
of them), and a restart of the process, which resets every breaker. The counter
of failures saturates at the threshold, which is all it is compared with. A
cooldown ends at any moment; with `Prompt` it does not end while some goroutine
is between two atomics, as a cooldown is at least a second. The run does without
this assumption.

### Runs

| Run | Instance | Shows |
|---|---|---|
| `breaker` | two text requests, a media request, a WebSocket handshake and a poll; two channels; two requests and one mark at a time; threshold 1, cooldown 1; 2,927,243 states | `ProbeIsRunning` |

Two channels are the least of which one is selected while the check took the slot of
the other. Requests of every kind meet in pairs: a probe and one whose result is late,
one that reports without having asked, one that asks and never reports. With threshold
1 each failure opens the breaker. A third request at once adds no new way to hold a
slot, as a slot is held by one and freed by any; the proof is for any number.

`ProbeIsRunning` excuses the slots in `abandoned`, which only three steps fill: a
selection leaves the slots of the other routes behind (`Select`), so does a check
that ends with no route the request can use (`Exhausted`), and some answers are never
reported (`NeverReports`). A slot leaves `abandoned` when a report on its channel frees
it. Everything else that could lose a slot is what the property is about: a late
report, an overlapping retry, an admin's reset, an answer of a kind that should
release it.

Liveness is not claimed of the breaker: a streaming call has no timeout
(`stream.go:425-428`), so a probe may hold its slot for ever, and an abandoned one
may stay. The run needs no fairness.

### Also met

All of this is in the model and without a run of its own:

- the filter asks the breaker of every route (`stream.go:279`) and so claims every
  half-open slot, then selects one route. The slots of the others stay taken, and
  those channels are refused until an admin resets them or a late result happens to
  free them (`abandoned`);
- `MarkChannelFailure` takes whoever finds the slot taken for the probe
  (`channel_circuit.go:166`): a failure of a request sent before the breaker opened
  frees the slot of the running probe and lets a second one in;
- the media handlers report nothing on a rate limit or a configuration error
  (`image_upstream.go:157`), where the text handler releases the probe
  (`stream.go:479`, `502`); the WebSocket handshake checks the breaker
  (`responses_websocket.go:349`) and never reports. Both keep the slot;
- the state is loaded before the slot is claimed (`channel_circuit.go:120`,
  `133`): a request may be admitted into a breaker that has just been reopened;
- a failure that meets an open breaker "should not happen"
  (`channel_circuit.go:180`) does, when two requests fail together: the second
  doubles the cooldown;
- a success clears the state before the slot (`143`-`144`): one failure in
  between reopens the breaker, whatever the threshold;
- with an initial cooldown above the maximum, the first opening is longer than
  the maximum: only the doubling is capped. `CooldownWithinCap` is stated for
  the larger of the two.

### Proofs

`GatewayProofs` proves, for every number of channels and requests of
every kind, every threshold and every pair of cooldowns, type correctness and
`CooldownWithinCap`. The second is not inductive: `Reopen` stores a value derived
from a load several steps earlier, when the breaker may have been another, so
`Inv` adds that a loaded cooldown reaches one of the two durations (`LoadedInv`);
`BackedOffBounds` does the rest.

`ProbeIsRunningHolds` is for any channels and requests of every kind. The invariant,
`ProbeInv`, says where a request is that holds slots: checking, or at the channel it
called, on which it either reports or gives an answer that is never reported
(`ReportsOrNever`), and then the slot is abandoned in that very step. That a cooldown stays within its two durations holds by the shape of
`BackedOff`; it is proved, and no run repeats it.

## Wallet

A dozen handlers write the balance of a user. Each does so in one transaction
that locks the user's row (or updates it conditionally); each is one action of
`Wallet`. The admin's form is two: it reads the row when it begins (`BeginEdit`), and its
transaction reads it again, after others wrote. A request to the API has several steps
with other writers in between: it is admitted on what the balance was, answered,
and billed afterwards.

| Actions | Code |
|---|---|
| `Topup`, `BonusCredit`, `AdminRefundTopup` | `finalizePaidTopupTransaction`, `AdminMarkTopupPaid`, `AdminCreateOfflineTopup`; `applyReferralBonuses`; `AdminRefundTopup` |
| `BeginEdit`, `UpdateUser`; `BulkSet`, `BulkAdd`, `BulkSub` | `UpdateUser`; the modes of `BulkAdjustQuota` |
| `Purchase`, `AdminGrantSubscription`, `AdminRevokeGrantedSubscription`, `CancelSubscription`, `ExpireSubscription`, `AdminRefundSubscription` | the handlers of those names, the cron |
| `StartTurn` | `gatewayRunPrecheck` |
| `CoverTurn`, `DeferTurn` | `CommitTextTurn`: a subscription takes the request, or an entry is left for an admin |
| `ChargeTurn`, `InsufficientTurn`, `ChargeFault` | `commitTextBalanceTurn`, `DeductMediaBalanceAndLog` |
| `AdminReconcileBillingEntry` | the handler of that name |

`quota`, `paid` and the columns of a subscription are rows; `forms` are the edits that
have read the user's row and not yet written it. `Spend` is
what every charge shares: the conditional update and
`ApplyReferralPaidSpendRewardTx`, in which `paid_quota` is a floor (other credit
is spent first), what goes below it counts as spending of own money, and the
referrer gets a share of that, rounded down. `topped`, `orders`, `attributed`,
`rewards`, `lowest` and `taken` are sums over entries and history; `orders` is
what may still be refunded. `Topup` models the rows of the orders themselves; here
an order is an amount.

Choices of a step stand for what the model leaves out: `rewarding` for the reward
window and the referrer's status, `written` for three failed attempts to write an
entry, the outcome of a request for the subscription's limits and the user's
setting for spending the balance. A subscription taken from a cache is taken as
current. Left out: the counters of the balance limit (`balance_consume.go`), used
quota of sub-tokens, requests that cost nothing or are never measured, the cap of
one reconciliation, stacking limits, the billing entries but for what they settle (each
writer adds the entry of its own amount in its transaction), and a commit whose outcome the database does not tell.

### Runs

| Run | Instance | Shows |
|---|---|---|
| `wallet` | alice, invited by bob; two subscriptions, one request of cost 2, prices 0 and 1, amounts 1, a reward of one half; alice tops up 2 at most; an admin sets -1 or 1; one form at a time; 1,681,552 states | `PaidIsBacked`, `DebtHasNoPlan`, `RewardsBacked`, `ChargedOnce` |

`MaxQuota` and `MaxTopped` keep the balances finite: a credit that would exceed
them is not made. Two units are enough to be split between own money and bonus, to
be spent in part, and to be taken back after they were spent, which makes a debt.
A reward of one half of one unit is rounded to nothing, of two it is one. Two
subscriptions can be of one purchase, one of them refunded. Users meet only in the
reward, so one pair shows every interaction.

`PaidIsBacked` compares `paid_quota` with the balance less the lowest balance the
user ever had. It is about every writer that may lower a balance, and fails if the form
decides by the row it was opened with (the protection must be computed in the
transaction: a top-up may have come in between). The simpler `paid <= quota` does not hold, and need not: a refund
that reclaims more than the balance leaves a debt, and a later top-up counts as
own money in full although part of it only fills the hole.

### Also met

All of this is in the model and without a run of its own:

- `billing_schema.go:11` says that an entry carries the balance after the event. The
  entries of covered and deferred requests carry the balance of the request's start
  (`text_billing.go:588`, `image_billing.go:79`). The authors read the row again in
  two places for this reason (`text_billing.go:254`, `responses_websocket.go:770`)
  and not in the others;
- a subscription of a free package is neither granted nor refundable
  (`subscription_admin.go` refuses a price of 0) and blocks every reclaim for
  good (`topup_admin.go:513`); the comment above the guard excludes granted
  subscriptions for exactly this reason. `DebtHasNoPlan` is stated for
  subscriptions with a price;
- the admin's form sends an absolute balance; charges made while it was open are
  undone, with an entry that says so;
- `add` in `BulkAdjustQuota` clamps at 0: a small amount added to a large debt
  forgives the debt;
- a text request whose charge transaction fails leaves a log line and no entry
  (`text_billing.go:787`); a media request leaves a pending entry
  (`media_billing.go:220`);
- a referrer keeps the reward of money that is refunded later; `RewardsBacked` is
  therefore stated against all top-ups, not against what was kept;
- no code sets the status `paused` that refunds and revocations accept.

### Proofs

`WalletProofs` proves the properties of the run and the type invariant for every set of users,
subscriptions and requests, every referral relation, all amounts, prices and
costs, every rate and every bound. The only assumption is `WalletAssumption`:
types of the constants, finitely many subscription rows (a purchase counts the
ones it creates), and a rate of at most one.

The inductive invariant `IInv` adds to the properties what they rest on.
`PaidIsBacked` needs that `lowest` is a lower bound of the balance and not above
0 (`FloorInv`). `RewardsBacked` needs that what was counted as own spending and
what `paid_quota` still holds are together within the top-ups (`RewardInv`): each
unit of own money is counted once, because a refund to the balance does not
restore `paid_quota`; `SpendSplits`, `RewardWithinRate` and `RatesAdd` do the
arithmetic, with the rounding. `ChargedOnce` needs where a charge can have come
from (`TurnInv`). `DebtHasNoPlan` is inductive with the rest: charges and purchases
keep every balance at 0 or above (`SpendKeepsMoney`), adjustments do not create a
debt because `paid_quota` is not negative, and a reclaim finds no subscription
that counts. The steps are grouped by how money moves: `SpendKeepsMoney`,
`MoveKeepsMoney`, `MoneyStays`, one lemma per action above them. The forms are typed
apart (`FormsKept`): no step believes what a form remembers.

## Subscription quota

Who pays for a request of one user. `Decide` runs when the request comes in
(precheck, writes nothing) and again when its answer has been delivered (commit),
asks the user's subscriptions one by one, and each of them for all its plans at
once. `step[t]` is where request `t` is. The subscriptions come from a cache that
one request fills while others wait.

| Actions | Code |
|---|---|
| `StartTurn`, `PrecheckSub`, `PrecheckBalance`, `PrecheckFault` | `gatewayRunPrecheck`, `Decide` |
| `UpstreamFails`, `Served` | the answer, and what `CommitTextTurn` does before it decides: the log row, which may fail |
| `HitCache`, `LoadRead`, `LoadFill`, `LoadFault`, `WaitForLoad`, `Follow` | `GetUserActiveSubscriptions` |
| `NextSub`, `CommitSub`, `CommitFault`, `CommitFalls` (`Skips`, `Takes`, `HardBlocks`, `Exceeds`) | `trySharedQuota`, `atomicConsumeMany`, `consumePlanInTx` |
| `BalanceTurn`, `BalanceFault`, `DeferTurn`, `Account` | `commitTextBalanceTurn`, `CommitTextTurn` |
| `WindowEnds`, `AdminResetSubscriptionUsage`, `Begin`, `Stop`, `ExpireSubscription`, `SubEnds`, `InvalidateUserSubscriptionCache`, `AgeCache` | time, admins, the cron, a purchase |
| `RecordRevenue`, `MonitorApiLogRevenueOrphans`, `ApiLogAges`, `Crash` | the goroutine that writes the revenue of an entry, and the job that finds what it left, in the log rows of the last hour |

Units, weights and the match of model names are the constants `Use`, `Estimate` and
`PlansOf`; which copy of the user a request holds is a choice (`optIn`), as the copy
may be any earlier version. A turn that costs nothing is decided all the same
(`text_billing.go:459-484`); one that no subscription takes ends `unbilled`. The job's
filter on the status of a log row (200 to 399) leaves out no entry: the commit decides
for such answers only.

Run `quota` (582,562 states): two requests, two subscriptions that share a plan with a window, the
second with a plan of its own that may go into debt, one fault or crash and one
move of an admin, a user, the cron or the clock. Two subscriptions that share one
plan are every way of sharing two snapshots with; two requests are a loader and a
waiter, and two writers of one counter. It shows `WithinLimit`, `PaidOnce`,
`FaultNeverCharges`, `EveryTurnSettles` and `EntriesEarn`. `EveryTurnSettles` starts
where a request asks for its subscriptions, before the upstream or after it, and ends
where it is forwarded or final; the upstream between the two may take for ever
(`stream.go:425-428`). `EntriesEarn` excuses the entries without a log row and those
whose row became older than an hour before the job ran. It may stop
(`CHECK_DEADLOCK FALSE`): the requests are settled and the moves are used up.

Fairness: a handler that runs goes on (weak fairness of each request's steps: no
step waits for anything but the load of another request), and the job that looks
for entries without revenue runs again and again. Nothing is assumed of new
requests, of the upstream, of the goroutine that writes the revenue, or of time.

`ChargingProofs` proves type correctness, `WithinLimit`, `PaidOnce` and
`FaultNeverCharges` for any subscriptions, plans, limits and requests. `WithinLimit`
is inductive with the types: the condition of the update repeats the comparison, so
no read before it matters. The two liveness properties are only model-checked.

Also met, in the model and without a run of their own:

- a plan with the strategy `overdraft` that the precheck finds used up lets the
  request go on to the balance (`subscription_engine.go:776`); the commit never
  refuses such a plan and takes the request from the subscription after all, and
  every later one (`:205-207` and `:908` say that the next request is stopped);
- a plan with the strategy `block` that is used up while the request is served falls
  back to the balance (`text_billing.go:564`), which `subscription_engine.go:71-73`
  forbids;
- the counter of the balance limit is moved in another transaction than the charge
  reads it for (`balance_consume.go:37-41`): concurrent requests pass it together;
- entries of rewards and grants have no revenue row although the schema says every
  entry has one (`api_log_revenue_schema.go:27`);
- a turn whose log row could not be written has no revenue and never gets one: the
  goroutine is not started (`text_billing.go:629`, `792`) and the job joins log rows;
  nor does an entry that the job first sees after an hour (`subscription_cron.go:152`);
- the answer is delivered before the charge: a charge that fails leaves an entry
  without money (`text_billing.go:694`).

## Store

Packages, quota plans and coupon templates are edited by admins; subscriptions and
coupons are created by purchases and gifts. A request is checked when it is
submitted (`PurchasePackage`, `AdminGrantSubscription`, `AdminGrantCoupon`,
`CouponGift`), against rows that change, and again in the transaction that creates
the rows (`BuyPlain`, `BuyWithCoupon`, `GiveSubscription`, `GiveCoupons`). An edit of a plan reads it
(`ReadQuotaPlan`) and writes it later (`UpdateQuotaPlan`).

| Actions | Code |
|---|---|
| `CreatePackage`, `UpdatePackage`, `DeletePackage` | `package_admin.go` |
| `CreateQuotaPlan`, `ReadQuotaPlan`, `UpdateQuotaPlan`, `DeleteQuotaPlan` | `quota_plan.go` |
| `AdminCreateCouponTemplate`, `AdminUpdateCouponTemplate`, `AdminDeleteCouponTemplate`, `AdminGrantCoupon`, `GiveCoupons`, `AdminRevokeCoupon`, `Lapse` | `coupon.go` |
| `PurchasePackage`, `BuyPlain`, `BuyWithCoupon`, `Refuse` | `PurchasePackage`, `purchaseAsInstant`, `lockAndApplyCoupon` |
| `AdminGrantSubscription`, `GiveSubscription`, `AdminRevokeGrantedSubscription` | `subscription_grant.go`, `subscription_admin.go` |
| `CancelSubscription`, `EndSub`, `ExpireSubscription`, `AdminRefundSubscription` | the user, time, the cron, the admin |
| `Register`, `Ban` | accounts, with the coupon a new one gets |

Left out: dates (a subscription has ended or not), notifications, audit rows, the
order of display, and the buyer's balance, which is in `Wallet`.

| Run | Instance | Shows |
|---|---|---|
| `store` | 1 user, 1 package, 1 plan, 1 template, 1 coupon, 2 subscriptions, 3 requests, 1 edit of the catalogue; 1,957,927 states | `CouponPaysOnce`, `LiveHasPackage` |

Three requests are two purchases and a batch of coupons, or two edits of a plan and a
purchase that is made of both; the catalogue may be empty or stocked at the start, and
one edit withdraws or reprices what is on sale, or puts it there. One user suffices,
as requests of the same user share all they would share with another's. The run may stop: rows and requests are used up.

`StoreProofs` proves both for any catalogue and any rows, and also that nobody has more
live copies of a package than its limit (`StackLimitKept`), that nothing is sold below
its floor (`NeverBelowCost`), that the
copies of a package have different numbers (`IndexUnique`), that a request for coupons gives one to each of its users or none (`BatchIsWhole`), and
that a row is created only while its package is on sale and its receiver active
(`CurrentWhenCreated`). The invariant adds what a request that is done has created
(`OriginInv`) and that a row not yet created carries no coupon (`FreshInv`). The limit of
copies needs a count before and after a step that creates several (`StackLimitKept`
is an action property; the lemmas about `Copies` do the counting).

Also met, in the model and without a run of their own:

- two overlapping edits of a plan leave a limit in money that is not the limit in
  its unit, which the schema calls the canonical one
  (`subscription_schema.go:31-32`);
- an edit of a package that races its deletion leaves links of a deleted package,
  and the plans in them can never be deleted;
- a gift's end is computed from the package read before the transaction
  (`subscription_grant.go:228`, `:318`), whose other fields are read again (`:309`);
- the purchase of a user who is banned meanwhile goes through, and is charged at the
  price read again, which the user may not have seen;
- a floor of 0 is "not configured, check skipped" in a comment
  (`subscription_schema.go:100`) and the price itself in the code;
- a coupon worth the whole price or more is used up and lowers nothing;
- refunds and cancellations give no coupon back; no code writes the status `paused`.

## Accounts by e-mail

`EmailAccounts`: a link that is mailed verifies an address, resets a password or sets
the first one. Each handler is cut between what it reads and the transaction it
writes in; the revocation of sessions after a new password is a step of its own, as
in the code. `uses`, `proven` and `entered` record what happened; no guard reads them.

| Actions | Code |
|---|---|
| `EmailSignup`, `SendInitialVerifyEmail`, `ResendUnverifiedSignupEmail` | `email_signup.go` |
| `BindEmail`, `IssueToken`, `OpenLink`, `VerifyEmail`, `UnbindEmail`, `Unbind` | `user_email.go` |
| `ForgotPassword`, `ResetPassword`, `RevokeSessionsForUser` | `email_password_reset.go`, `session_helper.go` |
| `RequestSetPassword`, `SetPassword` | `email_set_password.go` |
| `EmailLogin`, `CreateUserSession`, `EndSession`, `SignIn` | `email_login.go`, sessions, sign-in over a provider |
| `PutMyEmailLoginEnabled`, `Toggle` | the user's switch |
| `Expire`, `Fail` | time; an error at any step |

Run `emails` (967,896 states): two accounts of a provider and one that signs up, two
addresses, two links, two sessions, two requests. Two accounts suffice to want one
address, two links to replace each other, two sessions to be from before and after a
change. It shows `TokenUsedOnce` (two requests that have both read one link unconsumed),
`OnePasswordLink`, `VerifiedIsProven`, `PasswordLinksGoToProven` and
`StaleSessionsEnd`, and `EmailAccountsProofs` proves every one of them, and also that a
link to set a first password replaces none (`SetNeverOverwrites`) and that two accounts
never have one address (`OneAccountPerEmail`). The core of
the induction is `Shape`: rows know of each other (`Known`), links are complete
(`LinksComplete`), and a request in hand still holds what it read that cannot change
any more (`JobHolds`): a link's owner and address, and that its address was proven.

Left out: banned accounts, lock-outs and rate limits, which only refuse; the queue of
mails (a link may be opened at any time, or never).

Also met, in the model unless said otherwise:

- at most one live link per purpose is promised (`email_verification_schema.go:11-12`)
  and does not hold for links that verify: the public resend may come between the
  commit of the new account and its first link, which replaces nothing;
  `OnePasswordLink` is about the other two purposes;
- who signs up with an address alone can never verify it: the link needs a session
  (`main.go:569`, `VerifyEmailPage.jsx:46`), and a login needs a verified address,
  although `email_signup.go:12` says that the link is what makes login possible, so
  `ResendVerificationEmail` (`user_email.go:286`), which asks for a session of an
  account whose address is not verified, has nobody to run it and is no action here;
- a login that checked the old password may create its session after the revocation
  (`email_password_reset.go:297`); in the model that session counts as new;
- a failed revocation is only logged (`unrevoked` in `StaleSessionsEnd`);
- a second reset request within five minutes consumes the first link, and its own
  mail is dropped as a duplicate (`email_password_reset.go:197`; the queue is not in
  the model), and so do the other mails that share the deduplication;
- the slot of the deduplication is taken before the queue is found full
  (`email_queue.go:226`, not in the model);
- an unbinding that overtakes the issue of a link leaves a live link of an account
  without an address, and one that overtakes the switch leaves the login enabled;
  no handler compares a link's address with the account's present one;
- an unbinding does not look for another way to sign in, which
  `user_oauth_identities.go:10-14` says is always kept.

## Accounts of a provider

`OAuthAccounts`: the callback of a provider finds the account that owns the external
account, links it, or hands out a ticket with which an account is opened. What opens
accounts takes one lock (`registerMu`), links and unlinks do not. What was used is kept in
memory, by the hash of the string that was presented (`oauth.go:96-105`). The string is
base64, whose decoder skips line breaks (`utils/crypto.go:83`), so one ticket has many
strings: `TicketOf` says which ticket each decrypts to.

| Actions | Code |
|---|---|
| `OAuthCallback`, `Expire`, `Forget` | the callback that hands out a ticket, its time, the janitor of used strings |
| `CompleteProfile`, `CompleteRisk`, `MarkTicket`, `EmailSignup` | the three endpoints that open accounts, up to the lock |
| `Lock`, `CheckFree`, `CheckCap`, `CreateUser`, `Refuse` | what they do under it |
| `LinkCallback`, `LinkIdentity` | `finishOAuthLinkToExistingUser` |
| `UnlinkMyOAuthIdentity`, `Unlink` | the read of the account, the transaction |
| `EmailStep`, `DeleteUser`, `AdminPurgeUser`, `SetCap`, `Restart` | around them |

Run `oauth` (3,320,134 states): two accounts to open, an external account at each of
two providers, one ticket that may be sent as two strings and replayed, one phone number, two requests, a
limit of one account or none. Two requests are every race for a string, an external
account or the last place; two providers are the least an unlink can choose from.
It shows `StringOpensOnce`, `RegisteredOwns` and `LoginIsKept`; `OAuthAccountsProofs`
proves them, and also that no registration exceeds the limit of accounts (`CapKept`). Whoever has counted the accounts holds the lock
(`RoomIsLeft`); a string that opens or has opened an account is spent, which is
marked, or its ticket is too old (`TakenIsSpent`); an unlink that trusts its copy of the account is
right while that account is there.

Also met, in the model unless said otherwise:

- a ticket that is sent again in another spelling is not recognised as used. What keeps
  it from opening a second account is its identity, which the first account owns; after
  that account has unlinked it nothing does. `oauth.go:83-85` speaks of the ticket;
  `StringOpensOnce` is about what the mark covers, the string;
- used strings are forgotten at a restart, tickets are not: `StringOpensOnce` counts
  from the last start;
- a limit of accounts that cannot be read or decrypted is taken for none
  (`oauth.go:658-661`, `674-678`; the choice `readable` of `HasRoom`);
- two callbacks at once can give an account two identities of one provider: nothing
  but a read forbids it (`user_oauth_identities.go:239`);
- identities of a deleted or purged account stay (`purgeUserDependents` leaves them
  out): that external account is refused for ever, for login and for registration;
- an unlink reads phone number and address from a copy made when the request came in,
  and counts a phone number as a way to sign in although there is no login by phone;
  `LoginIsKept` takes the code's word for both.

## Token cache

`AuthCache`: the gateway only looks into three maps in memory. A change of an
account or a key ends in `SyncCacheConfig`, which reads both tables one after the
other and replaces the maps, or in `RefreshUserAuth`, which reads one account and puts
its keys right. Each read and each critical section is one action; a map is the set
of its keys, as every copy put into it is of an active account.

| Actions | Code |
|---|---|
| `Signup`, `UpdateUser`, `DeleteUser`, `Autoban`, `CreateToken`, `UpdateTokenSettings`, `DeleteToken`, `OtherSave` | the handlers up to the commit; the automatic ban of the moderation; any other save that synchronises |
| `ReadUsers`, `ReadTokens`, `Abort`, `Publish` | `SyncCacheConfig` |
| `EvictUserToken`, `AddUserToAuthCache`, `AuthLogout` | a single key |
| `RefreshUserAuth`, `ReadUser`, `GiveUp`, `ApplyRefresh` | `RefreshUserAuth` |
| `Restart` | `main`, which synchronises before it serves |

`behind` says which request has read of which account what is no longer so, and
`current` which accounts were last put right by one that was not behind; no guard
reads them. `CurrentIsExact` is what can be promised in between: the account's good
keys, and only those, are let in.

Run `authcache` (3,484,860 states): two accounts, a sub-key that either may create,
two requests, failing queries. Two requests are every pair of writers of the maps.
It shows `SubKeysAreLimited` and `CurrentIsExact`, both proved in `AuthCacheProofs`:
`userSubTokens` lists exactly the sub-keys with a limit (`Maps`), and a request that
is not behind knows what the tables say (`Reads`).

Also met, in the model unless said otherwise:

- a ban is to take effect at once (`user.go:638`). A refresh, which every settled
  request of that user ends in, may have read the account before the ban and writes
  its keys back after the ban's synchronisation and eviction; an older synchronisation
  may publish last; or a failing query aborts the synchronisation, after which only
  the main key is evicted. Nothing repairs it later: the synchronisation every
  60s that `cache.go:142` speaks of is never started;
- `RefreshUserAuth` returns when the account is deleted, and leaves its keys;
- a logout evicts the main key, and the next refresh or synchronisation lets it in
  again;
- the gateway's second look at the status (`stream_handler_helpers.go:58`) never fires,
  as only active accounts are put into the map;
- the used quota of a sub-key is counted in a copy that a synchronisation replaces
  (`text_billing.go:681`): concurrent charges may be lost or counted twice (not in the
  model);
- `AdminPurgeUser` may remove the last administrator, which `DeleteUser` refuses (not
  in the model).

## Billing rules

`BillingRules`: what a subscription is charged by. A table of revisions that only
grows, a table of cancellations, the rows of `sys_configs` that say which revision is
in force (`config`), and the copy requests are charged from (`cached`). The rows are
written together, so a revision is a number. `phase` is where the process is: the
start migrates, fills the cache and activates before it serves.

| Actions | Code |
|---|---|
| `Start`, `SeedCurrentBillingRuleRevision`, `ProcessEnds`, `Tick` | `main`, the migration, the end of a process, the clock |
| `Choose`, `Apply`, `ApplyFails`, `PatchApplied` | `activateDueBillingRuleRevisions`: its query, its transaction, the patch of the cache; by the start, the cron, and requests |
| `UpdateBillingRules`, `PersistBillingRulesUpdate`, `UpdateFails`, `PatchPublished` | an admin publishes, at once or for later |
| `CancelBillingRuleRevision`, `InsertCancellation` | an admin cancels what is not yet due |
| `SyncRead`, `SyncStore` | `SyncCacheConfig`, its part for settings |
| `GetSysConfigs`, `BatchUpdateSysConfigs`, `SavedRead`, `SavedStore` | a settings page, which sends back every row it was filled with (`useAdminConfigs.js`) |

Run `rules` (1,520,178 states): two admins, one synchronisation, one page, three
revisions (the migrated one and two that compete), two times, one save, one crash.
Two admins are every race of a publication with another or with a cancellation, and
one of each of the rest meets all of them. It shows:

- `CanceledNeverUsed`: a revision canceled before it came into force is never in force
  or charged by, though the cron may have chosen it before: its transaction looks
  again;
- `LatestComesIntoForce`: once the admins are done, the latest revision that is due and
  not canceled comes into force and stays, whatever a page wrote back;
- `SyncsRepair`: where something synchronises again and again, requests end up charged
  by the rules in force.

Fairness: the process is started again; the cron runs every minute and goes on (weak
fairness of the start, the query and the patch), and its transaction does not fail for
ever (strong fairness of `Apply`, which a failure disables). Nothing is assumed of
admins, pages, time or synchronisations; `SyncsRepair` has the latter as its
hypothesis, because nothing in the code starts one regularly.

`ChargingProofs` proves type correctness and `CanceledNeverUsed` for any admins, pages,
synchronisations, revisions and times. The second speaks of a step, and most steps that
change `config` or `cached` do not look at the cancellations: a page, a
synchronisation, or the patch after a commit stores a copy taken long before. The
invariant, `RulesInv`, says why that is right: every such copy was in force once
(`CopiesWereInForce`), and what was in force is not among the revisions the property
speaks of. Only an activation or a publication stores something else; the first looks
again in its transaction, the second stores a revision nobody could cancel yet. The two
liveness properties, which matter as much, are only model-checked.

Also met, in the model unless said otherwise:

- `billing_rules.go:180-181` and `cache.go:142` (of `controller` and `proxy`) speak of a
  refresh of the cache every 60s; there is none. The cron patches the cache only when
  it changed the rows, so a patch that is overtaken by another, or by a snapshot read
  before, leaves requests charged by old rules until the next edit of anything;
- a cron that chose a revision before an immediate publication commits puts it in
  force over that publication, until it runs again a minute later;
- two immediate publications at once may cancel each other, and the scan that cancels
  may fail without failing the publication (`controller/billing_rules.go:383-395`);
- a settings page that was open before a publication puts the old rules back in force
  when it is saved, until the cron repairs the rows;
- a request reads weights, multipliers and version under three locks of their own
  (`proxy/billing_rules.go`): the version on its bill may not be that of its weights
  (not in the model).

## WebSocket bridge

`ResponsesBridge`: a session of `/v1/responses` over WebSocket. The handshake looks at
the user's limit, the bridge takes a slot, dials, and runs two pumps until both have
ended. A pump tests the context of the session, then blocks in a read; `client[s]` and
`server[s]` say where it is. `lastModel`, `sawCreate` and `turnsBilled` are what the
pumps share, each under a mutex. `asked` and `answered` are the upstream's view of the
turns; `delivered`, `crossed` and `unbooked` record what happened, and no guard of the
pumps reads them. An answer may name any model or none, whatever was asked for.

Booking a delivered turn is several steps with entries of their own: the turn is priced
(`Book`), and then charged or deferred (`Pay`), or, if it costs nothing, offered to the
plans all the same (`Cover`, `CoverNothing`). So a turn has no entry (nothing to bill, or
every attempt to write it failed), one, or two (a turn with tokens but no cost has a
pending entry and, if a plan takes it, another). The process may die between any two of
them, after the delivery too.

| Actions | Code |
|---|---|
| `Handshake`, `UpgradeFails`, `Reserve`, `DialFails`, `Dialed`, `Close` | `ResponsesWebsocketProxyHandler`, `runResponsesWebsocketBridge` |
| `ClientTop`, `Create`, `ClientFrame`, `ClientTooFast`, `ClientEnds` | `pumpClientToUpstream` |
| `ServerTop`, `Complete`, `Note`, `ServerFrame`, `ServerEnds` | `pumpUpstreamToClient` |
| `Book`, `Pay`, `Cover`, `CoverNothing` | `commitResponsesWebsocketTurn`, `writeWebsocketPendingReconcile`, `CommitTextTurn` |
| `HourEnds`, `ClientLeaves`, `UpstreamLeaves`, `ProcessDies` | the hour of a session, the two peers, the process |

Run `bridge` (669,228 states): two sessions of one user with one slot, two turns of the
first, a model or none named on either side, the upstream's another than the client's. Two sessions are every race for the
last slot; they share nothing else. Two turns are the least of which one can be booked
while the next is asked for. It shows:

- `SlotsAreBridges`: the count is that of the bridges that run, and within the limit;
- `DeliveredIsBooked`: when a session is over, whichever pump ended first, each answer
  that the client was given has an entry, unless nothing was to bill or the entry was
  lost to a failing database; none is charged twice, nothing is booked that was not
  delivered, and the closing entry, which an admin settles by hand, stands alone. It
  says nothing of the sessions of a process that died: between delivery (`:613`) and
  booking (`:650`) an answer is only in its memory;
- `FallbackIsAsked`: an answer without a model is booked by the model its own request
  named, although both pumps write `lastModel`; for requests of a client that waits
  until the turn before is booked (the others are `crossed`);
- `OverEnds`: a session that is over closes, or waits for a connected upstream.

Fairness: the handler and the pumps go on; a read from the client ends within five
minutes when the session is over or the client gone. Nothing is assumed of the
upstream, whose read has no deadline. It may stop (`CHECK_DEADLOCK FALSE`): the
sessions are used up.

`GatewayProofs` proves type correctness and the first three for any users, sessions,
models and numbers of turns. None is inductive. `BridgeInv` adds:

- that the pumps run exactly while the handler waits for them (`PumpsRun`), so that a
  session that has closed gives its slot back once; and that the slots are counted
  over a finite set of bridges (`SlotsInv`), as `Reserve` repeats the test of the
  handshake;
- what a frame can have done (`FrameInv`): an answer is delivered at most once, as a
  turn the upstream had then reached, and what is being booked is the latest of these;
- that the count of billed turns is behind by the turn being booked (`CountInv`): with
  none billed and none being booked nothing was delivered and no entry exists, which
  is why the closing entry stands alone;
- where each delivered turn is (`LedgerInv`): it has an entry, is in `unbooked`, or is
  being billed, and then is not charged yet; entries are of delivered turns, one
  charged per turn;
- when the two pumps cross (`AskedInv`): of several turns that wait, or one that waits
  beside a booking, all are crossed (`Crossing`); a turn that waits uncrossed was
  asked for with the model `lastModel` holds (`LastIsAsked`), so its entry is `AsAsked`.

`OverEnds` is only model-checked.

Left out: prices (what a turn costs is a choice of `Book`), contents, the counting of
frames (a client may be too fast at any frame), the refusals of the
handshake, and the breaker it asks (see the breaker's chapter).

Also met, in the model unless said otherwise:

- the connections are closed when both pumps have ended (`responses_websocket.go:499`),
  not when one has, as the comment above says (`:405`), and the context is only looked
  at between reads: a silent upstream outlasts the client and the hour (`:55-56`), and
  keeps the slot. `OverEnds` without its second case does not hold;
- where the upstream names no model, a turn is booked by the client's last word, which
  may already be the next turn's; and the pump that books writes `lastModel` back
  (`:653`), so the word of a newer request may be lost, and that turn be booked as
  the one before. A client cannot see when its turn is booked, so it cannot avoid this;
- both pumps may write to the client's connection at once, the one that tells a client
  that it is too fast (`:564-570`) without a lock: the library panics, and the process
  dies with every session (`ProcessDies`);
- an answer without usage, or of a model without a route or price, is left to an admin;
  one whose charge fails in the database leaves a line in the log and no entry
  (`text_billing.go:785-788`); a process that stops between delivery and booking leaves
  nothing at all;
- a session that booked a turn and is cut in a later one leaves no entry of the later
  one: only a session without any has the closing entry, although the header (`:21`)
  speaks of every turn that was not measured;
- a ban, a channel switched off or a balance used up ends no open session (not in the
  model);
- the bridge holds the account's copy that the caches share and refreshes it without
  a lock (not in the model).

## Usage import

`UsageSync`: the upstream keeps a record of every turn until somebody pops it. A sync
of the cron or of an admin takes the row lock, pops records, stores them, and
attributes each to the log entry of its turn. An attributed entry gets an estimate of
what the turn cost the platform; an edit of the upstream account computes its
estimates again. `stage[s]` is where sync `s` is, `proc[s]` the process it runs in, which
is what the lock row names. `befallen`, `phantom`, `lapsed`, `unpriced` and `disturbed` record what
went wrong; no guard reads them.

| Actions | Code |
|---|---|
| `AcquireLock`, `ReleaseLock`, `KeepAliveEnds`, `Lapse` | `distributed_lock_helper.go`, `keepCLIProxyUsageSyncLockAlive` |
| `Fetch`, `FetchFails` | `fetchCLIProxyUsageQueue` |
| `StoreBatch`, `BatchFails`, `StoreRow`, `DropRow`, `LoadKeys` | `storeAndMatchCLIProxyUsageRecords`: the batch, the fallback to single rows, the keys |
| `Ignore`, `Attribute`, `Unmatch`, `MatchFails` | its loop over the records, `matchUpstreamUsageRecordTx` |
| `UpdateUpstreamAccountCost`, `UpsertUpstreamAccountCost`, `DeleteUpstreamAccountCost` | the write of the account; creating one and many at once are one action |
| `Refetch`, `ReadRows`, `WriteEstimates`, `EditFails` | `refreshPlatformCostEstimateForAccount`, cut at its queries |
| `WriteLog`, `Crash` | the entry of a turn; the end of a process, which starts again as another owner |

Run `usage` (1,297,189 states): two turns with equal tokens, with different ones, or one
of another key; the cron's sync and an admin's, in one process or two; an edit of the
account; one fault or crash. A batch may always fail. Two records are a batch of which
one row fails, and two that compete for one entry; two syncs are every race for the
lock; faults are bounded because a property that excuses what a fault befell is
weakest when everything may fail. It shows:

- `OneSyncAtATime`: two syncs work side by side only after a lock has expired under one;
- `EachFailsAlone`: a popped record is stored and looked at, however the others of its
  batch fare;
- `AttributionsAgree`: records and entries agree on who belongs to whom;
- `EstimatesFollowAccount`: after an edit every attributed entry has the estimate of the
  account's rate, whether it was attributed before, during or after it; unless the edit
  overlapped another or failed. An entry attributed while the account could not be read
  (`unpriced`) has none until an edit, and an entry whose record spells the provider
  otherwise is found by no edit (the turns outside `Plain`);
- `EveryRecordFetched`: whatever befalls a holder of the lock, the others' records are
  fetched in the end.

Fairness: the cron tries again and again (its goroutine recovers from panics, and a
process that stops is started again); every statement and request ends, as the client
has a timeout; a lock that nobody renews expires. Nothing is assumed of admins, or of
log entries. The run may stop (`CHECK_DEADLOCK FALSE`): an idle cron with an empty queue
may still take the lock, but a run without one need not go on.

`GatewayProofs` proves type correctness and the first four for any turns and tokens, any
number of syncs in any processes, any admins, rates and bounds. `UsageInv` adds:

- `OneWorks`: until a lapse, whoever works does so under a lock that has not expired.
  Without the second half nothing stops another from taking it;
- `StageInv`: what a sync has in hand, by its stage. In the loop over the rows, each
  record that is behind it has an ID and a row, or an ID and no row (a phantom), or
  neither and is in `befallen`; this is why the match, which goes by the IDs, misses
  only failed records;
- `HandsApart`: no record is in two syncs' hands, or in one's and in the queue, and
  none that is has been attributed. It holds also when two syncs overlap, since the
  pop is the upstream's, and is what keeps a record from being attributed twice;
- `EstimatesInv`: while nothing overlapped or failed, the one edit under way has the
  account's rate, and an attributed entry it has not read already has the right
  estimate: an entry attributed after the edit's read was attributed after its write
  of the account, and so with the new rate.

`EveryRecordFetched` is only model-checked. That syncs are finitely many and that no
turn or state of a row is `None` are assumptions the proof needs; no process runs
infinitely many goroutines, and `None` stands for the absence of a row.

Left out: the time windows, model names, paths and states by which candidates are
chosen (here all turns are alike), all but one account, platforms without a channel
key, and the chance that the ID of a rolled-back record is given to another row.

Also met, in the model unless said otherwise:

- the context of the cron's sync ends after 20 s, when the first renewal is due
  (`cliproxy_usage_sync.go:29`, `:152`): its lock is hardly ever renewed, and a sync
  that takes longer than a minute loses it;
- a release names the process, so a goroutine whose lock has expired deletes the lock of
  another one in its process, although "only if the caller still owns it"
  (`distributed_lock_helper.go:108`). This is why `OneSyncAtATime` ends with the first
  lapse;
- an answer that is lost takes its records with it, and a failed load of the keys or a
  failed match leaves them `pending`, an entry written later leaves them `unmatched`:
  nothing looks at them again, which `schema.go:273` leaves to a later job or a human;
- a batch is inserted in chunks of 100. When a later chunk fails, the rollback takes the
  rows of the earlier ones but not the IDs in memory; a row then dropped has an ID,
  against the comment at `:383`, and is matched without being stored (`phantom`);
- two overlapping edits of an account may leave the estimates of the first, and an edit
  that makes it inactive leaves the old ones;
- the estimates are looked up by the provider in lower case, while an attribution has it
  as reported (`upstream_cost.go:786`, `cliproxy_usage_sync.go:569`): an edit does not
  find the records of a provider that reports itself in another spelling;
- an attribution whose account cannot be read for an error writes the estimate 0 and
  says nothing (`upstream_cost.go:849-852`); only a later edit of the account puts it
  right;
- an account created as inactive is stored active, as the zero value gives way to the
  column's default (not in the model).

## Not modelled

- Notifications and the queue of mails: best effort by design; no decision reads their
  state. What the deduplication of mails does to a user is noted above.
- The classification of text by the moderation, prices and the translation of
  payloads: data without a protocol of their own.
- Credit pools only poll for display and ordering.
- Middleware and the web client: wrappers, and an interface whose rules the server
  enforces.
