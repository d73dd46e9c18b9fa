# TLA+ models of the Subslush backend

Subslush sells digital subscriptions. Its backend (`src/src`, Fastify on
Node.js) keeps its state in PostgreSQL and its caches, locks and short-lived
flags in Redis; money enters through six payment providers (Stripe,
NOWPayments, PayPal, PayOp, Antom, Pay4bit) and through an internal credit
balance. Requests, provider webhooks, admin routes and cron jobs all run in the
same event loop, in one or more backend processes, and meet only in the
database and in Redis. Between any two `await`s of one handler any step of any
other may happen; the modules here model exactly that.

## Inventory

| Component | State | Operations | How it interacts | What is hard | What makes it correct |
|---|---|---|---|---|---|
| Credit ledger: `services/creditService.ts`, the balance mutation of `creditAllocationService.ts` | `credit_transactions` rows (balance = SUM of amounts), advisory lock per user, Redis `credit:balance:<user>` | `addCredits`, `spendCredits`, `reverseCredits`, `refundCredits`, `getUserBalance` | called by checkout, purchase, refunds, rewards, renewal, admin; `createPayment` inserts pending rows | concurrent writers, one of them without the lock, nested pool clients, cache written after commit, failure after commit | no overdraft, an audit trail without gaps among the rows that move a balance, honest answers, atomicity |
| Credit top-ups: `paymentService.ts` (create, webhook, refresh, sync), `paymentMonitoringService.ts`, `creditAllocationService.ts` | the top-up row of `credit_transactions` (`payment_status`, `metadata`, `amount`), Redis `pending` list, Redis `completed:<payment>` | `processWebhook`, `processPaymentUpdate`, `refreshPaymentStatus`, `allocateCreditsForPayment`, `manualCreditAllocation` | NOWPayments API and webhooks, ledger | read-modify-write of a JSON column by five writers, stale answers, repeated and reordered notifications, crash between status and credit | each paid top-up credited once |
| Refunds: `refundService.ts` | `refunds` rows, Redis copy of each | `initiateRefund`, `approveRefund`, `rejectRefund`, `processApprovedRefund`, `manualRefund` | ledger, providers | cached status used as a guard, two admins, failure half way through a compensation | money moved at most once, none given before it was taken, a rejection stands |
| Coupons: `couponService.ts`, `utils/couponAllocation.ts` | `coupons`, `coupon_redemptions` | validate, reserve, finalize, void, expire | checkout, fulfilment, order job | reservation expiring while the payment is on its way | limits never exceeded |
| Orders and fulfilment: `paymentService.ts`, `orderService.ts`, `orderEntitlementService.ts`, `paymentRepository.ts`, `paymentEventRepository.ts` | `orders`, `payments`, `payment_items`, `subscriptions`, `order_entitlements`, `payment_events` | checkout of six providers and of credits, webhooks, polls, confirm, cancel, sweep | coupons, ledger, subscriptions | webhook against cancel against sweep, repeated events, an event recorded before it is processed, a Stripe session complete before its payment is | paid orders are fulfilled once, at their price |
| Delivery: `orderService.ts`, `routes/admin/orders.ts`, `jobs/orderJobs.ts`, status changes of `subscriptionService.ts` | `orders.status`, `metadata.delivery_email_watchdog`, the subscription's dates | deliver, replay, resend, watchdog sweep, status by hand, renewal task | mail, renewals | reads and unconditional updates of several staff and a sweep, a task whose insert may fail unnoticed | the term paid for, one mail, no mail forgotten |
| Purchases with credits: `routes/subscriptions.ts` (`POST /purchase`) | `orders`, `subscriptions`, `order_entitlements`, `coupon_redemptions`, Redis count of active subscriptions | purchase and its compensations | ledger | six effects without a transaction, answers that are lost, a cached count as limit | paid and given, or taken back |
| Subscriptions and renewals: `subscriptionService.ts`, `subscriptionRenewalService.ts`, `jobs/subscriptionJobs.ts` | `subscriptions`, `subscription_renewals`, Redis `lock:jobs:subscription_renewal` | renewal sweep, renewal payments, cancel, expire | ledger, Stripe, Pay4bit | lock time shorter than the work, two instances, payments beside the sweep | one charge per cycle, the term is what was paid |
| Selections: `upgradeSelectionService.ts`, `orderItemUpgradeSelectionService.ts`, jobs | `subscription_upgrade_selections`, `order_item_upgrade_selections`, `admin_tasks` | copy, submit, acknowledge, lock after 72 hours, provision | fulfilment, staff | buyer, fulfilment and sweep decide at once | a choice is final, kept and handed over |
| Guest checkout: `guestCheckoutService.ts`, `routes/checkout.ts` | `guest_identities`, `guest_claim_tokens`, the `user_id` of everything an order leads to | identify, draft, issue token, claim | every table with a user | rows written while a claim moves them | rows follow their order, orders their identity |
| Rewards and vouchers: `perkService.ts`, `routes/dashboard.ts`, `routes/admin/rewards.ts` | `referral_rewards`, `pre_launch_rewards`, `user_perks`, `calendar_vouchers`, `coupons` | claim, extend, redeem as credits, claim a voucher | subscriptions, ledger, coupons | three routes with different locks and guards | a gift is given once, its records agree |
| Checkout pricing and FX: `pricingLockService.ts`, `checkoutPricingService.ts`, `utils/termPricing.ts`, `fx/*`, `catalogService.ts` | `price_history` | publish, set a price, quote, allocate a coupon | checkout | two reads around a publication, rounding | one publication's prices, totals that add up |
| Job scheduler and Redis locks: `jobs/jobScheduler.ts`, `utils/redisHelper.ts` | Redis `lock:*`, in-memory timers | `register`, `start`, `stop`, `runJob`, `acquireLock` | every cron job | expiry of the key while the job runs | one instance runs a job |
| Sessions and authentication | Redis sessions, PIN counters (the rest is Supabase's) | sign in, refresh, lock out | every route | counters with expiry | lock-out counts |
| Catalogue, notifications, newsletter, BIS enquiries, audit log, dashboards, e-mail, TikTok events, order risk | their own tables | create, read, update, delete; outbound calls | routes, jobs | little concurrency | |
| Front end (`src/frontend`), migrations, deployment scripts | none of their own at run time | | HTTP | | |

`PROJECT.json` ("components") gives each part's status and sources, "map" the
lines that each definition stands for, "hazards" what is hard to test, each at
its line with the properties that would catch it.

## Modules

| Module | What it is |
|---|---|
| `AtomicLedger` | what the ledger promises: a balance per user that changes in one step per operation |
| `CreditLedger` | the ledger as the code runs it; its `Atomic` instance of `AtomicLedger` is checked and proved |
| `CreditTopUp` | one crypto top-up, from the provider's statuses to the credit |
| `Refund` | the refund workflow; its ledger steps are `AtomicLedger`'s operations |
| `CouponRedemption` | one coupon's reservations over several orders |
| `PriceQuote` | the price a checkout is quoted, over histories of prices; the arithmetic of terms and coupons |
| `PayPalCheckout` | one order's PayPal checkout, capture, fulfilment statement by statement, cancellation |
| `OrderPayment` | one order that may be paid through the other five providers or with credits |
| `CreditPurchase` | purchases with credits of one user; its ledger is `AtomicLedger`'s |
| `SubscriptionRenewal` | one subscription's renewals, cancellation and expiry |
| `SubscriptionDelivery` | one order's delivery, its mail and the subscription's term in the hands of the staff |
| `UpgradeSelection` | how one subscription is to be provided |
| `GuestClaim` | one guest identity on its way to an account |
| `RewardRedemption` | the rewards and vouchers of one user |
| `..._proofs` | theorems about a component, or about two that one run explores |
| `MC...` | the constants and symmetry sets of the runs, and the runs that explore several components |

In every module an action is the code between two `await`s that matter: a
handler's local variables live in a record per request (`op`, `h`, `tx`, `job`,
`req`, `claim`) with the await it is at (`pc`), and a database statement, a Redis
command or a provider call is one step. An operator named `<Definition>_<Word>`, placed above
a definition, is a variant of it with a plausible bug; `PROJECT.json` ("mutants")
pairs each property with the variant that breaks it. Variables marked "history" are
not in the code: they remember what a property speaks of.

How they compose: `Refund` and `CreditPurchase` take the ledger at its promise
(`INSTANCE AtomicLedger`), which `CreditLedger` is proved to keep. The other
components meet through one order, subscription or user each; what one leaves for the
next (a paid order, a captured session, a reservation) is an initial state or an
external choice of the next.

### CreditLedger

| State | Code |
|---|---|
| `total` | `credit_transactions` of a user: the SUM of `amount` |
| `tail`, `tailKind` | `balance_after` and the kind of the row whose writing moved her balance last; "recredit" is a top-up's row that was credited before |
| `deposit` | the row of a top-up: its user, its `amount`, `metadata.paymentCompleted` |
| `lock` | `pg_advisory_xact_lock(hashtext(user))` |
| `op`, `pc`, `outcome`, ... | a request, the await it is at, its answer |
| `cache` | `credit:balance:<user>` |

`Start` ... `FillCache` follow `addCredits`, `refundCredits`,
`applyDebitTransaction` (`spendCredits`, `reverseCredits`),
`performAtomicAllocation` and `getUserBalance`: connect, lock, SUM, the early
returns, the row (`MoveBalance`), COMMIT, DEL, and the refresh of the balance on a
second client while the first is held. `createPayment` is a writer without the lock
(`CreateRow`): it inserts a top-up's pending row with `amount`, `balance_before` and
`balance_after` 0, which moves no balance. The allocation is an UPDATE that sets the
amount of that row, and so replaces what an earlier allocation had set there; it is
reached twice when `refreshPaymentStatus` has erased `paymentCompleted`
(`CompletionErased`). So `tail` follows the rows that moved the balance, and
`TrailMatchesBalance` has the second allocation as its exception: `balance_before`
then counts the amount that is being replaced. `DatabaseError`, `CommitAckLost`, `ConnectTimeout`,
`QueryTimeout`, `RefreshFails`, `Crash` and `CacheExpires` are what
goes wrong; that Redis cannot be reached is a branch of each cache step. Not in the module: the UPDATE of
`user_id` by which a guest's claim moves rows without a lock (`guestCheckoutService.ts:496`). `ConnectTimeout` may strike any waiting request, since the pool is shared
with the rest of the backend. Amounts are integers; the code's are cents in a decimal column.

### CreditTopUp

`row` is the top-up's row of `credit_transactions` (`payment_status` and
`metadata.paymentCompleted`), `credit` what its amount holds, `guard` the Redis key
of the duplicate check, `queue` the monitor's list, `prov`/`child` the provider's
statuses, `mail` its unanswered notifications, `events` the `payment_events` rows.
The handlers (`Create`, `Deliver`, `Monitor`, `Refresh`, `Sync`, `Manual`) share the
steps `ReadRow`, `Poll`, `WriteStatus`, `CheckDuplicate`, `TakeLock`, `Credit` or
`CreditByHand`, `MarkCompleted`, `ReadList`, `SaveList`, because the code shares
them. `WriteStatus` writes the whole metadata column back as it was read; that is
where the interesting behaviours come from.

### Refund

`refund` is the row, `copy` the status in its Redis copy, `reversals`, `rollbacks`
and `paidOut` the money. A request is an initiation, an approval, a rejection or a
manual refund; `Approve`, `FindReversal`, `Process`, `Reverse`, `TriggerProvider`,
`Rollback`, `MarkFailed` and `Complete` are `approveRefund` and
`processApprovedRefund` in the code's order. `UpdateStatus` is unconditional, as in
`updateRefundStatus`, and `cacheRefund` follows each update. An approval and a rejection
that were let in side by side, or one of them by a stale copy (`crossed`, history), end in the status of
whichever wrote last, with the credits taken or not; but for these a rejection stands
(`RejectionStands`).

### CouponRedemption

`coupon` is the row of `coupons`, `row[o]` the redemption of order `o`, `tx[o]` the
checkout's transaction, `due` the reservations that are overdue by now. `Validate`
is outside any transaction; `ReadClock`, `LockCoupon` (FOR UPDATE), `ExpireStale`,
`CheckUser`, `CheckLimit`, `Commit` are `reserveCouponRedemption`; `Pay`/`Finalize`
and `Cancel`/`CancelWrite`/`Void` settle an order; `UpdateCoupon` and
`DeleteCoupon` are the administrator's.

### PriceQuote

No state of its own: a history is a sequence of price changes, each with the time it
took before its transaction, in the order in which they are committed.
`replaceCurrentPrice` ends the row in force and puts the new one behind it; a change is a
publication, a price set, or (`Rewrite`) an update of a product without variants that gives
its duration or currency only and writes the price it read before its transaction
(`catalogService.ts:1307`, `1420`, `1533`).
`Published`, `VariantRows` and `FixedRows` are the rows a history leaves,
`getCurrentPriceForCurrency` and `Locks` the two reads of a quote (`Quotes`: display
and settlement, of a history that may grow between them). `Term`, `Dearest`, `Spread`,
`Allocated`, `Priced` and `priceDraft` are the arithmetic of term discount, coupon
allocation and totals in cents; `Exact` is its reference definition over fractions.

### PayPalCheckout

| State | Code |
|---|---|
| `order` | the row of `orders`: `status`, `payment_reference`, `settlement_total_cents` |
| `payments`, `allocated` | the `payments` row of a session, its `payment_items` |
| `subs`, `entitled`, `redemption`, `events` | `subscriptions`, `order_entitlements`, `coupon_redemptions`, `payment_events` |
| `session`, `price` | PayPal's order (external) and the amount it was opened with |
| `lock` | `pg_advisory_lock(hashtext(order))` on a client of its own |
| `pc`, `job`, `todo` | a request, what it read, the items `createSubscriptionsForOrder` has left |
| `broken`, `failures` | history: a failure hit a fulfilment; how many there were |

| Actions | Code |
|---|---|
| `OpenCheckout`, `ReuseSession`, `CreateSession`, `CreateRefused`, `InsertPayment`, `AttachSession` | `createPayPalCheckoutSession`, `updateOrderPayment` |
| `WebhookCompleted`, `WebhookVoided`, `ConfirmRecorded`, `CancelRecorded` | `handlePayPalWebhook`, `recordEvent` |
| `Confirm`, `Capture`, `SavePayment`, `Answer` | `confirmPayPalCheckoutSession`, `recoverPayPalOrderAfterCaptureFailure` |
| `LockOrder`, `ReadLocked`, `MarkInProcess`, `Allocate`, `CreateSubscription`, `SkipItem`, `Entitle`, `EntitleFails`, `Finalize`, `FinalizeFails` | `processPayPalOrderPayment` and what it calls |
| `Cancel`, `CheckProvider`, `ClosePayment`, `CancelOrder`, `CancelOrderFails`, `VoidCoupon` | `cancelPayPalCheckout`, called by the buyer, the webhook and `sweepStaleCheckoutSessions` |
| `Redraft` | `upsertDraftOrder` |
| `Approve`, `Void` | PayPal (external) |
| `Fail` | any query or call throws, or the process dies |

Abstractions: the order's provider is PayPal exactly when it has a reference;
`paid` and `delivered` behave as `in_process` does in every guard of these
handlers, and are one status; `canceled` and `expired` payments are "closed"; the
connection pool is left out, its timeouts being failures. The confirmation mail
and the logs have no effect here.

### OrderPayment

| State | Code |
|---|---|
| `order` | `status`, `payment_provider`, `payment_reference`, `total_cents`, `settlement_total_cents` |
| `session`, `payments`, `events` | a session at its provider (external), its `payments` row, `payment_events` (for Pay4bit the stored callback responses) |
| `served`, `redemption`, `ledger` | the order's subscriptions, its coupon redemption, its rows of `credit_transactions` |
| `lock`, `pc`, `job` | the advisory lock on the order, the requests and what they read |
| `taken`, `reopened`, `lost`, `strayed`, `failures` | history |

`OpenStripe` ... `OpenPay4bit`, `CreateSession`, `CreateRefused`, `AttachSession` open a
session (no route opens Stripe's and Pay4bit's any more; sessions of theirs are still
notified, polled and swept). `NotifyStripe`, `NotifyNowPayments`, `NotifyPayop`,
`NotifyAntom`, `Callback` are the webhooks, `Poll`, `RepeatPayop`, `CancelAntom` the
buyer's polls; each ends in `WriteStatus` and, for a payment, in `LockOrder`,
`ReadLocked`, `MarkInProcess`, `Serve`, `Finalize`. `PayWithCredits`, `ReadForCredits`,
`Debit`, `PayOrder`, `PayOrderFails`, `RefundCredits` are `completeCheckoutOrderWithCredits`;
`Cancel`, `ExpireStripe`, `InquireStripe` (with `CancelBlindly` and `CancelIntent`), `CloseNowPayments`, `CancelOrder`, `VoidCoupon`
the cancellation of the buyer and of the sweep. A fulfilment is one step (`Serve`); its
statements are in `PayPalCheckout`.

A Stripe session can be complete before it is paid: `createCheckoutSession` does not restrict
the payment methods, and a delayed one clears or bounces later (`Complete`, `Clear`).
`processStripeCheckoutSession` looks at the event's type only, and the reconciliation takes
`complete` for paid (`paymentService.ts:2981`), so such an order is fulfilled at once and stays
fulfilled if the payment bounces. `NothingGivenBeforeCheckout` says what is left: nothing
is given before the buyer has completed the session, and with the other providers before she has paid.
`confirmStripeCheckoutSession` (`paymentService.ts:9902`) has the same test and no caller in the repository.

### CreditPurchase

`order[o]`, `voucher[o]`, `sub[o]`, `entitled`, `debited`, `refunded` are what purchase `o`
has written; `balance` is the ledger; `count` the number of active subscriptions that
Redis holds, `uncleared` the changes whose DEL is still to come. `ReadCount`,
`QueryCount`, `FillCount` are `canPurchaseSubscription`, called before the order is
placed (`PlaceOrder`) and after the debit (`Spend`); `InsertSubscription`, `ClearCount`,
`SettleOrder`, `RedeemCoupon`, `Entitle` the rest of the route; `Refund`, `CancelOrder`,
`VoidCoupon` its compensation; `Crash` and the failing branch of each step what goes
wrong, including an acknowledgement that is lost.

### SubscriptionRenewal

`sub` is the row of `subscriptions` (its end date counted in terms), `renewal[k]` the row of
`subscription_renewals` of cycle `k`, `jobLock` the Redis key of the job, `pay` and `seen` the
renewal payments and their notifications, `debits[k]` the ledger's debits. `StartSweep`,
`Disable`, `ClaimCycle`, `CheckCycle`, `RetakeCycle`, `Spend`, `FailCycle`, `Reschedule`,
`SucceedCycle`, `Extend`, `ReleaseJob` are the sweep for the subscription; `PaidNotice`,
`DeclinedNotice`, `RetryOrDisable`, `TakeCycle`, `InsertCycle`, `Renew`, `ExtendGuarded`,
`MarkSucceeded`, `MarkFailed` the notifications; `Cancel`, `RedeemReward`, `Expire`,
`BillingComes`, `LockLapses` the rest. The sweep itself is behind
`SUBSCRIPTION_AUTO_RENEW_SWEEP_ENABLED`.

### SubscriptionDelivery

`orderRow`, `sub` and `watchdog` are what the rows hold, `task` the renewal's `admin_tasks`
row, `req[a]` what administrator `a`'s request has read, `sweep` the watchdog's run, `since`
what has been paid since the activation. `BeginDelivery` ... `Schedule` are
`updateOrderStatus` with its side effects, `BeginReplay` ... `RecordResend` the replay,
`BeginStatus`, `CheckTransition`, `SetStatus` a change by hand, `CompleteRenewal`,
`FulfilRenewal` the renewal's task, `BeginSweep` ... `SweepFails` the watchdog. Past the deadline
the sweep asks for a task (`SweepAsk`) and then writes `escalated`: the error of the
task's insert is swallowed and the status written all the same, and the delivery is then pursued by
nobody. `FailedMailIsPursued` therefore asks for an open task (`task.mail`, until
`CompleteMailTask`) and names that error as an exception (`dropped`); so it does with a sweep
whose task is of an earlier delivery.

### UpgradeSelection

`opts` are the plan's options, `item` the choice at the checkout, `sel` the row of
`subscription_upgrade_selections`, `prov` and `pend` the open tasks of the staff.
`CreateSubscription`, `EnsureSelection`, `LookForPending`, `PendSelection`, `CopySelection`
are the fulfilment; `BeginSubmit`, `Submit`, `TellItem`, `BeginAcknowledge`, `Acknowledge`
the buyer; `Age`, `BeginSweep`, `MarkIssue`, `RaiseIssue` the sweep; `LookForProvision`,
`Provision`, `CompletePending`, `Deliver`, `CompleteProvision` the tasks.

### GuestClaim

`identity` is `guest_identities.user_id`, `order[o]` the order's user, `row[o][k]` what it led
to in table `k`, `token`, `claim[c]` a request to `/claim`, `lock` who holds the identity's
row. `EnsureIdentity`, `LinkIdentity`, `LockDraft`, `CommitDraft`, `RollbackDraft` are
identity and draft; `ReadOwner`, `InsertRow` any writer for the order's user;
`ComposeMail`, `IssueToken`, `ExpireToken` the tokens; `LockToken`, `LockIdentity`,
`CommitClaim`, `BreakDeadlock`, `FailClaim` the claim, a transaction whose writes show at
its commit.

### RewardRedemption

`redeemed`, `perk`, `months`, `credits`, `claimed`, `coupon` are what rewards, perks,
subscriptions, ledger and vouchers hold of each gift; `rowLock` who has a row FOR UPDATE;
`stage`, `req` the requests. `Claim`, `ExtendTerm`, `RedeemForCredits`, `ClaimVoucher` begin one;
`LockPerk`, `LockReward`, `LockSubscription`, `CommitExtension` are the two transactions,
which take the same locks in opposite orders (`Deadlock`: PostgreSQL ends one);
`AddCredits`, `MarkReward`, `MarkPerk` the redemption as credits; `LockVoucher`,
`DrawCode`, `InsertCoupon`, `CommitVoucher` the voucher's coupon.

## Runs

| Run | Question | Instance |
|---|---|---|
| `ledger` | Can requests of any kind leave a gap in the audit trail, is an answer ever a lie, is every request answered, is a commit one atomic change? | 1 user, 2 fair requests, amounts of one unit, maximum 1, pool of 2, 1 top-up, created, allocated and allocated again |
| `topup_safety` | Can a handler credit what was not paid, and what does a second credit take? | 1 payment, 2 handlers at a time; budgets: refresh + manual + fault, or sync + manual |
| `topup_liveness` | Purchases: is anything given unpaid, is a failed purchase settled, is the count right? Top-ups: is a finished payment credited? | 2 purchases, a limit of 1, 1 top-up, 1 fault; 1 payment, 1 sync or 1 manual allocation |
| `topup_refresh` (violation) | Is a payment marked finished credited? | 1 refresh |
| `refund_safety` | Selections: is a locked choice final, the one that was promised, handed over? Refunds: is anything given before it was taken, what does a second debit take, does a rejection stand? | 2 requests, 2 submissions, 1 fault; 1 refund, 3 requests at a time, 2 approvals, 2 rejections, 1 manual refund, 2 faults |
| `refund_approvals` (violation) | Is a refund debited once? | 2 approvals |
| `coupon_safety` | Coupons: one redemption per user, never past the limit, none kept by a cancelled order? Prices: is a quote one publication's, is a price lost, do the cents add up? Delivery: is the term given, one mail sent, a failed mail pursued? | 3 orders with the coupon and 1 without, 2 users, 1 edit, 1 fault; histories of 4 changes in 2 currencies, baskets of 2 and 3 items; 2 administrators |
| `coupon_reuse` (violation) | Does a user who paid with the coupon count as one who redeemed it? | no edit, no fault |
| `checkout` | Is anything given without a capture, is the order complete for who waited for its lock, does a captured order leave `pending_payment`? | 2 fair requests, 1 session, 2 items, 2 prices, 1 failure |
| `payment_safety` | Is anything given before the buyer has checked out, is an order paid twice, at another price? | 2 requests, 2 sessions, 2 totals; Stripe, Antom, Pay4bit and credits |
| `payment_liveness` | Does a paid order leave `pending_payment`? | 2 fair requests, 1 session, 1 failure; Stripe, NOWPayments, PayOp, Pay4bit and credits |
| `renewal` | Renewals: what does a second charge of a cycle take, is the term what was paid, is a cancelled subscription left alone? Claims: do orders and rows follow their identity, is a claim final? Gifts: is one given twice, do its records agree? | 2 runs, 1 payment, 1 reward, 1 failure; 2 orders, 2 claims, 2 tokens, 2 accounts; 2 rewards, 2 vouchers, 2 requests, 1 failure |

Components that share no state are explored by one run where that saves nothing but
runs: the host (`MCSelectionRefund`, `MCPurchaseTopUp`, `MCCouponDelivery`,
`MCRenewalClaim`) has a variable (`part`, `about`) that is chosen once, and only the component it names
moves. The behaviours of the host are those of its parts, each beside an idle other;
a fairness condition is stated for the part it belongs to.

Why these bounds are enough to be of interest. Two requests are what a race
needs; three where one must wait while two hold something (the pool of two
clients, the refund with an approval, a rejection and a stale copy). A second
price, a second session and a second item are what a stale write-back, a
mismatch and a partial fulfilment need. Every fault budget is at least one except in
`payment_safety`, whose failures are in `payment_liveness` and whose theorems hold for any number; the
mutants show that each property can fail within the bounds, and the theorems
below hold without them. Larger instances were run by hand while the modules were written:
three currencies for `PriceQuote`, two tables for `GuestClaim`. Symmetry is used in safety runs only. Deadlock is
checked where requests can always be made (ledger, checkout, payments); the budgets of
the other runs run out, so there the model may stop.

### Fairness

Weak fairness of a handler's own steps: Node's event loop resumes a handler whose
awaited call is answered. Strong fairness of an advisory lock (`AcquireLock`,
`LockOrder`): PostgreSQL queues the waiters. Strong fairness of a notification
(`Deliver`, `Notified`): providers repeat what was
not answered 200. Strong fairness of `Cancel` in `PayPalCheckout` and, but for Pay4bit,
which the sweep leaves out, in `OrderPayment`: the abandonment
sweep is a recurring job. Nothing is assumed of a buyer, an administrator or
of a provider's decisions, and failures are never fair. The other components
are checked for safety only: no job of the code takes up a
refund, a purchase, a claimed cycle or a reward that was left behind.

## Disagreements found

- `topup_refresh`: the refresh of a payment's status stores `finished` without
  allocating; webhook and monitor then see no change and the credit never comes.
- `refund_approvals`: `approveRefund` checks the status on a copy and writes
  without a condition; two approvals of a pending refund debit the user twice.
- `coupon_reuse`: a payment that arrives after the reservation was expired keeps
  the discount and leaves no redemption, so the coupon serves the user again.

## Behaviours of the code that the models show

No document or test of the repository rules these out; the models have them, and the
properties name them as exceptions where they must.

- Ledger: the pending rows of `createPayment` have `balance_after` 0 whatever the balance is; a second allocation of a
  top-up leaves the trail off by the amount it replaces, and one of a smaller amount may take a balance below the minimum.
- Top-ups: a metadata column written back as it was read erases `paymentCompleted`, and
  a second allocation credits again.
- Refunds: an approval and a rejection that overlap end in the status of whichever wrote last, debited or not; two refunds of one payment may be requested side by side; nobody looks at the
  answer of the compensation; a crash leaves a refund in `processing`.
- Coupons: two unpaid orders both count as the first.
- Prices: an update of a product that leaves its price out puts the price it had read back over one set meanwhile; a price the administrator sets in USD makes a variant unquotable in USD until
  the next publication, one set in another currency borrows the USD row's snapshot; a product without variants
  is shown at the published price and settled at the administrator's until then; the dearest item, on
  which a coupon's remainder falls, may differ between display and settlement; the allocation's caps never bite.
- PayPal: a session opened while its order is being fulfilled writes `pending_payment`
  over `in_process`; a cancellation that read the order before may overwrite it too; the session of a cancelled order can
  still be captured; a crash between `in_process` and the subscriptions leaves them out.
- Other providers: NOWPayments' `expired` after `finished` cancels a fulfilled order; an order is fulfilled when its Stripe
  session is complete, paid or not, and stays so when the payment bounces; the
  sweep of a paid Stripe session may reconcile its payments row only.
- Purchases: `routes/subscriptions.ts:2979` re-validates "to prevent race conditions", but
  pending subscriptions are not counted and an error counts as zero; a crash leaves an order of provider
  `credits` in `pending_payment` with its credits debited.
- Renewals: a notification with no expected end date lengthens from whatever it read, a
  row that has fallen behind the payment's date loses terms, a Stripe renewal is marked succeeded although
  its update was skipped, and a cycle claimed by a run that died stays pending.
- Delivery: a failed mail is marked escalated although the insert of the staff's task failed; a replay that read the order before the delivery's own metadata was written
  computes earlier dates; patches of the mail's outcome move `updated_at`; a replay, or the completion of a
  renewal's task, discards the terms of other renewals; a watchdog that is done is not scheduled for a later
  delivery, and a resend by hand does not close it.
- Selections: the checkout does not validate a choice against the plan's options; an
  acknowledgement alone locks a selection that has no type; a plan that is only upgraded by hand, acknowledged
  at the checkout, gets no provision task; a crash between creation and copy lets the sweep decide; after a crash between lock and task only the task that asks for the selection
  is left to tell the staff, and none if its own insert had failed.
- Guests: a claim moves neither `order_entitlements` nor `coupon_redemptions`; a stale link
  leaves an order with the guest although a later claim answers success; two claims can wait for each other,
  and PostgreSQL ends one.
- Gifts: a redemption as credits takes no lock and repeats no test, so the reward may be
  given twice, and a crash after the credits leaves it redeemable; a claim re-tests neither the subscription's
  status nor its term inside its transaction.

## Proofs

The theorems are about the components' own specifications (`Spec`, `TopUpSpec`,
`RefundSpec`, `DeliverySpec`, `ClaimSpec`, `GiftSpec`), without fairness, and hold for every value
of the constants: any number of requests, orders, sessions, accounts, amounts and
failures. What they ask of the constants is the named assumption of the module
(`CouponAssumption` and so on; `BasketAssumption` says that a basket has positive prices, which is what
`parsePositiveCents` lets through, and the months and the discount that `computeTermPricing` clamps a term to); where it is an operator (`CreditPurchaseAssumption`,
`GuestClaimAssumption`, `UpgradeSelectionAssumption`), the theorem names it as its
hypothesis and the module of the run ASSUMEs it, so that TLC evaluates every one of them. Budgets
only limit a run: the theorems hold for every budget.

Few of the properties are inductive. Each proof rests on an inductive invariant, which TLC
checked on an instance of the run's size before it was proved, with one lemma per conjunct
and one step per action. What the invariants say:

- `Credits_proofs`. The ledger (`LedgerInv`): that no debit takes a balance below the minimum depends on the sum
  a writer has read, so `LockedReadIsCurrent` says that a transaction past the lock statement
  owns its user's lock and that its sum is the balance. `AnswerInv` says at which step
  a request's row is there, from which an answer is honest. `Implements` maps every
  step to an operation of `AtomicLedger` or a stutter. Top-ups (`TopUpInv`): a handler on its way to the
  allocation knows that the money came (`HandlersKnow`), a notification tells the truth about it
  (`NotesTell`), the advisory lock keeps two allocations of one payer apart
  (`OneAllocation`), and a credited row says so unless a stale write has erased it
  (`RowsTell`): that is the exception of `CreditIsOwed`.
- `CouponDelivery_proofs`. The coupon (`CouponInv`): one checkout is past the coupon's row
  (`OneHolder`), it has marked every reservation overdue for it (`StaleAreMarked`), and what its
  user and limit checks found is still so (`UserIsNew`, `RoomLeft`), because all other steps only take
  reservations away (lemma `ShrinkStep`). The delivery (`DeliveryInv`): the
  dates a request may write are those of a delivery (`DatesFromDelivery`), the term is that of the
  activation and the renewals since, or a discarding write is on record (`TermKept`); every
  mail sent or still possible is counted against the deliveries (`MailsOwed`, a sum over
  the requests, with the cardinality lemmas it needs), and a delivery without its mail is
  with the watchdog, an open task of the staff or a request (`Pursued`, and `StaffAsked` for the task the sweep knows of).
  Prices: at every commit of every history a currency has one row that starts at a time, a row ends
  where another one starts, and a publication has a row of one price in every currency
  (`WellKept`); rows are never lost but for their ends (`RowsPersist`), so the two reads of a quote, at different
  commits, find rows of one publication (`PublishedTogether`). The administrator's latest
  price: until a publication overtakes it, every USD row that is as late says the same price
  (`LaterPricesAgree`). Cents: rounding down loses fewer cents than there are
  items that lost by it (`RemainderGoesToLosers`), and of the first r items in the order of
  `Spread` there are r (`FirstOnes`); so the cents add up, and only items that lost get one (`SpreadIsExact`).
  `CentsAreExact` and `DraftsAddUp` are about every finite basket and every percentage, not only those of
  `Coupons`.
- `PayPalCheckout_proofs` (`CheckoutInv`): whoever is between lock and unlock holds the lock (`Mutex`), a
  handler gets there with a captured session only (`Earned`), what the fulfilling handler has
  not created is in its `todo` (`Progress`), and an order in process is complete, broken or in the hands of
  a fulfilling handler (`Done`).
- `OrderPayment_proofs`. `KnownInv`: what a request was told of a payment is so, two requests never
  attach one session, what is written follows what was paid. `GivenFor`: who gives was
  paid. `TakenInv`: a payable order has taken nothing but a debit whose holder is at
  work. `PriceInv`: what the lock's holder compared still costs the same. `DoneInv`: an order in process
  is served or about to be.
- `CreditPurchase_proofs` (`PurchaseInv`): what a purchase has behind it at each step (`Way`).
- `SubscriptionRenewal_proofs`. `RenewalInv`: one run at a time unless the job's key
  lapsed (`OneRun`), and a cycle whose claim nobody disturbed is charged by the one run
  that claimed it (`ChargedOnce`). `TermInv`: the term and the terms still to be written are
  covered by charges, payments and gifts (`TermsCovered`), and what was charged is behind the end or about
  to be written (`ChargedIsKept`). The attempt to prove `TermIsWhatWasPaid` showed that the row may have
  fallen behind the date a payment names, and the payment is then lost in part; the property names that
  exception.
- `ClaimGift_proofs`. `ClaimInv`: who holds the identity's row has read the user it has
  (`LockProtects`). `GiftInv`: what a transaction found in a row it locked is still so (`LockedRowsStay`), only
  transactions hold rows (`LocksAreTransactions`), how far a redemption for credits has come
  (`CreditsInOrder`), and what the rows say of what was given (`RewardsAreMarked`, `VouchersAreServed`).
- `SelectionRefund_proofs`. `SelectionInv`: who is at work when (`InTheirTime`), and the promise is the item's
  choice until the selection is locked (`PromiseIsTheItems`). `HandoverInv`: whoever locks the selection is on the
  way to hand the subscription over and to complete the tasks that ask for it. `TaskIsMade` is what a failure
  leaves of that: the provision task or the one that asks for the choice, unless a task was left out. `RefundInv`: the debits
  of a refund cover its compensations and those its requests may still make, each request counted
  once (`TakenFirst`); unless an overlap is on record one request at most is between its look for
  an earlier debit and its own (`DebitsAlone`); and while nothing crossed, a rejection that is let in finds nothing done for the refund and no approval
  let in, and an approval no rejection written, so what a rejection has written stays (`DecidedOnce`).

The price histories and the sums over a basket are recursive functions. The library's induction
theorems take an operator, which no installed prover instantiates; the proofs use induction
over a set instead: the set of numbers (`SetInduction`) or of finite subsets (`SubsetInduction`,
`ElementInduction`) for which a fact holds. A recursive function is a CHOOSE, so before it can be unfolded a
lemma builds one by that induction (`RowsExist`, `SumExists`), and for sums another shows that there is only
one (`SumUnique`).

Every invariant and action property of the passing runs is a theorem. Only model-checked is liveness
(`EveryRequestAnswered`, `CapturedLeavesPending`, `PaidLeavesPending`, `PaidIsCredited`): fairness needs
ENABLED, which is out of the prover's reach.

The types of a component are a theorem rather than a property of a run. No module declares a RECURSIVE
operator.

## Not modelled

`PROJECT.json` ("components") names every part with its status and the reason. In short:

- the front end (a third of the lines) keeps no state of the business; it calls the routes;
- the catalogue but for its prices, BIS enquiries, users, dashboards, notifications, newsletter and
  outbound events create, read, update and delete rows that no other handler's decision depends on;
- authentication is delegated to Supabase; the PIN counters and rate limits are
  counters with an expiry;
- caches are modelled where a decision reads them (balance, refund copy, count of subscriptions), not elsewhere;
- order risk, compliance evidence and the audit log are written and never read by the handlers modelled;
- HTTP parsing and validation, scripts, migrations and deployment.

Of the modelled parts, listings and statistics (they only read) and the wording of mails
are left out, and two smaller things: a Stripe renewal's payment that is processed again by a reconciliation, which
does not look at the recorded events, when the payment names no end date; and the claim's moves of tables that may
be missing, each behind a savepoint that swallows its error (`guestCheckoutService.ts:433`): the run of the claim
has the table of subscriptions only, its theorems any set of tables, none of which fails by itself. `AtomicLedger` stands for the ledger wherever another
component debits or credits; what becomes of a component's step when the ledger's own steps interleave
with it is not lost by that, since `CreditLedger` is proved to implement it.

## Plan

Done: the ledger and its abstract specification, top-ups, refunds, coupons, the six providers and
the checkout with credits, purchases, renewals, delivery, selections, guest claims, gifts and prices, with
the safety properties of all of them proved.

Left, in this order:

1. the monitor's list with several payments, and the scheduler's running set (`JobScheduler.stop`);
2. the entitlements of an order and the delivery of its credentials beyond one order.
