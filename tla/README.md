# Verification of the payment service

This directory models the payment service in TLA+: how money comes in, is held,
refunded and paid out, what fees and coins do to the amounts, and what users
are shown of it. It checks the models with TLC on small instances and proves
their most important invariants with TLAPS. The service is an Express/TypeScript process over Postgres (Prisma)
that takes payments through Razorpay, holds them in escrow, refunds them, and
pays performers out. Several instances may run, every handler is `async`, and
almost every write follows a read that was made a few `await`s earlier: that is
where the hard behaviour is, and what the modules are about.

Run a model with `tlc -config <run>.cfg MC<Module>.tla`, a proof with
`tlapm <Module>_proofs.tla`. `PROJECT.json` lists components, runs, mutants, the
map from definitions to source lines, hazards and theorems.

## Inventory

| Component | State it keeps | Operations | Interacts with | Hard behaviour | Correct when |
|---|---|---|---|---|---|
| escrow service (`escrowService.ts`, `EscrowController.ts`) | `Escrow` rows: `status`, `paymentStatus`, `razorpayPaymentId`, `metadata.visitId`, `errorCode` | create, recover from a Razorpay order, payment event, reassign, admin release, attach/reset performer, link booking | Razorpay webhooks and verify-payment, ledger, coins, coupons | late, repeated, reordered events; read-then-write | a capture is never undone; a refund is final, unless a cancellation that had read the row before it is still to write |
| payment state rules (`escrowPaymentState.ts`) | – | paid / held predicates, transition rule | every writer | stale events | shared by all writers |
| refunds and cancellation (`refundService.ts`, `cancellationService.ts`) | `Refund` rows, escrow status, ledger | processRefund, cancelPayment, status/webhook updates, Book Now line items | Razorpay refund API, payouts, penalties | the Razorpay call comes before any row is written; unconditional writes after it | no refund beyond the capture, none after a payout, no cancellation that keeps money |
| payouts (`payoutService.ts`, `PayoutController.ts`, `autoReleaseScheduler.ts`) | `Payout` rows, escrow claim `held → released` | processPayout, task-completion payout (manual ops / RazorpayX), hold, retry, schedulers | bank transfer, coins, penalties, ledger | concurrent claims, failed transfers, failed bookkeeping after a transfer | the performer is paid at most once; a claim is not leaked |
| recurring visits (`recurringVisitOrderService.ts`, `recurringVisitCaptureService.ts`) | one escrow row per order of a visit, lock rows with a TTL, duplicate-refund jobs | order under lock, capture binding, supersede, duplicate refund | captures, refunds, payouts, reassignment | lock expiry, crashes holding the lock, unlocked writers | one bound payment and one payable order per visit |
| visit refund sync (`recurringVisitRefundSync.ts`, `refundReconciliationScheduler.ts`) | reconciliation flags in metadata | mark refunded, sync, retry, reconcile | Razorpay, task-service | retries by several instances | every refund eventually reflected |
| ledger (`ledgerService.ts`) | `Ledger` entries with running balance | append, read balance | all writers | entries appended outside transactions, errors swallowed | balance covers the held amount |
| coins and rewards (`extraCoinsService.ts`, `rewards/`) | wallet row, earned rows (lots) with what remains of each, redeemed and expired rows | award, grant, preview, redeem, sweep of expired lots | payouts, captures of bookings, webhooks | amounts read before the transaction that writes them; captures reported twice | balance and lots agree; nothing is granted or redeemed twice |
| penalties (`performerPenaltyService.ts`) | penalty rows | create, plan, apply | payouts | two payouts planning the same penalty | a penalty is taken once |
| webhooks and audit log (`routes/webhooks.ts`, `auditLogService.ts`) | `AuditLog` rows by event id | de-duplicate, dispatch, mark processed | everything above | a crash between row and handling; events that overlap | what is marked processed was applied |
| orders and verification (`PaymentController.ts`, `paymentService.ts`, `CouponClient.ts`) | order idempotency rows, coupon redemptions, `Transaction` rows | create order, create escrow, verify, repeat in the background | Razorpay, coupon service, task-service | concurrent clicks, retries, webhook and verify racing | one order per key; a capture enters the books once |
| fees and cancellation policy (`feeCalculationService.ts`, `feeConfigService.ts`, `bookNow*Service.ts`) | `SystemConfig`, `CategoryFeeConfig`, two caches per instance | quote, order, estimate, pay, cancel, refund a line | every amount above | percentages that change between quote and charge; rounding; boundaries in time | what was shown is what is charged and paid; parts add up |
| earnings (`earningsService.ts`, `userPaymentProfileService.ts`) | `UserPaymentProfile` rows | incremental updates, recalculation, overview | payouts, refunds | background updates racing recalculations, or lost | the row comes to say what the tables say |
| histories (`transactionHistoryService.ts`) | – | list with pages and filters, summary | escrows, payouts, refunds, penalties | tables that change between queries; several paths to one row | nothing twice, nothing hidden shown, list and summary agree |
| admin finance (`AdminFinanceController.ts`) | payout and refund rows | hold, retry, freeze, complete, manual refund | payouts, refunds | operators racing schedulers | legal status changes only |
| dashboards, bank accounts, notifications, account deletion, admin login, configuration | read-only, caches or wiring | – | – | – | – |

The hazards this list leads to, each at its line and with the properties that
cover it, are in `PROJECT.json` under `hazards`.

## How the code runs, and how a model follows it

A handler is an `async` function: between two `await`s it runs alone, at an
`await` anything else may run, on this instance or on another one. Every module
therefore has a set of *slots* (`Handlers`, `Schedulers`); `req[h]` is the local
state of the request slot `h` is serving, and **one action is what that request
does from one `await` to the next**. A read that decides and the write that
follows it are two actions whenever an `await` lies between them. A conditional
`updateMany` is one action with a guard and an unguarded outcome for "0 rows"; a
`prisma.$transaction` is one action. `Crash(h)` forgets the local state and
leaves the database as it is. Failures the code handles (Razorpay errors, lost
replies, failed transfers, failed transactions) are members of `Faults`, so that
a run can say which ones it exercises.

Amounts, identifiers and metadata are reduced to what a property tells apart:
a Razorpay payment is a model value, a row carries only the columns some guard
reads. The modules about races take a fee as a choice of amount; the modules
about fees (`Fees`, `FeeRates`, `Bookings`) count paise and basis points and
round as `Prisma.Decimal` does, and take the races from the others.

## Modules

| Module | Models | Extends / uses |
|---|---|---|
| `EscrowPaymentState` | the rules every writer shares (`escrowPaymentState.ts`): paid and held predicates, the transition rule, the conditional-update guard | – |
| `EscrowLifecycle` | one marketplace escrow: payment events, `processRefund`, `cancelPayment`, `processPayout`, the manual-ops branch of `processTaskCompletionPayout` | extends `EscrowPaymentState` |
| `VisitBinding` | the orders of a recurring plan's visits: the visit lock, capture binding, orders and superseding, refunds, payouts, reassignment | instantiates `EscrowPaymentState` |
| `VisitPayments` | abstract specification: what the payments of visits promise | implemented by `VisitBinding` (`KeepsPromise`) |
| `VisitRefunds` | the way back of a visit's money: refund jobs of duplicates, sync jobs to task-service, direct refunds, refund webhooks, `markEscrowRefunded`, the reconciliation scheduler | – |
| `TaskPayout` | `processTaskCompletionPayout` for the tasks of one performer: existing and held payouts, fees, coins, penalties, manual ops and RazorpayX; Book Now holds, operators' status changes | – |
| `CoinWallet` | one wallet: grants, awards, previews, redemption, the sweep of expired lots | – |
| `PaymentIntake` | from checkout to a booked payment: `createEscrow`, `create-order`, the webhook and its event log, verify-payment, everything `updateEscrowOnPaymentCapture` does around the row | extends `EscrowPaymentState` |
| `Fees` | the arithmetic: commission, tax, cancellation fees, Book Now totals, coupons, line refunds (operators only) | – |
| `FeeRates` | where percentages come from: configuration, overrides by category, two caches per instance, failing queries | extends `Fees` |
| `Bookings` | one booking from the quote to its refund, a bidding task or a Book Now checkout, under percentages that change | extends `FeeRates` |
| `Earnings` | the earnings overview and the `UserPaymentProfile` row behind it | – |
| `TransactionHistory` | the transaction list of a poster and a helper, read query by query, and its summary | – |
| `*_proofs` | theorems about the components of that name; `Earnings_proofs` has those about `TransactionHistory` too, and `TaskPayout_proofs` those about `Bookings`, two pairs whose names do not clash | – |
| `MC*` | instances for TLC: values, symmetry sets, bounds | – |

Operators named `X_Something` (`X_Name` where the name is that of a function of
the code) and commented "Wrong on purpose" stand before the definition they
replace: they are plausible bugs of that code, listed under `mutants`,
and each breaks the property it is listed with. No specification uses them.

### EscrowLifecycle

State: the `Escrow` row (`status`, `paymentStatus`, `razorpayPaymentId`),
Razorpay's view of each payment, the latest `Refund` row per payment, the live
`Payout` row, the transfers made to the performer, and whether the ledger
balance covers the escrow. `Init` is a row as `createEscrow` stores it, or as
`recoverEscrowFromRazorpayOrder` rebuilds it; rows created `held` for a free
order have no Razorpay payment and are outside the model.

| Code | Actions |
|---|---|
| `updateEscrowOnPaymentCapture` | `ReceivePaymentEvent` (read, rules) → `ApplyPaymentEvent` (conditional update) → `BookCapture`, or `ReadBalanceForFailure` → `BookFailure` (`handlePaymentFailure`) |
| `processRefund` | `BeginRefund` → `CheckEscrowForRefund` → `QuoteRefund` → `CallGatewayRefund` → `CommitRefund` |
| `cancelPayment` | `BeginCancel` → (`processRefund`) → `RereadForCancel` → `WriteCancelled` → `BookCancellation` |
| `processPayout` | `BeginPayout` → `ClaimForPayout` → `TransferToBank` → `RecordPayout` or `RollbackClaim` |
| `processTaskCompletionPayout`, manual ops | `BeginTaskPayout` → `CommitTaskPayout`; `OpsSettlePayout` is the operator |

### VisitBinding and VisitPayments

State: one row per order, Razorpay's view of its payment, the lock row of each
visit, the requests. The steps in `LockedSteps` run with the lock row of the
request's visit; a crashed holder leaves a `Dead` row that waiters expire, and
with the fault `lockExpiry` they also expire the row of a holder that is merely
slow (the 30 s TTL). `PayOut`, `ReceivePaymentEvent` and the reassignment take
no lock, as in the code. A row that changed and changed back between the read
and the write of a reassignment is refused by the code (`updatedAt`) and accepted
by the model. An untagged paid escrow that a read tags with its own visit is not
modelled.

`VisitPayments` forgets locks, events and requests: an order is open, becomes
the visit's payment (bound) when the visit has none, or is rejected because it
has one; money is returned once. `KeepsPromise` says the locked handlers
implement it, under the mapping `visit <- metadata.visitId`, `state <- Outcome`.

### VisitRefunds

State: the order rows of one visit after binding, which payments Razorpay has
returned, completed `Refund` rows, operator flags, one `JobQueue` row per order
(status, attempts, claimant), how often task-service accepted the refund, the
visit's lock row, crashes. A slot runs one of five tasks (`duplicate`, `refund`,
`direct`, `webhook`, `reconcile`), which share the steps of
`processRefundUnlocked`, `issueDirectRefund`, `markEscrowRefunded` and the sync.
Refunds are full, as the code demands for visits. Partial and unverifiable
refunds (flagged to operators), the `unrecorded_refund` flag, the row limits of
the scheduler's queries and the rollback of a payout are left out.

### TaskPayout

State: the status of each task's escrow, the `Payout` rows, what each pending
cancellation penalty still is (`remainingAmount`), what rows deducted for it
(`penaltyLines`), the money transferred per task, the requests. `EscrowLifecycle`
has the payout of one escrow next to its refunds and payment events; this module
has the whole function, for several tasks that share the performer's penalties.

| Code | Actions |
|---|---|
| `processTaskCompletionPayout`, until a plan is made | `BeginPayout` (existing payout, visit scope) → `FindHeldPayout` (or no bank account) → `ResumeHeldPayout`, or `ReadEscrow` → `PlanPayout` (fees, coins, `planPenaltyDeductionsFromGross`) |
| ... penalties use it up / manual ops | `RecordAdjustedPayout`, `RecordManualPayout`: one transaction |
| ... RazorpayX | `ClaimForTransfer` → `TransferRazorpayX` → `InsertPayout` → `ApplyPenalties` |
| `holdBookNowTaskPayouts` | `BeginRaiseIssue` → `HoldBookNowPayout`, a request per row |
| admin finance | `UpdatePayoutStatus`, `HoldPayout` (and `freezePayout`), `OpsPayOut` (the manual queue) |
| refunds, cancellations | `RefundHeldPayment`, their effect on a held escrow |

Coins enter as a choice up to the fee; their wallet is `CoinWallet`. A visit is
named by its task. A payout status `reversed` is treated as `failed`, as the code
does. Operators are taken not to reopen a completed row by hand, and to complete
a manual one only by transferring it. `reopened` is a history field: a completed
row that was put on hold or resumed.

### CoinWallet

State: the `ExtraCoinWallet` balance, and per earned row (a lot, named by the
idempotency key of its grant) what was granted, what remains, whether it
expired, and what redeemed and expired rows took from it. `overlapped` is a
history variable: two requests that read and write lots ran at once.

| Code | Actions |
|---|---|
| `applyExtraCoinsForPayout` | `BeginPayoutRedeem`, `BeginBookingRedeem` (`redeemCustomerCoinsOnEscrowCapture`) → the sweep → `ReadWallet` → `ReadLots` → `CommitRedeem` |
| `expireExtraCoins` | `ReadExpired` → `WriteExpired`, then what its caller does (`AfterSweep`) |
| `previewExtraCoinsRedemption` | `BeginPreview` → the sweep → `PreviewLots`; its answer is what the order promises |
| `getExtraCoinsWallet` | `BeginRead` → the sweep |
| `awardExtraCoinsForCompletedTask`, `issueGrant` | `BeginAward`, `BeginGrant` → `FindGrant` → `CreateGrant` (unique key) |
| time, failures | `Lapse`, `DbError`, `Crash` |

### PaymentIntake

State: orders, idempotency rows, Razorpay's attempts, escrow rows, coupon
redemptions, `Transaction` rows, the ledger's payment entries, the calls that
told task-service, the `AuditLog` row of each event. `faulted` and `overlapped`
are history variables: the orders one of whose requests met a fault, or two of
whose events ran at once. Razorpay, the coupon service and task-service are
external.

| Code | Actions |
|---|---|
| `createEscrow` | `BeginCheckout` → `ReserveCoupon` → `MakeOrder` → `InsertEscrow` (→ `ConfirmFree`), or `OrderRejected`, `InsertFails` |
| `PaymentController.createOrder` | `BeginCreateOrder` → `FindKeyedOrder` → `MakeOrder` → `SaveKey` or `SaveFails` |
| `POST /razorpay` | `BeginWebhook` → `Deduplicate` → `LogReceived` → the event → `MarkProcessed` |
| `verifyPayment` and its repeat | `BeginVerify` → the event |
| `updateEscrowOnPaymentCapture` | `FindEscrow` (→ `Recover`) → `ApplyEvent` → `ReleaseCoupon`, or `RecordTransaction` → `ConfirmCoupon` → `BookCapture` → `NotifyBooking`; `Reconfirm` on the idempotent path |

Coins are redeemed by the same handler; `CoinWallet` has them. The ledger is
reduced to how many payment entries an escrow has. An error of the ledger itself
is swallowed there (`ledgerService.ts:89`) and the handler goes on to task-service;
`DbError` ends it, so that call is left out for orders that met this fault.

### Fees, FeeRates and Bookings

Time runs down to the start of the service (`left`, minutes). `FeeRates` has the
configuration and, per instance, the two caches with the moment each entry was
loaded; `changed` is the last moment at which the configuration changed or a
query for it failed. `Bookings` has one booking: the total shown last, what the
tasker was told, the order with its percentages, the partner, and for Book Now
the services (the lines of the checkout), the `Refund` rows and up to two refund
requests between their awaits.

The moments at which something happens are a finite set, and `Pass` moves to the
next one; any set will do. The rates of several categories are loaded one after
the other, but each load touches only its own category's entry and that of
`default`, so `KeptAfter` says at once what an instance keeps after all of them,
in whatever order. The constants are assumed to be a sensible configuration,
as its comments describe it (`feeConfigService.ts:30-65`): percentages between 0
and 100%, the two parts of a cancellation fee adding up to it (70% and 30%), a
positive price in total, a cache that keeps something for a while. The code
does not check what administrators write (`upsertCategoryFeeConfig`, `SystemConfig`).

| Code | Actions |
|---|---|
| `FeeController` | `calculateFees`, `estimateTaskerPayout`, `calculateBookNowOrderTotals` |
| `EscrowController.createEscrow`, `createEscrow` (amounts) | `createVisitOrder`, `createEscrow` |
| payout on completion (fees) | `payCompletedTask` |
| `processRefund` (amounts) | `cancelTask` |
| `attachPerformerToEscrow`, `resetPerformerOnEscrow` | the actions of that name; `PartnerArrives` is task-service's news |
| line items, whole bookings | `processBookNowLineItemRefund`, `cancelEscrowByBookingOrderId` → `QuoteRefund` → `CallGateway` → `CommitRefund` or `BreakOff` |
| administrators, time | `ConfigurationChanges`, `Pass` |

### Earnings

State: the payouts' statuses, the Book Now payouts still hidden, the
compensations, those of them no sum counts, the profile row per account, the
background updates under way, one recalculation per slot, one reader. A change of a
payout that is reported starts an update with the status the changer read
(`ReadPayout`, `updatePayoutStatus`); it runs as one statement for the pending sum, a
clamp and one for the earned sum, each at any later time or, with `lostUpdate`, never.
`drift` is a history variable: why the updates of an account may not add up to what a
sum of the tables yields. Amounts are summed by queries that see different moments
(`ReadSum`); `getUserEarnings` is served from the row, from a fresh
recalculation or from the tables.

Not every change is reported. `SilentChange` has the ones that tell no profile, or
tell it what no sum agrees with, and each makes the account drift until its next
undisturbed recalculation:

| Code | Action |
|---|---|
| `holdBookNowTaskPayouts` (`payoutService.ts:2446`) | `holdBookNowTaskPayouts` |
| a held payout resumed by a completion call (`payoutService.ts:1108`) | `ResumesHeldPayout` |
| a payout failed after its transfer (`payoutService.ts:900`) | `processPayoutFails` |
| `holdPayout`, `freezePayout` (`AdminFinanceController.ts:1080`, `1690`) | `holdPayout` |
| `deletePayout` (`AdminFinanceController.ts:1866`) | `deletePayout` |
| a line refund (`refundService.ts:1341`); the booking of a compensation given to the account (`escrowService.ts:896`) | `CompensationJoins` |
| a refund Razorpay reports failed (`refundService.ts:1489`); `deleteRefund` (`AdminFinanceController.ts:1901`); the booking taken from its helper (`escrowService.ts:896`, `948`) | `CompensationDrops` |
| the fee of a task its helper cancelled: reported (`refundService.ts:839`), while the sums count the poster's cancellations only (`userPaymentProfileService.ts:240`) | `CompensateCancelling` |

A compensation belongs to one account: that one comes back to a helper it was taken
from is not modelled. The synchronous recalculation of a request is
`recalculateUserPaymentProfile` (`earningsService.ts:273`): the same three sums, and the
poster's, which no helper sees; so the slot of a reader is that function too. Polls of rows in the development database
are left out.

### TransactionHistory

State: escrows, payouts, refunds and a pending penalty with the moment each was
made and finished, the payouts still hidden, and one request with what its
queries have read. A hold for an issue of a booking ends the window of its payout and
a resume begins one (`MovesPayout`). `Cancel` is a cancellation nothing overlaps;
`EscrowLifecycle` has the overlaps. `BeginTransactions` reads the escrows, `ReadPerformerPayouts`
and `ReadPosterRefunds` the other tables, each the newest `fetchLimit` rows;
`AnswerTransactions` puts the answer together: rows by escrow, gap-filled payouts,
standalone refunds, one line per payment of a task, filter, order, and the page of
`limit` rows from `offset` on. `changed` is a history variable: what the tables
changed while the request ran, which the properties except. The summary's totals
are operators over the tables; they are compared with the list (`FullList`)
where one query takes all rows (`ListsAll`).

## Runs

| Run | Bounds | Shows |
|---|---|---|
| `EscrowLifecycle_all` | 2 slots, 2 payments (one may be captured), amount 2, all endpoints, crash, gateway, bank and database faults | the performer is paid once, a held escrow still has its money, a capture is final, and so is a refund that no cancellation under way overwrites |
| `EscrowLifecycle_sequential` | 1 slot, 2 payments, all endpoints, early settlements, bank and gateway failures, fairness | what the comments promise of refunds and cancellations is true when requests do not overlap: solvency, one refund per payment, none after a payout, no cancellation that keeps money; a claimed escrow is paid out or handed back |
| `VisitBinding_locked` | 3 orders of one visit, 2 slots, crashes | one bound payment, one payable order, no order for a paid visit, no paid order cancelled without cause, and `VisitPayments` is implemented |
| `VisitBinding_moves` | 2 orders, 2 visits, 2 slots, reassignment, failed reads, expiring locks | only a payment still held moves to another visit |
| `VisitRefunds_all` | a visit payment and a duplicate, 1 request, 1 scheduler, 2 attempts, 1 crash, all faults | no refund job is completed without the money returned; task-service is told only of refunded payments of the visit |
| `VisitRefunds_fair` | the same with fewer faults, fairness | every refund is told (once, without a crash) or left to an operator; a payout is never overwritten, and a refund it overtook is flagged; duplicates are refunded unless their claim died with its instance |
| `TaskPayout_all` | a Book Now task and a recurring visit, 2 rows, 2 slots, amount 2, fee 1, coins up to 1, a penalty of 2, both modes, all operations and faults | no row and no money before the claim; one row per held payment; at most its amount is paid; no penalty is forgiven |
| `CoinWallet_all` | 2 lots, up to 2 coins, 2 bookings, a payout, 2 slots, failing queries, crashes | however requests overlap the balance is what the rows add up to and no lot loses coins; requests that do not overlap keep lots exact and redeem each key once |
| `PaymentIntake_all` | 2 orders, 2 payments, 1 key, 2 slots, captured and failed events, all faults | a capture is booked once and never left out without a fault; coupon and transaction follow it; what is marked processed was applied (checkouts and live task orders); one order per key; no coupon is used up by an unpaid order |
| `Bookings_all` | a task of 499.99 and a checkout of services of 211.11 and 129.00 in two tax classes, with or without a coupon of 100.01 and coins, moments at 1445, 1440, 1430 and 60 minutes, 2 instances, 1 change of configuration, failing queries, 2 refund requests | `ChargesHold`: quotes are accepted and estimates paid once the caches agree, captured money covers refund and fee, fees are split to the paisa and never fall by waiting; `ToldIsMet`: coupons lower the charge by what they say, old orders pay no less than told, a receipt names a free cancellation when it was one; `BookingAddsUp`: line refunds add up, and their receipts tell how |
| `Earnings_all` | 1 account with a Book Now payout and a compensation, 2 movers, 2 changes of the tables, reported or silent, 1 recalculation at a time, fairness | where the account did not drift the row is exact; no payout shows twice; the row always heals |
| `TransactionHistory_all` | a booking of two services, two orders of one task, two payouts, two refunds; up to 6 changes, of which the first two are fixed (the orders paid first); 5 kinds of request | no row twice, no held or hidden payout, none missed, list and summary agree |

**Why the bounds are enough.** Every rule in this code relates at most two
requests to one row: what one read, what another wrote meanwhile. Two slots give
all such interleavings; the theorems below cover any number. Two payments let a
second attempt follow a failed one; a third order of a visit lets a duplicate
and a superseded order exist beside the winner. `Amount = 2` has a partial, a
full and an empty refund. In `TaskPayout` a penalty of 2 against a payout of 1
or 2 is taken in part, in full, and planned with twice; rows of 2 tasks are what
an overlap needs. Tasks without an escrow (`Direct`) and several penalties are
left to the theorems, which cover them. Attempts saturate at `MaxAttempts`, `told` at 2 and
`MaxCrashes = 1`, because one crash is what a recovery has to survive and two
tellings are one too many; `paid` saturates at `MaxPaid`, beyond the amount.

`CoinWallet`: two lots of up to two coins let a redemption take a part of one,
all of one, or parts of both, and a sweep take one and leave one; the constraint
`ChargedBound` stops counting what overlapping requests charge beyond twice a
lot. `PaymentIntake`: one order that is paid has up to two attempts; two orders
are made only under one key and stay unpaid (`TwoAreKeyed`), since nothing but
the key relates two orders; once something failed there is no second attempt
(`FewAfterFault`). `Bookings`: the prices, the coupon and the rates are chosen so
that every division leaves a remainder, the moments lie on both sides of 24
hours, the grace period and the TTL; the view forgets percentages no later action
reads. `Earnings`: two movers are what a stale status needs, one change more than
two repeats a case. `TransactionHistory`: the two payments it starts with and four more changes make a booking, its
payout, a refund and a second payment of a task move while a request runs; the
symmetry of the two refunds is used.

Symmetry is used in runs without liveness only.

Deadlock is not checked where the system may stop: once every payment has
settled and every row is final no request has anything to change.

**Fairness.** `FairSpec` has weak fairness on the continuations of a request in
flight (`Continue(h)`): Node runs every resolved promise. In `VisitRefunds` the
scheduler has strong fairness per row it selects: the cron job runs for ever and
its queries reach every due row, though other work may disable it in between.
Nothing else is assumed: no webhook, request, operator or crash has to happen,
and a failure may happen every time. In
`Earnings` background work and the request in flight have weak fairness, rows
grow old, an account is asked about again and again (its owner's overview,
without which nothing recalculates a row), and a recalculation that is started
again and again does not fail every time (strong fairness).

## Observations

Each of these was met while modelling; the properties above are stated for what
does hold, and say what they except.

Refunds, cancellations and visits:

- `cancellationService.ts:288` writes `cancelled` unconditionally. The re-read
  before it protects a captured payment only if a refund of it was tried and
  failed; a payment captured after the first read was not tried.
  `CancelReturnsMoney` is checked with one slot.
- For the same reason "refunded/released escrows are never re-held"
  (`escrowPaymentState.ts:39`) is not so: a refund is past its gateway call; a
  cancellation reads the row again, still `pending`; the refund commits and the row is
  `refunded`; the cancellation writes `cancelled`; and a captured event that arrives
  late, which a cancelled row takes, makes it `held` and so payable (TLC reaches a row
  held after a refund in 13 steps). `RefundIsFinal` excepts a cancellation between its second reading and
  its write, and nothing else.
- `refundService.ts:671` sets `refunded` whatever the status has become; the
  check against `released` was an external call earlier (`NoRefundAfterRelease`,
  one slot). Two partial refunds pass the idempotency check together: the
  `Refund` row it looks for is written after the Razorpay call
  (`refundService.ts:581`; `RefundedOnce`, one slot).
- `reassignRecurringVisitEscrow` runs outside the visit lock, and its check of
  the target ignores payments that were paid out, so a visit can get a second
  bound payment; `OneBoundPayment` is checked without moves. The lock's TTL is an
  assumption about how long a holder takes; `BoundOnce` names it.
- The retry of duplicates' refunds selects `pending` jobs, step D of the
  reconciliation duplicates without a job: one left in `processing` by a crashed
  instance is never retried (`SettledOrAbandoned` excepts it).
- The idempotency check takes any refund row of the payment for its own: a whole
  booking cancelled after one line was refunded reports success with that line's
  refund. `processBookNowLineItemRefund` takes no lock and never looks at status
  `refunded`: overlapping line refunds overwrite each other's metadata and
  status, and one that broke off after the Razorpay call can be made again.
- A refund webhook `failed` overwrites a completed refund
  (`refundService.ts:1483`) while its escrow stays refunded.
- For a bidding order bought with a coupon or coins the refund is computed from
  the task's amount, so it exceeds the captured one and is refused.

Payouts:

- `holdBookNowTaskPayouts` also holds completed rows ("Do not hold rows already
  paid out to bank ...", `payoutService.ts:2437`, is not what it does), and a
  completion call resumes them as `processing` (line 1112), so a manual payout
  returns to the operators' queue after it was transferred. `PaidWithinHeld`
  excepts these rows (`reopened`).
- A completion call resumes any held row of the task, not only one held by a
  raised issue, so it ends an operator's hold or freeze. Two concurrent
  completions of a task without an escrow both pay (line 1774).
- A penalty planned by two overlapping payouts is deducted by both. `NeverForgiven`
  is the direction that holds.
- `enqueueOnMissingBank` is never true in this repository and `payout_retry` jobs
  have no worker in it; neither is modelled.

Intake and coins:

- Of two events that overlap the loser of the conditional write is dropped, also
  a capture that loses to `authorized`, and so is the second of two that rebuild
  a missing row; a slow `authorized` handler can set a captured `Transaction` row
  back. A failed attempt gives back the coupon of an order that can still be paid.
- `recoverEscrowFromRazorpayOrder` asks Razorpay for the order with the live keys only
  (`escrowService.ts:1160`). A payment tester's captured order that `create-order` made,
  which has no row, is not found and not rebuilt; the webhook marks the event processed
  all the same, so no retry applies it. `ProcessedIsApplied` speaks of checkouts, which
  have a row, and of live task orders.
- After a crash between the conditional write and the ledger, the repeat takes
  the idempotent path and does not book; a delivery that crashed is answered
  "Already processed".
- "so checkout matches capture redemption" (`extraCoinsService.ts:267`) is not so
  for two checkouts that count on the same coins. Overlapping redemptions take
  from one lot twice and overlapping sweeps can leave a negative balance; a
  webhook and a verify call that overlap redeem one booking twice; coins spent by
  a payout attempt that then loses the claim stay spent; free orders redeem none.

Fees:

- "Clear fee structure cache so changes take effect immediately"
  (`feeConfigService.ts:443`): the GST cache is not cleared, and other instances
  keep both for up to five minutes.
- The estimate "matches task-completion payout math" only for orders of the
  current policy; older ones pay 5% commission.
- A service cheaper than its flat fee cannot be cancelled. A fee that leaves 5
  paise modulo 10 is split into parts a paisa larger than the fee.

Earnings and histories:

- Two movers that read the same status both count a completion; a completed
  payout moved away and completed again counts twice; a hidden payout counts when
  it completes and is dropped by the next recalculation; the first increment of
  an account without a row makes a row with that amount only.
- Holds, resumes, deletions, late failures, line refunds and a change of helper tell
  no profile (the table under Earnings lists them), so an overview shows, say, a held
  payout as earned until the row is recalculated. All of these heal (`SelfHeals`).
- The escrow query skips `offset` rows and the answer is cut by `offset` again,
  so later pages lose rows and their `total` differs; the type `payment` is
  always empty; the summary counts the newest paid escrow of a task while the
  list keeps the highest rank, and counts refunds of escrows the list dropped.

## Proofs

| Theorem | States | Assumes |
|---|---|---|
| `TypeCorrect`, `VisitTypeCorrect`, `RefundsTypeCorrect`, `PayoutTypeCorrect` | the type invariants | – |
| `CaptureFinal` | a capture is never undone | – |
| `RefundFinal` | a refunded escrow stays refunded for ever, unless a cancellation that had read the row before the refund was still to write (`RefundStands`) | – |
| `RefundFinalSequential` | a refunded escrow stays refunded for ever | requests one at a time |
| `PaidOnce`, `HeldUnpaid` | the performer is paid once; a held escrow still has its money | at most one capture per order (Razorpay), no settlement of an uncaptured payment (task-service, `PaymentController.ts:516`) |
| `SolventSequential` | no more is refunded and paid out than was captured, for any number of captures | requests one at a time; no crash, lost answer or failed write |
| `RefundDue` | Razorpay returns a payment once, and none after the payout claimed the escrow | as before |
| `CancelReturns` | a captured escrow is cancelled only with nothing owed | requests one at a time |
| `BoundOnce`, `OneOrderActive` | one bound payment and one payable order per visit | no lock expires under a live holder, no payment is moved between visits |
| `PaidOrdersStay` | no order for a paid visit, no cancellation of a paid order | as before, and the read of a visit's orders answers |
| `PromiseKept` | the handlers implement `VisitPayments` | as before |
| `HeldPaymentsMove` | only a held payment changes its visit | – |
| `CompletedReturned`, `ToldRefunded` | the job of a duplicate and the notice to task-service follow the money | – |
| `ToldAtMostOnce` | until a crash, task-service is told of a refund once | no claim outlives `SYNC_CLAIM_STALE_MS`, an accepted call is answered |
| `PaidOutKept` | a paid-out visit order stays so | no `processRefund` of the visit's payment |
| `ClaimedFirst`, `PaidByOneRow`, `PaidNoMoreThanHeld` | the claim comes first; one row per held payment, within its amount | – |
| `PenaltiesKept` | no penalty shrinks by more than rows deducted for it | – |
| `ChargedAsAgreed` | quotes accepted, estimates paid, cancellations covered, split and never cheaper for waiting, whatever changes under them | percentages are at most 100%, the parts of a cancellation fee are the whole of it: the configuration's meaning, unchecked by the code |
| `BookingsAddUp` | what a Book Now booking keeps when its services are refunded is the fees on its receipts, to a paisa per service | as before; the services cost something (requests that overlap or break off are excepted by the property) |
| `LotsNeverLost` | a lot of coins holds no more than granted, no less than the rows that name it left, whatever overlaps | – |
| `WalletRight` | the balance is what the rows of the wallet add up to, whatever overlaps | – |
| `WalletAgrees` | requests that do not overlap keep lots exact and redeem no key twice | – |
| `IntakeCorrect` | one order per key, coupons used up only by paid orders | – (orders that overlapped or met a fault are excepted by the property) |
| `BookedOnce` | a capture is booked at most once, and exactly once where nothing failed | – |
| `RowRight` | a row whose updates have run is what the tables add up to, unless its account drifted; nothing is shown as earned and pending at once | amounts are not negative (what excuses an account is in the property: `drift`, which lost, misreported and overlapping updates and silent changes set) |
| `HistorySound` | no row of an answer twice, each well-formed | ids are unique, no fee is more than it is taken from, `limit` is 1..100 (as the code has it) |
| `HistoryShowsPayouts` | no payout held back in an answer, none missing from one page | as before |
| `HistorySummaryAgrees` | the totals are those of the list; every completed refund shows in it | as before; a task with a Book Now booking has no other payment |
| `CapturesFollowedUp`, `ProcessedApplied` | what follows a capture is done; a processed event of a checkout or a live task order was applied | – (overlaps and faults are excepted by the properties) |

Each holds for any number of slots, payments, orders, visits, lots, accounts, crashes
and attempts. Where a theorem assumes something, the runs and the observations above
show what happens without it. None of the properties is inductive; the
strengthenings are:

- `IInv` (`EscrowLifecycle_proofs`): `RequestInv` says what a request may rely
  on (an event that passed the rules was emitted, a refund that commits is of a
  captured payment), `PaidInv` that a held or released row names a captured
  payment, `ClaimInv` that at most one payout is between claim and record, that
  then the row is not held, and that nobody is once money moved. `PaidOutOnce`
  alone is not preserved by `TransferToBank`: only the claim says that no other
  transfer was made.
- `SolventInv` (`EscrowLifecycle_proofs`): with one request at a time the status
  of the escrow tells which way its money went (`Sequential`): released was paid
  out, refunded was returned, anything else is still there. `Solvent` itself adds
  up payments; `SolventFollows` bounds the sum by the number of captures.
  `CancelInv` is the same for a cancellation: it works on the escrow's payment,
  and a refund that failed in any way, or whose answer was lost, leaves it `owed`.
- `VInv` (`VisitBinding_proofs`): `LockInv` is mutual exclusion, `ScopeInv` that
  a request works on the visit it locked, `OwnInv` that nobody touches an order
  before it exists, `WonInv` that what a capture concluded from its siblings is
  still true when it writes, because only lock holders bind.
- `AInv` (`VisitBinding_proofs`) adds `RowWell`, which statuses a row combines,
  and `Kept`: what a request found out about its visit (its orders are
  superseded, it has no payment, another payment is bound) is still so at the
  write. A row is written in six ways (`Written`), and every step of the
  invariant, of `PaidOrdersKept` and of the refinement goes through them.
  `PromiseKept` is a step simulation: each of the six ways maps to a step of
  `VisitPayments` or to a stutter.
- `GInv` (`VisitBinding_proofs`) needs no lock: the `Rank` of a row (open,
  authorized, cancelled, settled) never falls, so that the conditional write of a
  capture that inspected an older row finds it further on, or moved only while
  held (`Inspected`).
- `RInv` (`VisitRefunds_proofs`): `Right` says what a request knows of its order
  at each step. It is stable without any lock because money returned stays
  returned and a refunded order stays refunded (`Monotone`), which is why stale
  claims and expired locks cannot break the theorems.
- `OnceInv` (`VisitRefunds_proofs`): the slot between claim and record is the
  claimant of the job (`TellerInv`), and a job that can be claimed has not been
  told of (`JobInv`). The number of requests, webhooks and schedulers does not
  enter the argument.
- `PInv` (`TaskPayout_proofs`): `Knows` says that between claim and row a payment
  has no row and, before the transfer, no money, and that a plan never takes a
  penalty below what is and will be deducted for it; `RequestInv` adds that no
  two requests hold the same claim, `RowInv` that a manual row never completed
  was not paid. `PaidWithinHeld` alone is not preserved by `OpsPayOut`, and
  `NeverForgiven` not by `ApplyPenalties`, which writes amounts planned before
  other payouts were recorded: the plan's own deduction makes up for it.
- `BookInv` (`TaskPayout_proofs`) is about `Bookings`. `RatesInv`: a value an
  instance keeps is the one stored now, or was kept before the last change; `RatesSettle`
  says it only of values young enough to be served, and a change makes more of them
  differ, so it is not inductive. `TaskInv` and `AnswerInv` carry the same
  proviso (`Timely`) from the quote to the order and from the estimate to the
  payout: what was said equals what the stored percentages give, or the
  configuration changed too recently. `RefundInv`, while refunds do not overlap:
  the one request in flight knows the lines listed and dropped (`Aims`), its
  amount and fee are what its line cost (`Gives`), and what was given back and
  kept is the cost of the lines done with (`Books`, `Balanced`).
  `FeesExplainRetained` speaks of the last state only, and needs `BasesAddUp`:
  the rounded costs of the services differ from the captured amount by at most a
  paisa each. `BuysInv` types the rows a checkout shows, which the coupon's
  arithmetic needs.
- `CInv` (`CoinWallet_proofs`): `ReadInv` says that what a sweep or redemption
  read of a lot may be old, but plus what rows charged since it still covers
  the grant (`Evolves`: charges only grow, a grant is final), which is why an
  overwrite loses no coins; `AloneInv` that without overlaps one request at a
  time works on lots, what it read is what they hold, and its key is not
  redeemed. `AgreeUnlessOverlap` alone is not preserved by `CommitRedeem`,
  which writes from a reading two steps old. `WalletRight` adds that each
  transaction changes the balance by what it changes in the rows.
- `OrderInv` (`PaymentIntake_proofs`) is stated for one order, because a request
  works on one: `Knows` says what it has found out, `ShareInv` that the one
  request that wrote the capture has yet to book it or did, `AloneInv` what holds
  of orders whose events do not overlap. Lemma `OneOrder` lifts a step on one
  order to all. Keys relate orders to each other and have `KeyInv`.
- `EInv` (`Earnings_proofs`): the row of an account that did not drift is the sum
  of what was brought to it, at every moment (`Counted`): a payout counts with
  the status its update has not yet replaced, and as earned once that update has
  run. It needs that an item has one update at most and that this tells the
  status the table has (`ItemInStep`). `UpdatesAgreeWithSums` says it only for
  accounts without updates and is not preserved by the last update. A
  recalculation that counts as clean read the tables as they are (`CleanInv`),
  and what a request took down as earned is earned still, or nothing under way
  can clear the account's drift (`OverlayInv`). Every change is of one item
  (`Touches`), so a step is checked for that item (`AboutItem`) and lemmas carry
  it to the account's sums and to the other accounts. A
  silent change brings nothing to the row: the account drifts, and `Counted` asks
  nothing of it until a clean recalculation; what is left to show is that no other
  account's sums move.
- `HistoryIInv` (`Earnings_proofs`): the tables are well-formed and nothing in them
  is later than now (`TablesSound`), which is what orders pages; and each step of
  a request holds rows that are right about everything that has not changed since
  it began (`ReqInv`): none twice, none held back, every payout there was.
  Only the second reading of the payouts makes the answer complete (`HasPayouts`), and
  only the gap filling keeps the two readings apart. `ReturnInv`, which the
  summary needs, bounds what a payment returned: no refund is more than its line or
  payment, a whole refund leaves no other, lines are refunded once (`LinesOnce`).
  Neither `RefundsVisible` nor `totalSpent` follows without it.

`FiniteSums` has the facts about sums these proofs need: the sum over a finite
set exists, changes with one summand by its change, is bounded by the largest
summand times the size, is the same group by group (`SumGroups`) and under other
names (`SumNamed`, what compares a total with a list), and is multiplied with its
summands (`SumTimes`; `SumScaled` bounds what rounding each summand adds).
`FunctionSum` and `FunctionOnSetSum` tie it to the library. The fold operators of the library are defined by a
`CHOOSE` of a function; the module says which function that is. Induction over
finite sets is not available to the installed provers, so each lemma takes a
smallest set on which it fails, by `WFMin` on strict subsets.

Left to TLC are the liveness properties (`ClaimResolves`, `EveryRefundEnds`,
`SelfHeals`) and `ToldIsMet`. The three parts of `ToldIsMet` are true of the amounts and
percentages in use, not of all: on a task of a few paise a fee rounds to
nothing though the receipt names its percentage; with a commission below 5% an
order of the old policy pays less than the estimate; and a discount spread over
many categories is rounded up in more of them than the bound's paisa per
category covers (TLC's checkout has two; six of five paise each break it).

## Not modelled

- `dashboardService.ts`, earnings by period, the poster's totals and the detail of one
  transaction: queries that change nothing and relate no two tables.
- Bank accounts and the encryption of their fields, admin login, the coupon
  proxy, account deletion, notifications and the clients of other services: one
  write or call each, with no protocol; a failed notification is only logged.
- `payoutBundleService.ts`, payout webhooks of RazorpayX, the auto-release
  scheduler's selection and operators' retry jobs: bookkeeping around the payout
  endpoints that are modelled.
- The ledger's chain of balances: `EscrowLifecycle` has whether the balance covers
  the escrow, `PaymentIntake` how often a payment was entered.
- Admin release and the links between bookings; partial refunds of a visit.
- The circuit breaker of outgoing calls, routing, configuration of the process.

## Plan

1. `LedgerBook`: `createLedgerEntry` as a chain of balances instead of `funded`.
2. Payout webhooks and bundles in `TaskPayout`.
3. Admin release and booking links as further endpoints of `EscrowLifecycle`.
4. The conditions on amounts and percentages under which `ToldIsMet` is a theorem.
