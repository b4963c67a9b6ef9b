-------------------------------- MODULE Fees --------------------------------
(***************************************************************************)
(* Fee and cancellation arithmetic: feeCalculationService,                 *)
(* bookNowCancellationPolicy, the totals of bookNowGstService and the      *)
(* amounts payoutService and refundService take from them.  An amount is a *)
(* natural number of paise, a percentage one of basis points, a moment the *)
(* number of minutes left until the service starts.                        *)
(***************************************************************************)
EXTENDS Integers, Sequences, SequencesExt

\* Larger and smaller of two amounts (Prisma.Decimal.max and min).
Larger(a, b) == IF a > b THEN a ELSE b
Smaller(a, b) == IF a < b THEN a ELSE b

\* a / b to the nearest unit, halves up (toDecimalPlaces(2), Math.round).
Nearest(a, b) == (2 * a + b) \div (2 * b)

Whole == 10000
\* A percentage of an amount, rounded to a paisa.
Share(amount, percent) == Nearest(amount * percent, Whole)

-----------------------------------------------------------------------------
(* Fees of a bidding task under a fee structure s.                         *)

PlatformFeeTotal(task, s) ==
  LET fee == Share(task, s.platform) IN fee + Share(fee, s.gst)

\* What the poster is shown and charged: no payment gateway fee.
calculatePosterFees(task, s) ==
  [taskAmount |-> task, platformFeeTotal |-> PlatformFeeTotal(task, s),
   totalAmount |-> task + PlatformFeeTotal(task, s)]

\* Wrong on purpose: the tax on the commission is not taken off.
X_estimateBiddingTaskCompletionPayout(task, s) == task - Share(task, s.platform)

\* What the tasker is told a completed task will pay.
estimateBiddingTaskCompletionPayout(task, s) ==
  Larger(task - PlatformFeeTotal(task, s), 0)

\* The commission a completed task is charged: rows made under the old policy
\* keep 5%, whatever the structure says.
PolicyStructure(s, current) == IF current THEN s ELSE [s EXCEPT !.platform = 500]
PayoutBase(task, s, current) ==
  LET p == PolicyStructure(s, current)
      commission == Share(task, p.platform)
  IN Larger(task - (commission + Share(commission, p.gst)), 0)

-----------------------------------------------------------------------------
(* Cancelling a bidding task.                                              *)

Tolerance == 100   \* a rupee of drift between client and server amounts
\* Wrong on purpose: the total is compared without the fee.
X_validateRecurringVisitOrderAmounts(quoted, fee, task, gross) ==
  quoted > 0 /\ gross - quoted \in -Tolerance .. Tolerance

validateRecurringVisitOrderAmounts(quoted, fee, task, gross) ==
  /\ quoted > 0
  /\ task - quoted \in -Tolerance .. Tolerance
  /\ gross - (quoted + fee) \in -Tolerance .. Tolerance

Unassigned == 100000   \* the task has no helper: no time of assignment

\* Wrong on purpose: the grace period starts where it should end.
X_PosterCancellationPercent(left, assigned) ==
  IF left > 24 * 60 \/ assigned - left \in 15 .. 1440 THEN 0
  ELSE IF left > 60 THEN 1000 ELSE 2000

PosterCancellationPercent(left, assigned) ==
  IF assigned # Unassigned /\ assigned - left <= 15 THEN 0
  ELSE IF left > 24 * 60 THEN 0
  ELSE IF left > 60 THEN 1000 ELSE 2000

PerformerCancellationPercent(left, s) ==
  IF left > 24 * 60 THEN Nearest(s.platform * (Whole + s.gst), Whole) ELSE 1000

\* Wrong on purpose: the platform's part is its commission.
X_calculateCancellationFee(amount, base, percent, s) ==
  LET fee == Share(base, percent) IN
  [fee |-> fee, percent |-> percent, refund |-> Larger(amount - fee, 0),
   toOtherParty |-> Share(fee, s.toOtherParty), toPlatform |-> Share(fee, s.platform)]

calculateCancellationFee(amount, base, percent, s) ==
  LET fee == Share(base, percent) IN
  [fee |-> fee, percent |-> percent, refund |-> Larger(amount - fee, 0),
   toOtherParty |-> Share(fee, s.toOtherParty), toPlatform |-> Share(fee, s.toPlatform)]

\* Wrong on purpose: the receipt ends the grace period a minute early.
X_describeCancellationPolicy(percent, by, left, assigned) ==
  IF percent = 0
  THEN IF by = "poster" /\ assigned # Unassigned /\ assigned - left < 15
       THEN "poster_grace_15m"
       ELSE IF left > 24 * 60 THEN "poster_early" ELSE "none"
  ELSE "custom"

\* The policy a receipt names for a percentage and the moments of the cancel.
describeCancellationPolicy(percent, by, left, assigned) ==
  IF percent = 0
  THEN IF by = "poster" /\ assigned # Unassigned /\ assigned - left <= 15
       THEN "poster_grace_15m"
       ELSE IF left > 24 * 60 THEN "poster_early" ELSE "none"
  ELSE IF by = "poster" /\ Nearest(percent, 100) = 10 THEN "poster_medium"
  ELSE IF by = "poster" /\ Nearest(percent, 100) = 20 THEN "poster_late"
  ELSE "custom"

\* The task amount a refund is computed from: the row's, or the captured amount
\* with the fees it was charged taken out again.
NoAmount == -1
\* Wrong on purpose: the fees are added once more.
X_InferredTask(captured, s) ==
  Nearest(captured * (Whole + Nearest(s.platform * (Whole + s.gst), Whole)), Whole)

InferredTask(captured, s) ==
  Nearest(captured * Whole, Whole + Nearest(s.platform * (Whole + s.gst), Whole))
RefundTaskBase(task, captured, s) ==
  IF task # NoAmount THEN task ELSE InferredTask(captured, s)

\* The task amount a completed task is paid from: the row's, or the captured
\* amount with the coins added back, or with the fees taken out again.
resolveEscrowTaskAmountForPayout(task, captured, discount, s) ==
  IF task # NoAmount THEN task
  ELSE IF discount > 0 THEN captured + discount ELSE InferredTask(captured, s)

-----------------------------------------------------------------------------
(* Cancelling Book Now services: flat fees by family and time.             *)

PolicyGroups == {"home_cleaning", "ac_services", "appliance_repair"}
FLAT_FEES ==
  [home_cleaning    |-> [within_24h |-> 9900, within_4h |-> 19900, partner_reached |-> 29900],
   ac_services      |-> [within_24h |-> 9900, within_4h |-> 14900, partner_reached |-> 24900],
   appliance_repair |-> [within_24h |-> 4900, within_4h |-> 9900, partner_reached |-> 14900]]

resolveBookNowCancellationTier(left, reached) ==
  IF reached THEN "partner_reached"
  ELSE IF left > 24 * 60 THEN "free"
  ELSE IF left > 4 * 60 THEN "within_24h" ELSE "within_4h"

flatFeeForTier(group, tier) == IF tier = "free" THEN 0 ELSE FLAT_FEES[group][tier]

calculateBookNowCancellationFee(group, amount, left, reached, assigned) ==
  LET tier == IF assigned THEN resolveBookNowCancellationTier(left, reached) ELSE "free"
      fee == Smaller(flatFeeForTier(group, tier), amount)
  IN [fee |-> fee, tier |-> tier, refund |-> amount - fee]

describeBookNowCancellationPolicy(tier, fee) ==
  IF tier = "free" \/ Nearest(fee, 100) = 0 THEN "free" ELSE tier

\* Wrong on purpose: a line gives back its price, without tax or discount.
X_resolveBookNowLineFeeBase(price, catalogTotal, captured, left, last) ==
  IF last THEN Smaller(price, left) ELSE price

\* The part of the captured amount that paid for one line of the booking.
resolveBookNowLineFeeBase(price, catalogTotal, captured, left, last) ==
  LET base == IF captured - catalogTotal \in -1 .. 1 THEN price
              ELSE Nearest(price * captured, catalogTotal)
  IN IF last THEN Smaller(base, left) ELSE base

-----------------------------------------------------------------------------
(* Book Now totals: a row per category, with its own GST rate.             *)

GstRow(key, subtotal, rate) ==
  [key |-> key, subtotal |-> subtotal, rate |-> rate, gst |-> Share(subtotal, rate)]
BookNowTotals(rows) ==
  LET subtotal == SumFunction([n \in DOMAIN rows |-> rows[n].subtotal])
      gst == SumFunction([n \in DOMAIN rows |-> rows[n].gst])
  IN [subtotal |-> subtotal, gst |-> gst, total |-> subtotal + gst, rows |-> rows]

\* The rows a coupon applies to, by number; every row when none is eligible.
CouponRows(rows, eligible) ==
  LET priced == {n \in DOMAIN rows: rows[n].subtotal > 0}
      hits == {n \in priced: eligible = {} \/ rows[n].key \in eligible}
  IN IF hits # {} THEN hits ELSE priced

\* Row n's part of the discount by its subtotal, among the rows numbered in hits.
CouponPart(rows, hits, n, discount) ==
  Nearest(discount * rows[n].subtotal, SumFunction([m \in hits |-> rows[m].subtotal]))

\* Wrong on purpose: the last row takes the whole discount.
X_CouponShare(rows, hits, n, discount) ==
  IF n # Max(hits) THEN CouponPart(rows, hits, n, discount) ELSE discount

\* Each row's part of the discount; the last one takes what is left of it.
CouponShare(rows, hits, n, discount) ==
  IF n # Max(hits) THEN CouponPart(rows, hits, n, discount)
  ELSE Larger(discount - SumFunction([m \in hits \ {n} |-> CouponPart(rows, hits, m, discount)]), 0)

recalculateBookNowTotalsAfterCouponDiscount(rows, discount, eligible) ==
  LET hits == CouponRows(rows, eligible)
      shareOf(n) == IF n \in hits THEN CouponShare(rows, hits, n, discount) ELSE 0
      reduced(n) == GstRow(rows[n].key, Larger(rows[n].subtotal - shareOf(n), 0), rows[n].rate)
  IN IF discount = 0 THEN BookNowTotals(rows)
     ELSE BookNowTotals([n \in DOMAIN rows |-> reduced(n)])

\* The amount left to pay after a coupon: it never leaves the whole amount.
AmountAfterCoupon(amount, rows, discount, eligible) ==
  LET plain == Larger(amount - discount, 0)
      total == recalculateBookNowTotalsAfterCouponDiscount(rows, discount, eligible).total
  IN IF rows = <<>> \/ discount = 0 \/ total >= amount THEN plain ELSE total

\* The amount charged after coins, capped by a percentage of what is left.
FinalCharge(afterCoupon, coins, capPercent) ==
  Larger(afterCoupon - Smaller(coins, Share(afterCoupon, capPercent)), 0)
=============================================================================
