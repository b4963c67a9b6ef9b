------------------------------ MODULE Bookings ------------------------------
(***************************************************************************)
(* What a booking is charged and what cancelling it gives back, under      *)
(* percentages that change and are cached (FeeRates).  A booking is a      *)
(* visit of a bidding task, or a Book Now checkout of several Services     *)
(* paid with one Razorpay payment and cancelled line by line or as         *)
(* a whole.  The states of the escrow row itself are EscrowLifecycle's.    *)
(***************************************************************************)
EXTENDS FeeRates

CONSTANTS
  Kinds,         \* the bookings explored: "bidding", "book_now"
  Services,      \* the services of a Book Now checkout
  Price,         \* [Services -> paise]
  CategoryOf,    \* [Services -> Categories]
  Group,         \* the family whose flat fees apply
  Task, TaskCategory,  \* amount and category of a bidding task
  Offers,        \* what a coupon takes off and what the coins used are worth
  CapPercent,    \* the part of a booking coins may pay
  RefundCalls,   \* requests that refund a Book Now booking
  MaxCalls,      \* bound: such requests in all
  WholeBooking   \* what a refund of no single line is for

CatalogTotal == SumFunction(Price)

ASSUME BookingAssumption ==
  /\ IsFiniteSet(Services) /\ Services # {} /\ WholeBooking \notin Services
  /\ Price \in [Services -> Nat] /\ CatalogTotal > 0
  /\ CategoryOf \in [Services -> Categories]
  /\ Group \in PolicyGroups
  /\ Task \in Nat \ {0}
  /\ Offers \subseteq [discount: Nat, coins: Nat] /\ CapPercent \in Percent
  /\ MaxCalls \in Nat

VARIABLES
  kind,      \* which kind of booking this is
  shown,     \* what the customer saw last: at most one total
  estimate,  \* what the tasker was told: at most one amount
  order,     \* the paid order, a set of at most one
  status,    \* "none", "held", "released" or "refunded"
  assigned,  \* when a helper was assigned
  reached,   \* the partner is at the customer's
  answer,    \* the last answer about a bidding task
  listed,    \* cancelledLineTaskIds of the escrow row
  refunds,   \* the Refund rows
  returned,  \* paise Razorpay has returned
  dropped,   \* the lines task-service was told are refunded
  call,      \* [RefundCalls -> a refund request in flight]
  calls,     \* refund requests so far
  tangled    \* two refund requests overlapped, or one broke off half way

orderVars == <<kind, shown, estimate, order, status, assigned, reached, answer>>
refundVars == <<listed, refunds, returned, dropped, call, calls, tangled>>
bookingVars == <<rateVars, orderVars, refundVars>>

NoAnswer == [of |-> "nothing"]
NoCall == [step |-> "idle"]

\* A held order made before the current commission policy, some without the
\* amount of the task on the row.
OldOrders ==
  {[total |-> calculatePosterFees(Task, DEFAULT).totalAmount, task |-> t, structure |-> DEFAULT,
    captured |-> calculatePosterFees(Task, DEFAULT).totalAmount, current |-> FALSE]:
     t \in {Task, NoAmount}}

BookingInit ==
  /\ RatesInit
  /\ kind \in Kinds
  /\ \/ order = {} /\ status = "none" /\ assigned = Unassigned
     \/ /\ kind = "bidding" /\ order \in {{o}: o \in OldOrders}
        /\ status = "held" /\ assigned = left
  /\ shown = {} /\ estimate = {} /\ reached = FALSE /\ answer = NoAnswer
  /\ listed = {} /\ refunds = <<>> /\ returned = 0 /\ dropped = {}
  /\ call = [h \in RefundCalls |-> NoCall] /\ calls = 0 /\ tangled = FALSE

Paid == CHOOSE o \in order: TRUE
Refundable == Paid.captured - returned

-----------------------------------------------------------------------------
(* A bidding task: fees shown, order checked, payout estimated and made.   *)

Loaded == Structures \cup {DEFAULT}
CategoryFees(base, down) == getFeeStructureForCategory(base, TaskCategory, "BIDDING", down)

\* Instance i answers a request about a task from structure base.
Serves(i, base, down) ==
  /\ kind = "bidding" /\ answer = NoAnswer
  /\ getFeeStructure(i, base, down) /\ Noticed(down)
  /\ UNCHANGED <<left, stored, rows, gstCache, changes, kind, reached>>

calculateFees(i, base, down) ==
  /\ Serves(i, base, down) /\ order = {}
  /\ shown' = {[total |-> calculatePosterFees(Task, CategoryFees(base, down)).totalAmount,
                at |-> left]}
  /\ UNCHANGED <<estimate, order, status, assigned, answer, refundVars>>

\* The customer orders at the total shown; the service computes it again.
createVisitOrder(i, base, down, discount, coins) ==
  LET s == CategoryFees(base, down) IN
  /\ Serves(i, base, down) /\ order = {}
  /\ \E q \in shown:
       IF validateRecurringVisitOrderAmounts(Task, PlatformFeeTotal(Task, s), Task, q.total)
       THEN /\ order' = {[total |-> q.total, task |-> Task, structure |-> s, current |-> TRUE,
                          captured |-> FinalCharge(Larger(q.total - discount, 0), coins,
                                                   CapPercent)]}
            /\ status' = "held" /\ assigned' = left
            /\ UNCHANGED answer
       ELSE /\ answer' = [of |-> "refusal", asked |-> q.at]
            /\ UNCHANGED <<order, status, assigned>>
  /\ UNCHANGED <<shown, estimate, refundVars>>

estimateTaskerPayout(i, base, down) ==
  /\ Serves(i, base, down) /\ status = "held"
  /\ estimate' = {[net |-> estimateBiddingTaskCompletionPayout(Task, CategoryFees(base, down)),
                   at |-> left]}
  /\ UNCHANGED <<shown, order, status, assigned, answer, refundVars>>

\* The payout of the completed task, before the tasker's coins and penalties.
payCompletedTask(i, base, down) ==
  LET held == resolveEscrowTaskAmountForPayout(Paid.task, Paid.captured,
                                               Paid.total - Paid.captured, Paid.structure)
  IN /\ Serves(i, base, down) /\ status = "held"
     /\ answer' = [of |-> "payout", gross |-> held,
                   net |-> PayoutBase(held, CategoryFees(base, down), Paid.current)]
     /\ status' = "released"
     /\ UNCHANGED <<shown, estimate, order, assigned, refundVars>>

\* A cancelled bidding task: the poster is charged the fee of the moment, a
\* performer gets a penalty instead and the poster everything captured.
Cancelled(by, s) ==
  LET base == RefundTaskBase(Paid.task, Paid.captured, Paid.structure)
      percent == IF by = "poster" THEN PosterCancellationPercent(left, assigned)
                 ELSE PerformerCancellationPercent(left, s)
      result == calculateCancellationFee(base, base, percent, s)
  IN [of |-> "cancel", by |-> by, fee |-> result.fee,
      refund |-> IF by = "poster" THEN result.refund ELSE Refundable,
      toOtherParty |-> result.toOtherParty, toPlatform |-> result.toPlatform,
      policy |-> describeCancellationPolicy(percent, by, left, assigned)]

\* One paisa above the capturable amount is rounding, more is refused.
Refused(refund) == refund <= 0 \/ refund > Refundable + 1

cancelTask(i, base, down, by) ==
  LET result == Cancelled(by, base) IN
  /\ Serves(i, base, down) /\ status = "held"
  /\ answer' = result
  /\ IF Refused(result.refund) THEN UNCHANGED <<status, returned>>
     ELSE status' = "refunded" /\ returned' = Smaller(result.refund, Refundable)
  /\ UNCHANGED <<shown, estimate, order, assigned, listed, refunds, dropped, call, calls,
                 tangled>>

-----------------------------------------------------------------------------
(* A Book Now checkout: totals shown, coupon and coins taken off.          *)

ChargedCategories == {CategoryOf[l]: l \in Services}
Subtotal(c) == SumFunctionOnSet(Price, {l \in Services: CategoryOf[l] = c})

\* A row for each category, in some order.
ChargedRows(i, down) ==
  LET charged == SetToSeq(ChargedCategories) IN
  [n \in DOMAIN charged |->
     GstRow(charged[n], Subtotal(charged[n]), resolveBookNowGstPercentage(i, charged[n], down))]

calculateBookNowOrderTotals(i, down) ==
  /\ kind = "book_now" /\ order = {}
  /\ gstCache' = [gstCache EXCEPT ![i] = KeptAfter(i, ChargedCategories, down)]
  /\ shown' = {[total |-> BookNowTotals(ChargedRows(i, down)).total,
                rows |-> ChargedRows(i, down), at |-> left]}
  /\ Noticed(down)
  /\ UNCHANGED <<left, stored, rows, cache, changes, kind, estimate, order, status,
                 assigned, reached, answer, refundVars>>

\* Wrong on purpose: the order is recorded, the row's status forgotten.
X_createEscrow(discount, eligible, coins) ==
  /\ kind = "book_now" /\ order = {}
  /\ \E q \in shown:
       order' = {[total |-> q.total, rows |-> q.rows, discount |-> discount, rest |-> q.total,
                  captured |-> q.total]}
  /\ shown' = {}
  /\ UNCHANGED <<rateVars, kind, estimate, status, assigned, reached, answer, refundVars>>

\* The order is charged from the totals the client sends back.
createEscrow(discount, eligible, coins) ==
  /\ kind = "book_now" /\ order = {}
  /\ \E q \in shown:
       LET rest == AmountAfterCoupon(q.total, q.rows, discount, eligible) IN
       /\ order' = {[total |-> q.total, rows |-> q.rows, discount |-> discount, rest |-> rest,
                     captured |-> FinalCharge(rest, coins, CapPercent)]}
       /\ FinalCharge(rest, coins, CapPercent) > 0
  /\ status' = "held" /\ shown' = {}
  /\ UNCHANGED <<rateVars, kind, estimate, assigned, reached, answer, refundVars>>

attachPerformerToEscrow ==
  /\ kind = "book_now" /\ status = "held" /\ assigned = Unassigned
  /\ assigned' = left
  /\ UNCHANGED <<rateVars, kind, shown, estimate, order, status, reached, answer, refundVars>>

resetPerformerOnEscrow ==
  /\ kind = "book_now" /\ status = "held" /\ assigned # Unassigned /\ ~reached
  /\ assigned' = Unassigned
  /\ UNCHANGED <<rateVars, kind, shown, estimate, order, status, reached, answer, refundVars>>

PartnerArrives ==
  /\ kind = "book_now" /\ status = "held" /\ assigned # Unassigned /\ ~reached
  /\ reached' = TRUE
  /\ UNCHANGED <<rateVars, kind, shown, estimate, order, status, assigned, answer, refundVars>>

-----------------------------------------------------------------------------
(* Refunds of a Book Now booking: of one line, or of all of it.            *)

Busy(h) == call[h] # NoCall
Step(h, r) == call' = [call EXCEPT ![h] = r]
Ends(h) == Step(h, NoCall)

\* A request that asks for the refund of line or of the whole booking: the row
\* is read now, the partner's place is said by the caller.
Begins(h, line, last, answered) ==
  /\ kind = "book_now" /\ order # {} /\ ~Busy(h) /\ calls < MaxCalls
  /\ calls' = calls + 1
  /\ tangled' = (tangled \/ \E g \in RefundCalls: Busy(g))
  /\ IF answered THEN UNCHANGED call
     ELSE Step(h, [step |-> "fetch", line |-> line, last |-> last, listed |-> listed,
                   assigned |-> assigned # Unassigned, reached |-> reached])
  /\ UNCHANGED <<rateVars, orderVars, listed, refunds, returned, dropped>>

\* task-service asks for a line it was not told is refunded, and says whether
\* it is the last.
processBookNowLineItemRefund(h, l) ==
  /\ l \notin dropped
  /\ Begins(h, l, Services \subseteq dropped \cup {l}, status = "released" \/ l \in listed)

\* A cancel of the whole booking: any refund of the payment, of a line too,
\* passes for the one asked for.
cancelEscrowByBookingOrderId(h) ==
  /\ status = "held"
  /\ Begins(h, WholeBooking, TRUE, refunds # <<>>)

\* The payment is loaded and the fee of the moment computed.
Quote(h) ==
  LET c == call[h]
      base == IF c.line = WholeBooking THEN Refundable
              ELSE resolveBookNowLineFeeBase(Price[c.line], CatalogTotal, Paid.captured,
                                             Refundable, c.last)
  IN calculateBookNowCancellationFee(Group, base, left, c.reached, c.assigned)

QuoteRefund(h) ==
  /\ call[h].step = "fetch"
  /\ LET q == Quote(h) IN
     IF Refundable <= 0 \/ q.refund <= 0 THEN Ends(h)
     ELSE Step(h, [step |-> "refund", line |-> call[h].line, last |-> call[h].last,
                   listed |-> call[h].listed, room |-> Refundable,
                   amount |-> Smaller(q.refund, Refundable), fee |-> q.fee,
                   policy |-> describeBookNowCancellationPolicy(q.tier, q.fee)])
  /\ UNCHANGED <<rateVars, orderVars, listed, refunds, returned, dropped, calls, tangled>>

CallGateway(h) ==
  /\ call[h].step = "refund"
  /\ IF call[h].amount <= Refundable
     THEN /\ returned' = returned + call[h].amount
          /\ Step(h, [call[h] EXCEPT !.step = "commit"])
     ELSE Ends(h) /\ UNCHANGED returned
  /\ UNCHANGED <<rateVars, orderVars, listed, refunds, dropped, calls, tangled>>

\* Wrong on purpose: a refund of one line lists them all.
X_CommitRefund(h) ==
  LET c == call[h] IN
  /\ c.step = "commit" /\ Ends(h)
  /\ refunds' = Append(refunds, [line |-> c.line, amount |-> c.amount, fee |-> c.fee,
                                 policy |-> c.policy])
  /\ listed' = Services
  /\ status' = IF c.last THEN "refunded" ELSE "held"
  /\ dropped' = dropped \cup {c.line}
  /\ UNCHANGED <<rateVars, kind, shown, estimate, order, assigned, reached, answer,
                 returned, calls, tangled>>

\* The Refund row, and the escrow row with the lines read at the beginning.
CommitRefund(h) ==
  LET c == call[h]
      whole == c.line = WholeBooking IN
  /\ c.step = "commit" /\ Ends(h)
  /\ refunds' = Append(refunds, [line |-> c.line, amount |-> c.amount, fee |-> c.fee,
                                 policy |-> c.policy])
  /\ listed' = IF whole THEN listed ELSE c.listed \cup {c.line}
  /\ status' = IF whole \/ c.last \/ c.room - c.amount <= 0 THEN "refunded" ELSE "held"
  /\ dropped' = dropped \cup (IF whole THEN Services ELSE {c.line})
  /\ UNCHANGED <<rateVars, kind, shown, estimate, order, assigned, reached, answer,
                 returned, calls, tangled>>

\* Razorpay's reply is lost, the transaction fails or the instance stops.
BreakOff(h) ==
  /\ "breakOff" \in Failures /\ call[h].step = "commit" /\ Ends(h)
  /\ tangled' = TRUE
  /\ UNCHANGED <<rateVars, orderVars, listed, refunds, returned, dropped, calls>>

-----------------------------------------------------------------------------
TaskRequests ==
  \E i \in Instances, base \in Loaded, down \in Down:
    \/ calculateFees(i, base, down)
    \/ estimateTaskerPayout(i, base, down)
    \/ payCompletedTask(i, base, down)
    \/ \E o \in Offers: createVisitOrder(i, base, down, o.discount, o.coins)
    \/ \E by \in {"poster", "performer"}: cancelTask(i, base, down, by)
Checkout ==
  \/ \E i \in Instances, down \in Down: calculateBookNowOrderTotals(i, down)
  \/ \E o \in Offers, e \in SUBSET ChargedCategories: createEscrow(o.discount, e, o.coins)
PartnerMoves == attachPerformerToEscrow \/ resetPerformerOnEscrow \/ PartnerArrives
RefundSteps ==
  \E h \in RefundCalls:
    \/ \E l \in Services: processBookNowLineItemRefund(h, l)
    \/ cancelEscrowByBookingOrderId(h)
    \/ QuoteRefund(h) \/ CallGateway(h) \/ CommitRefund(h) \/ BreakOff(h)
Configured == (ConfigurationChanges \/ Pass) /\ UNCHANGED <<orderVars, refundVars>>

BookingNext == TaskRequests \/ Checkout \/ PartnerMoves \/ RefundSteps \/ Configured
BookingSpec == BookingInit /\ [][BookingNext]_bookingVars

-----------------------------------------------------------------------------
(* Properties.                                                             *)

BookingTypeOK ==
  /\ RatesTypeOK
  /\ kind \in Kinds
  /\ Cardinality(order) <= 1 /\ (order = {} <=> status = "none")
  /\ status \in {"none", "held", "released", "refunded"}
  /\ assigned \in Moments \cup {Unassigned} /\ reached \in BOOLEAN
  /\ listed \subseteq Services /\ dropped \subseteq Services
  /\ \A h \in RefundCalls: call[h].step \in {"idle", "fetch", "refund", "commit"}
  /\ calls \in 0 .. MaxCalls /\ tangled \in BOOLEAN

\* A customer who orders at the total just shown is refused only when the
\* configuration changed, or a query for it failed, within TTL minutes before
\* the total was shown or later ("Payment total does not match the visit
\* amount. Please refresh and try again.").
QuoteAccepted == answer.of = "refusal" => changed - answer.asked < TTL

\* What the tasker was told is what a completed task pays, under the same
\* proviso.
EstimateIsPaid ==
  (answer.of = "payout" /\ Paid.current) =>
    \A e \in estimate: changed - e.at < TTL \/ answer.net = e.net

\* An order of the old commission policy never pays less than was told.
OldOrdersPayNoLess ==
  (answer.of = "payout" /\ ~Paid.current) =>
    \A e \in estimate: changed - e.at < TTL \/ answer.net >= e.net

\* A cancel is refused as above the captured amount only when a coupon or
\* coins paid part of the booking; otherwise the captured amount covers the
\* refund and the fee.
CancelCovered ==
  answer.of = "cancel" =>
    \/ Paid.captured < Paid.total
    \/ /\ status = "refunded"
       /\ Paid.captured - returned >= (IF answer.by = "poster" THEN answer.fee ELSE 0)

\* The two parts of a cancellation fee make up the fee to a paisa.
FeeIsSplit ==
  answer.of = "cancel" => answer.toOtherParty + answer.toPlatform - answer.fee \in 0 .. 1

\* A poster never saves by waiting: no moment still to come has a lower fee,
\* for the task or, while the partner stays the same, for the services.
WaitingCostsMore ==
  LET bookNowFee(m, r) ==
        calculateBookNowCancellationFee(Group, CatalogTotal, m, r, assigned # Unassigned).fee
  IN \A m \in Moments:
       m <= left =>
         /\ PosterCancellationPercent(left, assigned) <= PosterCancellationPercent(m, assigned)
         /\ \A r \in BOOLEAN: (reached => r) => bookNowFee(left, reached) <= bookNowFee(m, r)

\* The receipt of a task that names a free cancellation kept no fee, and the
\* reverse.
ReceiptTellsFee ==
  answer.of = "cancel" =>
    (answer.fee = 0 <=> answer.policy \in {"poster_grace_15m", "poster_early"})

\* So does the receipt of a refunded service.
LineReceiptTellsFee ==
  \A n \in DOMAIN refunds: refunds[n].fee = 0 <=> refunds[n].policy = "free"

\* A coupon lowers what is charged, by the discount and at most the tax on it
\* (to a paisa per category).
CouponApplied ==
  kind = "book_now" =>
    \A o \in order:
      LET tax == Max({o.rows[n].rate: n \in DOMAIN o.rows}) IN
      /\ o.discount > 0 => o.rest < o.total
      /\ o.total - o.rest <= o.discount + Share(o.discount, tax) + Len(o.rows)

\* The lines the row lists are those refunded, each once, unless requests
\* overlapped or broke off.
ListedAreRefunded ==
  tangled \/
    /\ \A l \in listed: \E n \in DOMAIN refunds: refunds[n].line = l
    /\ \A n, m \in DOMAIN refunds: refunds[n].line = refunds[m].line => n = m

\* When task-service was told that every line is refunded the row is closed and
\* what was kept of the captured amount is the fees charged, to a paisa per line.
FeesExplainRetained ==
  (dropped = Services /\ ~tangled) =>
    /\ status = "refunded"
    /\ LET fees == SumFunction([n \in DOMAIN refunds |-> refunds[n].fee])
       IN (Paid.captured - returned) - fees \in -Cardinality(Services) .. Cardinality(Services)

\* What is charged is what was agreed: one configuration everywhere once it
\* settled, the order accepted at the total shown, the payout as estimated, a
\* cancellation that can be paid for, splits and costs no less by waiting.
ChargesHold ==
  /\ RatesSettle /\ QuoteAccepted /\ EstimateIsPaid
  /\ CancelCovered /\ FeeIsSplit /\ WaitingCostsMore

\* What customers and taskers were told about coupons, commission and receipts
\* is what they meet.
ToldIsMet == OldOrdersPayNoLess /\ CouponApplied /\ ReceiptTellsFee

\* A booking refunded line by line adds up, and its receipts tell how.
BookingAddsUp ==
  BookingTypeOK /\ ListedAreRefunded /\ FeesExplainRetained /\ LineReceiptTellsFee
=============================================================================
