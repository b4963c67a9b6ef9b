---------------------------- MODULE VisitBinding ----------------------------
(***************************************************************************)
(* The payments of a recurring plan's visits.  Every order of a visit is   *)
(* an Escrow row of its own, so a visit paid twice has two paid rows; the  *)
(* code serializes what decides between them with a lock row per visit     *)
(* (withRecurringVisitOrderLock) and lets the rest run unlocked:           *)
(*                                                                         *)
(*   locked    capture   bindRecurringVisitCapture                         *)
(*             order     EscrowController.createEscrow                     *)
(*             refund    processRefund of a visit payment                  *)
(*   unlocked  event     authorized and failed payment events              *)
(*             payout    the held -> released claim of a payout            *)
(*             reassign  reassignRecurringVisitEscrow                      *)
(*                                                                         *)
(* One order has one payment here, so an escrow also names its payment.    *)
(***************************************************************************)
EXTENDS Integers, FiniteSets

CONSTANTS
    Escrows,    \* orders of the plan, and the Razorpay payment of each
    Visits,     \* the plan's visits
    Handlers,   \* slots for requests in flight
    NoPayment,  \* null razorpayPaymentId / no escrow
    NoVisit,    \* the tag of an order that does not exist yet
    Free,       \* no lock row
    Dead,       \* a lock row whose holder crashed
    Operations, \* which operations are exercised
    Faults      \* which failures may happen

INSTANCE EscrowPaymentState WITH Payments <- Escrows

AllOperations == {"capture", "order", "refund", "event", "payout", "reassign"}
AllFaults     == {"crash", "lockExpiry", "readError"}

ASSUME VisitAssumption ==
    /\ NoPayment \notin Escrows
    /\ NoVisit \notin Visits
    /\ Free \notin Handlers /\ Dead \notin Handlers /\ Free # Dead
    /\ Operations \subseteq AllOperations
    /\ Faults \subseteq AllFaults

VARIABLES
    escrow,   \* the Escrow rows
    gateway,  \* Razorpay's view of the payment of each order
    lock,     \* the lock row of each visit
    req       \* the request each handler slot is serving

vars == <<escrow, gateway, lock, req>>

Rows == [status        : EscrowStatuses,
         paymentStatus : PaymentStatuses,
         paymentId     : Escrows \cup {NoPayment},
         visit         : Visits \cup {NoVisit},  \* metadata.visitId
         duplicate     : BOOLEAN]   \* errorCode DUPLICATE_VISIT_PAYMENT

NoRow == [status |-> "pending", paymentStatus |-> "pending",
          paymentId |-> NoPayment, visit |-> NoVisit, duplicate |-> FALSE]

\* Steps taken while the request holds the lock of req[h].visit.
LockedSteps == {"capture.inspect", "capture.siblings", "capture.bind",
                "order.check", "order.list", "order.supersede", "order.create",
                "refund.check", "refund.call", "refund.commit", "release"}

Steps == LockedSteps \cup {"idle", "waiting", "event.apply",
                           "reassign.target", "reassign.write"}

Requests == [step   : Steps,
             next   : LockedSteps,          \* first step once the lock is held
             escrow : Escrows \cup {NoPayment},
             visit  : Visits \cup {NoVisit},\* the visit locked, or moved to
             seen   : Rows,                 \* the row a conditional write refers to
             won    : BOOLEAN,              \* a sibling is the visit's payment
             todo   : SUBSET Escrows,       \* orders still to supersede
             event  : PaymentEvents]

Idle == [step |-> "idle", next |-> "release", escrow |-> NoPayment,
         visit |-> NoVisit, seen |-> NoRow, won |-> FALSE, todo |-> {},
         event |-> "captured"]

TypeOK ==
    /\ escrow \in [Escrows -> Rows]
    /\ gateway \in [Escrows -> {"created", "authorized", "captured", "failed",
                                "refunded"}]
    /\ lock \in [Visits -> Handlers \cup {Free, Dead}]
    /\ req \in [Handlers -> Requests]

Init ==
    /\ escrow = [e \in Escrows |-> NoRow]
    /\ gateway = [e \in Escrows |-> "created"]
    /\ lock = [v \in Visits |-> Free]
    /\ req = [h \in Handlers |-> Idle]

OrdersOf(v) == {e \in Escrows : escrow[e].visit = v}

isVisitBoundPayment(row) ==
    isEscrowPaidRecord(row) /\ row.status \in {"held", "released"}

BoundPayments(v) == {e \in OrdersOf(v) : isVisitBoundPayment(escrow[e])}

At(h, step) == req[h].step = step
Inside(h) == req[h].step \in LockedSteps
Begin(h, operation) == At(h, "idle") /\ operation \in Operations

Become(h, r) == req' = [req EXCEPT ![h] = r]
GoTo(h, step) == req' = [req EXCEPT ![h].step = step]

-----------------------------------------------------------------------------
(* Razorpay (external)                                                     *)

GatewayMoves(e, from, to) ==
    /\ escrow[e].visit # NoVisit
    /\ gateway[e] = from
    /\ gateway' = [gateway EXCEPT ![e] = to]
    /\ UNCHANGED <<escrow, lock, req>>

\* Events Razorpay can deliver about the payment of e, repeatedly and late.
Emitted(e) ==
    CASE gateway[e] = "created"    -> {}
      [] gateway[e] = "failed"     -> {"failed"}
      [] gateway[e] = "authorized" -> {"authorized"}
      [] OTHER                     -> {"authorized", "captured"}

-----------------------------------------------------------------------------
(* withRecurringVisitOrderLock                                             *)

WaitForLock(h, v, r) ==
    Become(h, [r EXCEPT !.step = "waiting", !.visit = v])

\* Wrong on purpose: the lock row is not unique.
AcquireLock_Shared(h) ==
    /\ At(h, "waiting")
    /\ lock' = [lock EXCEPT ![req[h].visit] = h]
    /\ GoTo(h, req[h].next)
    /\ UNCHANGED <<escrow, gateway>>

\* The lock row is created; its key is unique.
AcquireLock(h) ==
    /\ At(h, "waiting")
    /\ lock[req[h].visit] = Free
    /\ lock' = [lock EXCEPT ![req[h].visit] = h]
    /\ GoTo(h, req[h].next)
    /\ UNCHANGED <<escrow, gateway>>

\* A waiter deletes a row past its TTL: a crashed holder's, or that of a holder
\* that is merely slow.
ExpireLock(h) ==
    /\ At(h, "waiting")
    /\ lock[req[h].visit] # Free
    /\ lock[req[h].visit] = Dead \/ "lockExpiry" \in Faults
    /\ lock' = [lock EXCEPT ![req[h].visit] = Free]
    /\ UNCHANGED <<escrow, gateway, req>>

\* The wait ends in a ConflictError and the request is answered with an error.
GiveUpWaiting(h) ==
    /\ At(h, "waiting")
    /\ lock[req[h].visit] # Free
    /\ Become(h, Idle)
    /\ UNCHANGED <<escrow, gateway, lock>>

\* The holder deletes the row by its id, so never somebody else's.
ReleaseLock(h) ==
    /\ At(h, "release")
    /\ lock' = IF lock[req[h].visit] = h
               THEN [lock EXCEPT ![req[h].visit] = Free] ELSE lock
    /\ Become(h, Idle)
    /\ UNCHANGED <<escrow, gateway>>

-----------------------------------------------------------------------------
(* bindRecurringVisitCapture                                               *)

\* The row is read and its visit is the lock's scope.
BeginCapture(h, e) ==
    /\ Begin(h, "capture")
    /\ "captured" \in Emitted(e)
    /\ WaitForLock(h, escrow[e].visit,
                   [Idle EXCEPT !.escrow = e, !.next = "capture.inspect"])
    /\ UNCHANGED <<escrow, gateway, lock>>

\* Wrong on purpose: a payment already rejected as a duplicate is bound again.
InspectCapture_Rebind(h) ==
    /\ At(h, "capture.inspect")
    /\ LET e == req[h].escrow IN
         IF resolveEscrowPaymentTransition(escrow[e], "captured", e)
         THEN Become(h, [req[h] EXCEPT !.step = "capture.siblings",
                                       !.seen = escrow[e]])
         ELSE GoTo(h, "release")
    /\ UNCHANGED <<escrow, gateway, lock>>

\* The row is read again: a duplicate stays one, the current winner and rows
\* that may not change any more are left alone.
InspectCapture(h) ==
    /\ At(h, "capture.inspect")
    /\ LET e == req[h].escrow IN
         IF /\ ~escrow[e].duplicate
            /\ resolveEscrowPaymentTransition(escrow[e], "captured", e)
         THEN Become(h, [req[h] EXCEPT !.step = "capture.siblings",
                                       !.seen = escrow[e]])
         ELSE GoTo(h, "release")
    /\ UNCHANGED <<escrow, gateway, lock>>

FindWinners(h) ==
    /\ At(h, "capture.siblings")
    /\ Become(h, [req[h] EXCEPT
           !.step = "capture.bind",
           !.won = BoundPayments(req[h].visit) \ {req[h].escrow} # {}])
    /\ UNCHANGED <<escrow, gateway, lock>>

\* The conditional update: held for the winner; cancelled, marked and with the
\* metadata as inspected for a duplicate.
CaptureUpdate(e, r) ==
    IF r.won
    THEN [PaymentUpdate(escrow[e], "captured", e) EXCEPT
            !.status = "cancelled", !.duplicate = TRUE, !.visit = r.seen.visit]
    ELSE PaymentUpdate(escrow[e], "captured", e)

BindCapture(h) ==
    /\ At(h, "capture.bind")
    /\ LET e == req[h].escrow IN
         escrow' = IF SameState(escrow[e], req[h].seen)
                   THEN [escrow EXCEPT ![e] = CaptureUpdate(e, req[h])]
                   ELSE escrow
    /\ GoTo(h, "release")
    /\ UNCHANGED <<gateway, lock>>

-----------------------------------------------------------------------------
(* EscrowController.createEscrow for a visit                               *)

\* e is the order that is going to be created.
BeginOrder(h, e, v) ==
    /\ Begin(h, "order")
    /\ escrow[e].visit = NoVisit
    /\ \A g \in Handlers : req[g].escrow # e
    /\ WaitForLock(h, v, [Idle EXCEPT !.escrow = e, !.next = "order.check"])
    /\ UNCHANGED <<escrow, gateway, lock>>

\* Wrong on purpose: only payments that are still held stop a second order.
CheckVisitUnpaid_HeldOnly(h) ==
    /\ At(h, "order.check")
    /\ IF \E e \in OrdersOf(req[h].visit) : isEscrowActiveHeldRecord(escrow[e])
       THEN GoTo(h, "release") ELSE GoTo(h, "order.list")
    /\ UNCHANGED <<escrow, gateway, lock>>

\* A visit with a paid row gets no new order.  A failed read counts as "none".
CheckVisitUnpaid(h) ==
    /\ At(h, "order.check")
    /\ \/ GoTo(h, IF \E e \in OrdersOf(req[h].visit) : isEscrowPaidRecord(escrow[e])
                  THEN "release" ELSE "order.list")
       \/ "readError" \in Faults /\ GoTo(h, "order.list")
    /\ UNCHANGED <<escrow, gateway, lock>>

Unpaid(row) == row.status = "pending" /\ row.paymentStatus = "pending"

UnpaidOrders(v) == {e \in OrdersOf(v) : Unpaid(escrow[e])}

\* Wrong on purpose: a new order leaves the older ones payable.
ListUnpaidOrders_KeepsOld(h) ==
    /\ At(h, "order.list")
    /\ Become(h, [req[h] EXCEPT !.step = "order.create"])
    /\ UNCHANGED <<escrow, gateway, lock>>

\* Unpaid orders are superseded; one that matches the request may be reused, and
\* then none is created.
ListUnpaidOrders(h) ==
    /\ At(h, "order.list")
    /\ LET unpaid == UnpaidOrders(req[h].visit) IN
         \/ Become(h, [req[h] EXCEPT !.step = "order.supersede", !.todo = unpaid])
         \/ \E e \in unpaid :
              Become(h, [req[h] EXCEPT !.step = "order.supersede",
                                       !.todo = unpaid \ {e},
                                       !.escrow = NoPayment])
    /\ UNCHANGED <<escrow, gateway, lock>>

\* Wrong on purpose: the order is superseded whatever happened to it.
SupersedeOrder_Blind(h) ==
    /\ At(h, "order.supersede")
    /\ \E e \in req[h].todo :
         /\ escrow' = [escrow EXCEPT ![e].status = "cancelled"]
         /\ Become(h, [req[h] EXCEPT !.todo = @ \ {e}])
    /\ UNCHANGED <<gateway, lock>>

\* One conditional update per order; an order paid meanwhile is left alone.
SupersedeOrder(h) ==
    /\ At(h, "order.supersede")
    /\ \E e \in req[h].todo :
         /\ escrow' = IF Unpaid(escrow[e])
                      THEN [escrow EXCEPT ![e].status = "cancelled"] ELSE escrow
         /\ Become(h, [req[h] EXCEPT !.todo = @ \ {e}])
    /\ UNCHANGED <<gateway, lock>>

AllSuperseded(h) ==
    /\ At(h, "order.supersede")
    /\ req[h].todo = {}
    /\ GoTo(h, IF req[h].escrow = NoPayment THEN "release" ELSE "order.create")
    /\ UNCHANGED <<escrow, gateway, lock>>

CreateOrder(h) ==
    /\ At(h, "order.create")
    /\ escrow' = [escrow EXCEPT ![req[h].escrow] =
                     [NoRow EXCEPT !.visit = req[h].visit]]
    /\ GoTo(h, "release")
    /\ UNCHANGED <<gateway, lock>>

-----------------------------------------------------------------------------
(* processRefund of a visit payment, in full                               *)

BeginRefund(h, e) ==
    /\ Begin(h, "refund")
    /\ escrow[e].visit # NoVisit
    /\ WaitForLock(h, escrow[e].visit,
                   [Idle EXCEPT !.escrow = e, !.next = "refund.check"])
    /\ UNCHANGED <<escrow, gateway, lock>>

\* Refunded and paid out escrows are refused, and so is a payment Razorpay does
\* not report as captured and unrefunded.
CheckRefund(h) ==
    /\ At(h, "refund.check")
    /\ LET e == req[h].escrow IN
         GoTo(h, IF /\ escrow[e].status \notin {"refunded", "released"}
                    /\ gateway[e] = "captured"
                 THEN "refund.call" ELSE "release")
    /\ UNCHANGED <<escrow, gateway, lock>>

CallGatewayRefund(h) ==
    /\ At(h, "refund.call")
    /\ LET e == req[h].escrow IN
         \/ /\ gateway[e] = "captured"
            /\ gateway' = [gateway EXCEPT ![e] = "refunded"]
            /\ GoTo(h, "refund.commit")
         \/ GoTo(h, "release") /\ UNCHANGED gateway
    /\ UNCHANGED <<escrow, lock>>

\* Wrong on purpose: the escrow gets the status of the Refund row.
CommitRefund_RefundStatus(h) ==
    /\ At(h, "refund.commit")
    /\ escrow' = [escrow EXCEPT ![req[h].escrow].status = "processing",
                                ![req[h].escrow].paymentId = req[h].escrow]
    /\ GoTo(h, "release")
    /\ UNCHANGED <<gateway, lock>>

CommitRefund(h) ==
    /\ At(h, "refund.commit")
    /\ escrow' = [escrow EXCEPT ![req[h].escrow].status = "refunded",
                                ![req[h].escrow].paymentId = req[h].escrow]
    /\ GoTo(h, "release")
    /\ UNCHANGED <<gateway, lock>>

-----------------------------------------------------------------------------
(* Unlocked writers                                                        *)

\* updateEscrowOnPaymentCapture for an authorized or failed event.
ReceivePaymentEvent(h, e, event) ==
    /\ Begin(h, "event")
    /\ event \in Emitted(e) \ {"captured"}
    /\ resolveEscrowPaymentTransition(escrow[e], event, e)
    /\ Become(h, [Idle EXCEPT !.step = "event.apply", !.escrow = e,
                              !.seen = escrow[e], !.event = event])
    /\ UNCHANGED <<escrow, gateway, lock>>

ApplyPaymentEvent(h) ==
    /\ At(h, "event.apply")
    /\ LET e == req[h].escrow IN
         escrow' = IF SameState(escrow[e], req[h].seen)
                   THEN [escrow EXCEPT ![e] =
                            PaymentUpdate(@, req[h].event, e)]
                   ELSE escrow
    /\ Become(h, Idle)
    /\ UNCHANGED <<gateway, lock>>

\* The conditional held -> released update of a payout.
PayOut(e) ==
    /\ "payout" \in Operations
    /\ escrow[e].status = "held"
    /\ escrow' = [escrow EXCEPT ![e].status = "released"]
    /\ UNCHANGED <<gateway, lock, req>>

\* reassignRecurringVisitEscrow reads the row and checks that it is paid and not
\* paid out ...
BeginReassign(h, e, v) ==
    /\ Begin(h, "reassign")
    /\ escrow[e].visit \notin {NoVisit, v}
    /\ isEscrowActiveHeldRecord(escrow[e])
    /\ Become(h, [Idle EXCEPT !.step = "reassign.target", !.escrow = e,
                              !.visit = v, !.seen = escrow[e]])
    /\ UNCHANGED <<escrow, gateway, lock>>

\* ... reads the target visit's rows ...
CheckTargetVisit(h) ==
    /\ At(h, "reassign.target")
    /\ IF \E e \in OrdersOf(req[h].visit) \ {req[h].escrow} :
              isEscrowActiveHeldRecord(escrow[e])
       THEN Become(h, Idle) ELSE GoTo(h, "reassign.write")
    /\ UNCHANGED <<escrow, gateway, lock>>

\* Wrong on purpose: the payment is moved although its row changed meanwhile.
WriteVisitTag_Blind(h) ==
    /\ At(h, "reassign.write")
    /\ escrow' = [escrow EXCEPT ![req[h].escrow].visit = req[h].visit]
    /\ Become(h, Idle)
    /\ UNCHANGED <<gateway, lock>>

\* ... and moves the payment if its row is still the one it read (updatedAt; a
\* row changed and changed back is refused by the code, accepted here).
WriteVisitTag(h) ==
    /\ At(h, "reassign.write")
    /\ LET e == req[h].escrow IN
         escrow' = IF escrow[e] = req[h].seen
                   THEN [escrow EXCEPT ![e].visit = req[h].visit] ELSE escrow
    /\ Become(h, Idle)
    /\ UNCHANGED <<gateway, lock>>

-----------------------------------------------------------------------------
\* The process dies, or an awaited call throws; at worst the lock row it held
\* stays behind.
Crash(h) ==
    /\ "crash" \in Faults
    /\ ~At(h, "idle")
    /\ lock' = [v \in Visits |-> IF lock[v] = h THEN Dead ELSE lock[v]]
    /\ Become(h, Idle)
    /\ UNCHANGED <<escrow, gateway>>

External == \E e \in Escrows :
    \/ GatewayMoves(e, "created", "authorized")
    \/ GatewayMoves(e, "created", "failed")
    \/ GatewayMoves(e, "authorized", "captured")

Receive(h) == \E e \in Escrows :
    \/ BeginCapture(h, e)
    \/ \E v \in Visits : BeginOrder(h, e, v)
    \/ BeginRefund(h, e)
    \/ \E event \in PaymentEvents : ReceivePaymentEvent(h, e, event)
    \/ \E v \in Visits : BeginReassign(h, e, v)

Continue(h) ==
    \/ AcquireLock(h) \/ ExpireLock(h) \/ GiveUpWaiting(h) \/ ReleaseLock(h)
    \/ InspectCapture(h) \/ FindWinners(h) \/ BindCapture(h)
    \/ CheckVisitUnpaid(h) \/ ListUnpaidOrders(h) \/ SupersedeOrder(h)
    \/ AllSuperseded(h) \/ CreateOrder(h)
    \/ CheckRefund(h) \/ CallGatewayRefund(h) \/ CommitRefund(h)
    \/ ApplyPaymentEvent(h)
    \/ CheckTargetVisit(h) \/ WriteVisitTag(h)

Next ==
    \/ External
    \/ \E e \in Escrows : PayOut(e)
    \/ \E h \in Handlers : Receive(h) \/ Continue(h) \/ Crash(h)

Spec == Init /\ [][Next]_vars

-----------------------------------------------------------------------------
(* Properties                                                              *)

\* "A recurring visit has at most one bound payment": of all orders captured,
\* refunded, paid out and captured again, at most one is held or paid out for
\* a visit (bindRecurringVisitCapture).
OneBoundPayment ==
    \A v \in Visits : \A e, f \in BoundPayments(v) : e = f

\* "Only one order stays active": a visit never has two unpaid orders a
\* customer could pay (settlePendingRecurringVisitOrders).
OneActiveOrder ==
    \A v \in Visits : \A e, f \in UnpaidOrders(v) : e = f

\* A visit that is paid, or paid out, gets no new order, even while its orders
\* are being captured (the paid check and the insert share the visit's lock).
NoOrderForPaidVisit ==
    [][\A e \in Escrows :
         escrow[e].visit = NoVisit /\ escrow'[e].visit # NoVisit
           => BoundPayments(escrow'[e].visit) = {}]_vars

\* Superseding or rejecting never hits money that counts: a paid order is only
\* cancelled when its own payment fails or when the visit has another payment.
PaidOrderNotCancelled ==
    [][\A e \in Escrows :
         isEscrowPaidRecord(escrow[e]) /\ escrow'[e].status = "cancelled"
           => \/ escrow'[e].paymentStatus = "failed"
              \/ escrow'[e].duplicate /\ BoundPayments(escrow[e].visit) # {}]_vars

\* A payment moves to another visit only while it is still held: not once it is
\* paid out, refunded, cancelled or failed, however the move was delayed
\* (reassignRecurringVisitEscrow).
OnlyHeldPaymentsMove ==
    [][\A e \in Escrows :
         escrow[e].visit # NoVisit /\ escrow'[e].visit # escrow[e].visit
           => isEscrowActiveHeldRecord(escrow[e])]_vars

\* What became of each order, for the abstract specification.
Outcome(row) ==
    CASE row.status = "refunded"      -> "returned"
      [] isVisitBoundPayment(row)     -> "bound"
      [] row.status = "cancelled" /\ row.duplicate -> "rejected"
      [] OTHER                        -> "open"

Promise == INSTANCE VisitPayments
           WITH visit <- [e \in Escrows |-> escrow[e].visit],
                state <- [e \in Escrows |-> Outcome(escrow[e])]

\* The locked handlers, whatever runs beside them, implement VisitPayments: a
\* capture is rejected only while another payment is the visit's payment, a
\* rejected one is never bound, and returned money is never bound again.
KeepsPromise == Promise!PSpec

\* The orders of a visit are kept apart from its payment: none is made for a
\* visit that is paid, and a paid one is not superseded.
PaidOrdersKept == NoOrderForPaidVisit /\ PaidOrderNotCancelled
=============================================================================
