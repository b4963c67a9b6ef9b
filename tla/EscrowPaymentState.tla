------------------------- MODULE EscrowPaymentState -------------------------
(***************************************************************************)
(* The payment rules every writer of an escrow row shares                  *)
(* (src/utils/escrowPaymentState.ts): when a row counts as paid, and which *)
(* payment events may still change it.  A row is reduced to the columns    *)
(* the rules read: status, paymentStatus and the bound razorpayPaymentId.  *)
(***************************************************************************)

CONSTANTS
    Payments,   \* Razorpay payment attempts
    NoPayment   \* the null razorpayPaymentId

ASSUME NoPaymentAssumption == NoPayment \notin Payments

EscrowStatuses  == {"pending", "held", "released", "refunded", "cancelled"}

\* "none" is the null paymentStatus of a row rebuilt from its Razorpay order.
PaymentStatuses == {"none", "pending", "authorized", "captured", "failed"}

PaymentEvents   == {"authorized", "captured", "failed"}

EscrowRows == [status        : EscrowStatuses,
               paymentStatus : PaymentStatuses,
               paymentId     : Payments \cup {NoPayment}]

\* Money was taken for the escrow and not refunded, cancelled or failed.
isEscrowPaidRecord(e) ==
    /\ e.status \notin {"refunded", "cancelled"}
    /\ e.paymentStatus # "failed"
    /\ \/ e.status \in {"held", "released"}
       \/ e.paymentStatus \in {"captured", "authorized"}

\* Paid and still held by the platform.
isEscrowActiveHeldRecord(e) == isEscrowPaidRecord(e) /\ e.status # "released"

\* Authorized and failed events no longer apply.
Settled(e) == \/ e.paymentStatus = "captured"
              \/ e.status \in {"held", "released", "refunded"}

FailureAlreadyRecorded(e, p) ==
    /\ e.paymentStatus = "failed"
    /\ e.paymentId \in {NoPayment, p}

\* Whether payment event `event` of payment p may change row e.
resolveEscrowPaymentTransition(e, event, p) ==
    CASE event = "captured" ->
            /\ e.status \notin {"released", "refunded"}
            /\ ~(e.paymentStatus = "captured" /\ e.status = "held")
      [] event = "failed" ->
            ~Settled(e) /\ ~FailureAlreadyRecorded(e, p)
      [] OTHER -> ~Settled(e)

\* The same payment was already captured on this row: only the idempotent
\* follow-ups (coins, coupon) run, the row is not written.
CaptureAlreadyApplied(e, event, p) ==
    event = "captured" /\ e.paymentStatus = "captured" /\ e.paymentId = p

\* The row updateEscrowOnPaymentCapture writes for an event that applies.
PaymentUpdate(e, event, p) ==
    [e EXCEPT !.paymentId = p,
              !.paymentStatus = event,
              !.status = CASE event = "captured" -> "held"
                           [] event = "failed"   -> "cancelled"
                           [] OTHER              -> e.status]

\* Wrong on purpose: the update is not conditional on the inspected state.
SameState_Blind(e, seen) == TRUE

\* The guard of the conditional updateMany: the row still has the status and
\* paymentStatus that were inspected.
SameState(e, seen) == /\ e.status = seen.status
                      /\ e.paymentStatus = seen.paymentStatus

\* cancellationService: the row still stands for captured money.
holdsCapturedPayment(e) == e.status = "held" \/ e.paymentStatus = "captured"
=============================================================================
