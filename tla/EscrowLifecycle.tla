--------------------------- MODULE EscrowLifecycle ---------------------------
(***************************************************************************)
(* One marketplace escrow row and everything that races to change it.      *)
(*                                                                         *)
(* Each API request, webhook delivery or scheduler tick is an asynchronous *)
(* handler that reads the row, awaits, and writes later.  A member of      *)
(* Handlers is a slot for one request in flight; req[h] is its local state *)
(* and one action is what it does between two awaits.  The handlers are    *)
(*                                                                         *)
(*   paymentEvent  updateEscrowOnPaymentCapture (webhook, verify-payment   *)
(*                 and its background backfill)                            *)
(*   cancel        cancelPayment, which calls processRefund                *)
(*   refund        processRefund                                           *)
(*   payout        processPayout (API and auto-release scheduler)          *)
(*   taskPayout    processTaskCompletionPayout in manual-ops mode          *)
(*                                                                         *)
(* Razorpay is external: it authorizes, captures or fails payments and     *)
(* refunds captured ones up to the captured amount.                        *)
(***************************************************************************)
EXTENDS EscrowPaymentState, Integers, FiniteSetsExt

CONSTANTS
    Handlers,   \* slots for requests in flight
    Amount,     \* what one payment captures, in units of money
    MaxCaptures,\* payments Razorpay captures for one order (it promises 1)
    Endpoints,  \* which requests are exercised
    Faults      \* which failures may happen

AllEndpoints == {"paymentEvent", "cancel", "refund", "payout", "taskPayout"}
AllFaults    == {"crash", "gatewayError", "lostReply", "bankError", "dbError",
                 "earlySettlement"}

ASSUME LifecycleAssumption == /\ IsFiniteSet(Payments)
                              /\ Amount \in Nat \ {0}
                              /\ MaxCaptures \in Nat
                              /\ Endpoints \subseteq AllEndpoints
                              /\ Faults \subseteq AllFaults

VARIABLES
    escrow,     \* the Escrow row
    gateway,    \* Razorpay's view of every payment
    refundRow,  \* latest Refund row of each payment
    payoutRow,  \* the escrow's live Payout row
    transfers,  \* bank transfers made to the performer
    funded,     \* getEscrowBalance covers the escrow amount
    req         \* the request each handler slot is serving

vars == <<escrow, gateway, refundRow, payoutRow, transfers, funded, req>>

Steps == {"idle", "event.apply", "event.book", "fail.balance", "fail.book",
          "refund.check", "refund.quote", "refund.call", "refund.commit",
          "cancel.reread", "cancel.write", "cancel.book",
          "payout.claim", "payout.transfer", "payout.rollback",
          "payout.record", "task.claim"}

Requests == [step       : Steps,
             event      : PaymentEvents \cup {"none"},
             payment    : Payments \cup {NoPayment},
             seen       : EscrowRows,  \* the row a conditional write refers to
             cancelling : BOOLEAN,     \* processRefund was called by cancelPayment
             owed       : BOOLEAN,     \* its refund failed with money still owed
             amount     : 0..Amount,   \* refund amount quoted to Razorpay
             balance    : BOOLEAN]     \* `funded` as read before a ledger write

NewRow == [status |-> "pending", paymentStatus |-> "pending",
           paymentId |-> NoPayment]

Idle == [step |-> "idle", event |-> "none", payment |-> NoPayment,
         seen |-> NewRow, cancelling |-> FALSE, owed |-> FALSE,
         amount |-> 0, balance |-> FALSE]

TypeOK ==
    /\ escrow \in EscrowRows
    /\ gateway \in [Payments ->
                      [state    : {"created", "authorized", "captured", "failed"},
                       refunded : 0..Amount]]
    /\ refundRow \in [Payments -> {"none", "completed"}]
    /\ payoutRow \in {"none", "processing", "completed"}
    /\ transfers \in Nat
    /\ funded \in BOOLEAN
    /\ req \in [Handlers -> Requests]

\* createEscrow stores a pending row; recoverEscrowFromRazorpayOrder rebuilds
\* one without a paymentStatus.  Both book the order's amount in the ledger
\* before any payment; when that write fails it is only logged.
Init ==
    /\ escrow \in {NewRow, [NewRow EXCEPT !.paymentStatus = "none"]}
    /\ gateway = [p \in Payments |-> [state |-> "created", refunded |-> 0]]
    /\ refundRow = [p \in Payments |-> "none"]
    /\ payoutRow = "none"
    /\ transfers = 0
    /\ funded \in BOOLEAN
    /\ req = [h \in Handlers |-> Idle]

At(h, step) == req[h].step = step
Begin(h, endpoint) == At(h, "idle") /\ endpoint \in Endpoints

Become(h, r) == req' = [req EXCEPT ![h] = r]
GoTo(h, step) == req' = [req EXCEPT ![h].step = step]
Return(h) == Become(h, Idle)

-----------------------------------------------------------------------------
(* Razorpay (external)                                                     *)

GatewayMoves(p, from, to) ==
    /\ gateway[p].state = from
    /\ gateway' = [gateway EXCEPT ![p].state = to]
    /\ UNCHANGED <<escrow, refundRow, payoutRow, transfers, funded, req>>

GatewayAuthorizes(p) == GatewayMoves(p, "created", "authorized")
GatewayFails(p)      == GatewayMoves(p, "created", "failed")

CapturedPayments == {p \in Payments : gateway[p].state = "captured"}

GatewayCaptures(p) == /\ Cardinality(CapturedPayments) < MaxCaptures
                      /\ GatewayMoves(p, "authorized", "captured")

\* The events Razorpay can deliver about p: any it already went through, in
\* any order and any number of times.
Emitted(p) ==
    CASE gateway[p].state = "created"    -> {}
      [] gateway[p].state = "authorized" -> {"authorized"}
      [] gateway[p].state = "captured"   -> {"authorized", "captured"}
      [] gateway[p].state = "failed"     -> {"failed"}

Refundable(p) == IF gateway[p].state = "captured"
                 THEN Amount - gateway[p].refunded ELSE 0

-----------------------------------------------------------------------------
(* updateEscrowOnPaymentCapture                                            *)

\* The read and the decision.  An event that may not change the row is
\* answered as ignored (or idempotent) and changes nothing.
ReceivePaymentEvent(h, p, event) ==
    /\ Begin(h, "paymentEvent")
    /\ event \in Emitted(p)
    /\ ~CaptureAlreadyApplied(escrow, event, p)
    /\ resolveEscrowPaymentTransition(escrow, event, p)
    /\ Become(h, [Idle EXCEPT !.step = "event.apply", !.event = event,
                              !.payment = p, !.seen = escrow])
    /\ UNCHANGED <<escrow, gateway, refundRow, payoutRow, transfers, funded>>

\* The conditional updateMany; zero rows means the escrow changed meanwhile
\* and the event is dropped.
ApplyPaymentEvent(h) ==
    /\ At(h, "event.apply")
    /\ LET r == req[h] IN
         \/ /\ ~SameState(escrow, r.seen)
            /\ Return(h)
            /\ UNCHANGED escrow
         \/ /\ SameState(escrow, r.seen)
            /\ escrow' = PaymentUpdate(escrow, r.event, r.payment)
            /\ CASE r.event = "captured" -> GoTo(h, "event.book")
                 [] r.event = "failed" -> GoTo(h, "fail.balance")
                 [] OTHER -> Return(h)
    /\ UNCHANGED <<gateway, refundRow, payoutRow, transfers, funded>>

\* A ledger write outside a transaction: createLedgerEntry swallows its errors.
BookBalance(balance) ==
    \/ funded' = balance
    \/ "dbError" \in Faults /\ UNCHANGED funded

\* The payment ledger entry, whose balanceAfter is the escrow amount.
BookCapture(h) ==
    /\ At(h, "event.book")
    /\ BookBalance(TRUE)
    /\ Return(h)
    /\ UNCHANGED <<escrow, gateway, refundRow, payoutRow, transfers>>

\* handlePaymentFailure reads the balance ...
ReadBalanceForFailure(h) ==
    /\ At(h, "fail.balance")
    /\ Become(h, [req[h] EXCEPT !.step = "fail.book", !.balance = funded])
    /\ UNCHANGED <<escrow, gateway, refundRow, payoutRow, transfers, funded>>

\* ... and repeats it in a zero ledger entry.
BookFailure(h) ==
    /\ At(h, "fail.book")
    /\ BookBalance(req[h].balance)
    /\ Return(h)
    /\ UNCHANGED <<escrow, gateway, refundRow, payoutRow, transfers>>

-----------------------------------------------------------------------------
(* processRefund                                                           *)

\* The payment to refund is the escrow's own, else the one the caller names or
\* Razorpay finds for the order, whatever its state (resolvePaymentIdForRefund).
RefundTargets == IF escrow.paymentId # NoPayment THEN {escrow.paymentId}
                 ELSE {p \in Payments : gateway[p].state # "created"}

BeginRefund(h, p) ==
    /\ Begin(h, "refund")
    /\ p \in RefundTargets
    /\ Become(h, [Idle EXCEPT !.step = "refund.check", !.payment = p])
    /\ UNCHANGED <<escrow, gateway, refundRow, payoutRow, transfers, funded>>

\* A refund that did not happen: an error to its caller; cancelPayment goes on
\* and remembers whether the customer is still owed money.
RefundRejected(h, owed) ==
    IF req[h].cancelling
    THEN Become(h, [req[h] EXCEPT !.step = "cancel.reread", !.owed = owed,
                                  !.amount = 0])
    ELSE Return(h)

\* Wrong on purpose: a released escrow is refunded too.
CheckEscrowForRefund_Released(h) ==
    /\ At(h, "refund.check")
    /\ IF escrow.status = "refunded" THEN RefundRejected(h, FALSE)
                                     ELSE GoTo(h, "refund.quote")
    /\ UNCHANGED <<escrow, gateway, refundRow, payoutRow, transfers, funded>>

\* The escrow is read: refunded and released rows are refused.
CheckEscrowForRefund(h) ==
    /\ At(h, "refund.check")
    /\ CASE escrow.status = "refunded" -> RefundRejected(h, FALSE)
         [] escrow.status = "released" -> RefundRejected(h, TRUE)
         [] OTHER -> GoTo(h, "refund.quote")
    /\ UNCHANGED <<escrow, gateway, refundRow, payoutRow, transfers, funded>>

\* Amounts processRefund may settle on for payment p: what fees leave of what
\* was paid and not refunded (the state of p is not read).  0 is the fee-only
\* settlement of an hourly booking, which task-service sends with a cancellation;
\* "earlySettlement" lets it send one before the booking's payment is captured.
Quotes(h, p) ==
    {a \in 0..(Amount - gateway[p].refunded) :
        a = 0 => /\ req[h].cancelling
                 /\ gateway[p].refunded < Amount
                 /\ \/ gateway[p].state = "captured"
                    \/ "earlySettlement" \in Faults}

\* The idempotency read of the Refund rows, the payment read from Razorpay and
\* the fee policy.  A completed refund is returned as success; nothing is owed
\* when nothing is left, or fees leave nothing; a payment that cannot be read or
\* a quote above what was paid is an error.  A fee-only one skips Razorpay.
QuoteRefund(h) ==
    /\ At(h, "refund.quote")
    /\ LET p == req[h].payment IN
         \/ refundRow[p] = "completed" /\ Return(h)
         \/ /\ refundRow[p] # "completed"
            /\ \/ \E owed \in BOOLEAN : RefundRejected(h, owed)
               \/ \E a \in Quotes(h, p) :
                    Become(h, [req[h] EXCEPT
                        !.step = IF a = 0 THEN "refund.commit" ELSE "refund.call",
                        !.amount = a])
    /\ UNCHANGED <<escrow, gateway, refundRow, payoutRow, transfers, funded>>

\* The Razorpay refund call, before anything is recorded.  Razorpay refunds
\* only what is still refundable; a reply may be lost after it did.
CallGatewayRefund(h) ==
    /\ At(h, "refund.call")
    /\ LET p == req[h].payment
           a == req[h].amount
           refunds == gateway' = [gateway EXCEPT ![p].refunded = @ + a] IN
         \/ /\ a <= Refundable(p)
            /\ refunds
            /\ \/ GoTo(h, "refund.commit")
               \/ "lostReply" \in Faults /\ RefundRejected(h, TRUE)
         \/ /\ a > Refundable(p) \/ "gatewayError" \in Faults
            /\ RefundRejected(h, TRUE)
            /\ UNCHANGED gateway
    /\ UNCHANGED <<escrow, refundRow, payoutRow, transfers, funded>>

\* Wrong on purpose: the Refund row is stored but the escrow stays payable.
CommitRefund_StaysHeld(h) ==
    /\ At(h, "refund.commit")
    /\ refundRow' = [refundRow EXCEPT ![req[h].payment] = "completed"]
    /\ Return(h)
    /\ UNCHANGED <<escrow, gateway, payoutRow, transfers, funded>>

\* Wrong on purpose: nothing records that Razorpay was called.
CommitRefund_Unrecorded(h) ==
    /\ At(h, "refund.commit")
    /\ Return(h)
    /\ UNCHANGED <<escrow, gateway, refundRow, payoutRow, transfers, funded>>

\* Wrong on purpose: the Refund row keeps the status it is created with.
CommitRefund_LeavesProcessing(h) ==
    /\ At(h, "refund.commit")
    /\ refundRow' = [refundRow EXCEPT ![req[h].payment] = "processing"]
    /\ escrow' = [escrow EXCEPT !.status = "refunded",
                                !.paymentId = req[h].payment]
    /\ funded' = FALSE
    /\ Return(h)
    /\ UNCHANGED <<gateway, payoutRow, transfers>>

\* One database transaction: Refund row, escrow (unconditionally), ledger.  Its
\* ledger entries carry one createdAt, so the latest of a fee-only settlement
\* may be its zero refund entry, which leaves the balance as it was.
CommitRefund(h) ==
    /\ At(h, "refund.commit")
    /\ \/ /\ refundRow' = [refundRow EXCEPT ![req[h].payment] = "completed"]
          /\ escrow' = [escrow EXCEPT !.status = "refunded",
                                      !.paymentId = req[h].payment]
          /\ funded' \in (IF req[h].amount = 0 THEN {funded, FALSE} ELSE {FALSE})
          /\ Return(h)
       \/ /\ "dbError" \in Faults
          /\ RefundRejected(h, TRUE)
          /\ UNCHANGED <<escrow, refundRow, funded>>
    /\ UNCHANGED <<gateway, payoutRow, transfers>>

-----------------------------------------------------------------------------
(* cancelPayment                                                           *)

\* Wrong on purpose: cancels without trying the refund.
BeginCancel_NoRefund(h) ==
    /\ Begin(h, "cancel")
    /\ escrow.status \notin {"cancelled", "released"}
    /\ Become(h, [Idle EXCEPT !.step = "cancel.reread", !.cancelling = TRUE])
    /\ UNCHANGED <<escrow, gateway, refundRow, payoutRow, transfers, funded>>

BeginCancel(h) ==
    /\ Begin(h, "cancel")
    /\ escrow.status \notin {"cancelled", "released"}
    /\ Become(h, [Idle EXCEPT
           !.step = IF escrow.paymentId # NoPayment THEN "refund.check"
                                                    ELSE "cancel.reread",
           !.payment = escrow.paymentId,
           !.cancelling = TRUE])
    /\ UNCHANGED <<escrow, gateway, refundRow, payoutRow, transfers, funded>>

\* The row and its balance are read again: a captured payment whose refund
\* failed is only flagged for reconciliation, a refunded row is left alone.
RereadForCancel(h) ==
    /\ At(h, "cancel.reread")
    /\ IF \/ escrow.status = "refunded"
          \/ req[h].owed /\ holdsCapturedPayment(escrow)
       THEN Return(h)
       ELSE Become(h, [req[h] EXCEPT !.step = "cancel.write", !.balance = funded])
    /\ UNCHANGED <<escrow, gateway, refundRow, payoutRow, transfers, funded>>

\* The unconditional update; the zero ledger entry that follows repeats the
\* balance read before it.
WriteCancelled(h) ==
    /\ At(h, "cancel.write")
    /\ escrow' = [escrow EXCEPT !.status = "cancelled"]
    /\ GoTo(h, "cancel.book")
    /\ UNCHANGED <<gateway, refundRow, payoutRow, transfers, funded>>

BookCancellation(h) ==
    /\ At(h, "cancel.book")
    /\ BookBalance(req[h].balance)
    /\ Return(h)
    /\ UNCHANGED <<escrow, gateway, refundRow, payoutRow, transfers>>

-----------------------------------------------------------------------------
(* processPayout                                                           *)

\* The escrow must be held, without a live payout and with enough balance.
BeginPayout(h) ==
    /\ Begin(h, "payout")
    /\ escrow.status = "held"
    /\ payoutRow = "none"
    /\ funded
    /\ Become(h, [Idle EXCEPT !.step = "payout.claim"])
    /\ UNCHANGED <<escrow, gateway, refundRow, payoutRow, transfers, funded>>

\* Wrong on purpose: the claim does not look at the status it replaces.
ClaimForPayout_Blind(h) ==
    /\ At(h, "payout.claim")
    /\ escrow' = [escrow EXCEPT !.status = "released"]
    /\ GoTo(h, "payout.transfer")
    /\ UNCHANGED <<gateway, refundRow, payoutRow, transfers, funded>>

\* held -> released with a conditional update, before any money moves.
ClaimForPayout(h) ==
    /\ At(h, "payout.claim")
    /\ IF escrow.status = "held"
       THEN /\ escrow' = [escrow EXCEPT !.status = "released"]
            /\ GoTo(h, "payout.transfer")
       ELSE Return(h) /\ UNCHANGED escrow
    /\ UNCHANGED <<gateway, refundRow, payoutRow, transfers, funded>>

\* Wrong on purpose: a failed transfer forgets to hand the claim back.
TransferToBank_NoRollback(h) ==
    /\ At(h, "payout.transfer")
    /\ \/ transfers' = transfers + 1 /\ GoTo(h, "payout.record")
       \/ "bankError" \in Faults /\ Return(h) /\ UNCHANGED transfers
    /\ UNCHANGED <<escrow, gateway, refundRow, payoutRow, funded>>

TransferToBank(h) ==
    /\ At(h, "payout.transfer")
    /\ \/ transfers' = transfers + 1 /\ GoTo(h, "payout.record")
       \/ /\ "bankError" \in Faults
          /\ GoTo(h, "payout.rollback")
          /\ UNCHANGED transfers
    /\ UNCHANGED <<escrow, gateway, refundRow, payoutRow, funded>>

\* Wrong on purpose: the claim is handed back whatever the row has become.
RollbackClaim_Blind(h) ==
    /\ At(h, "payout.rollback")
    /\ escrow' = [escrow EXCEPT !.status = "held"]
    /\ Return(h)
    /\ UNCHANGED <<gateway, refundRow, payoutRow, transfers, funded>>

\* No money moved: a failed payout is stored and the claim is handed back; when
\* the row cannot be stored the claim stays.
RollbackClaim(h) ==
    /\ At(h, "payout.rollback")
    /\ \/ escrow' = IF escrow.status = "released"
                    THEN [escrow EXCEPT !.status = "held"] ELSE escrow
       \/ "dbError" \in Faults /\ UNCHANGED escrow
    /\ Return(h)
    /\ UNCHANGED <<gateway, refundRow, payoutRow, transfers, funded>>

\* Wrong on purpose: a payout that cannot be recorded hands the escrow back,
\* although the bank transfer was made.
RecordPayout_HandsBack(h) ==
    /\ At(h, "payout.record")
    /\ \/ /\ funded
          /\ payoutRow' = "completed"
          /\ funded' = FALSE
          /\ UNCHANGED escrow
       \/ /\ ~funded \/ "dbError" \in Faults
          /\ escrow' = IF escrow.status = "released"
                       THEN [escrow EXCEPT !.status = "held"] ELSE escrow
          /\ UNCHANGED <<payoutRow, funded>>
    /\ Return(h)
    /\ UNCHANGED <<gateway, refundRow, transfers>>

\* One transaction re-checks the balance and books payout and ledger; when it
\* fails the escrow stays released.
RecordPayout(h) ==
    /\ At(h, "payout.record")
    /\ \/ /\ funded
          /\ payoutRow' = "completed"
          /\ funded' = FALSE
       \/ /\ ~funded \/ "dbError" \in Faults
          /\ UNCHANGED <<payoutRow, funded>>
    /\ Return(h)
    /\ UNCHANGED <<escrow, gateway, refundRow, transfers>>

-----------------------------------------------------------------------------
(* processTaskCompletionPayout, manual-ops mode                            *)

BeginTaskPayout(h) ==
    /\ Begin(h, "taskPayout")
    /\ escrow.status = "held"
    /\ payoutRow = "none"
    /\ Become(h, [Idle EXCEPT !.step = "task.claim"])
    /\ UNCHANGED <<escrow, gateway, refundRow, payoutRow, transfers, funded>>

\* Claim and payout row in one transaction; a lost claim aborts it.
CommitTaskPayout(h) ==
    /\ At(h, "task.claim")
    /\ IF escrow.status = "held"
       THEN /\ escrow' = [escrow EXCEPT !.status = "released"]
            /\ payoutRow' = "processing"
       ELSE UNCHANGED <<escrow, payoutRow>>
    /\ Return(h)
    /\ UNCHANGED <<gateway, refundRow, transfers, funded>>

\* Finance operators transfer the money by hand and mark the row completed.
OpsSettlePayout ==
    /\ payoutRow = "processing"
    /\ payoutRow' = "completed"
    /\ transfers' = transfers + 1
    /\ UNCHANGED <<escrow, gateway, refundRow, funded, req>>

-----------------------------------------------------------------------------
\* The process dies between two awaits; nothing is undone.
Crash(h) ==
    /\ "crash" \in Faults
    /\ ~At(h, "idle")
    /\ Return(h)
    /\ UNCHANGED <<escrow, gateway, refundRow, payoutRow, transfers, funded>>

External == \E p \in Payments :
    GatewayAuthorizes(p) \/ GatewayCaptures(p) \/ GatewayFails(p)

Receive(h) ==
    \/ \E p \in Payments, event \in PaymentEvents : ReceivePaymentEvent(h, p, event)
    \/ \E p \in Payments : BeginRefund(h, p)
    \/ BeginCancel(h)
    \/ BeginPayout(h)
    \/ BeginTaskPayout(h)

Continue(h) ==
    \/ ApplyPaymentEvent(h) \/ BookCapture(h)
    \/ ReadBalanceForFailure(h) \/ BookFailure(h)
    \/ CheckEscrowForRefund(h) \/ QuoteRefund(h)
    \/ CallGatewayRefund(h) \/ CommitRefund(h)
    \/ RereadForCancel(h) \/ WriteCancelled(h) \/ BookCancellation(h)
    \/ ClaimForPayout(h) \/ TransferToBank(h)
    \/ RollbackClaim(h) \/ RecordPayout(h)
    \/ CommitTaskPayout(h)

Next ==
    \/ External
    \/ OpsSettlePayout
    \/ \E h \in Handlers : Receive(h) \/ Continue(h) \/ Crash(h)

Spec == Init /\ [][Next]_vars

\* A request that was started runs to its end: Node keeps scheduling its
\* continuations.  Nothing else is promised: webhooks may never arrive.
FairSpec == Spec /\ \A h \in Handlers : WF_vars(Continue(h))

-----------------------------------------------------------------------------
(* Properties                                                              *)

\* A captured escrow never goes back to authorized or failed: a late, repeated
\* or reordered event loses against the capture (escrowPaymentState.ts, the
\* conditional write of updateEscrowOnPaymentCapture).
CaptureIsFinal ==
    [][escrow.paymentStatus = "captured" => escrow'.paymentStatus = "captured"]_vars

\* The performer is never paid more often than customers paid: of the payout
\* endpoints, the auto-release scheduler and a payout retried after a failed
\* transfer, one wins each claim (processPayout, processTaskCompletionPayout).
PaidOutOnce ==
    transfers + (IF payoutRow = "processing" THEN 1 ELSE 0)
        <= Cardinality(CapturedPayments)

\* An escrow handed back to held, by a payout rollback or by a later capture,
\* still has money of its own to pay out.
HeldIsUnpaid ==
    escrow.status = "held" =>
        transfers + (IF payoutRow = "processing" THEN 1 ELSE 0)
            < Cardinality(CapturedPayments)

\* A refunded escrow, and no cancellation that read the row before the refund has
\* yet to write it.
RefundStands == /\ escrow.status = "refunded"
                /\ ~\E h \in Handlers : At(h, "cancel.write")

\* "refunded/released escrows are never re-held" (resolveEscrowPaymentTransition):
\* a refund that stands, stands for good, against late and repeated payment events,
\* payout claims, claims handed back and later cancellations.  A refund that does
\* not stand need not: cancelPayment writes "cancelled" over whatever the row became
\* since it was read (WriteCancelled), and a late captured event then holds it again.
RefundIsFinal == [][RefundStands => RefundStands']_vars

\* Money that left the platform never exceeds money that came in.
Solvent ==
    transfers * Amount + MapThenSumSet(LAMBDA p : gateway[p].refunded, Payments)
        <= Amount * Cardinality(CapturedPayments)

\* A claimed escrow is not leaked: the payout that released it is recorded, or
\* the escrow leaves released.
ClaimResolves ==
    escrow.status = "released" ~> (payoutRow # "none" \/ escrow.status # "released")

\* An escrow with captured money is cancelled only by a cancellation that tried
\* to refund that very payment and found nothing owed (cancelPayment:
\* "marking it cancelled would record a cancellation while the customer's money
\* was never returned").
CancelReturnsMoney ==
    [][(/\ escrow.status # "cancelled" /\ escrow'.status = "cancelled"
        /\ holdsCapturedPayment(escrow))
         => \E h \in Handlers : /\ At(h, "cancel.write") /\ ~req[h].owed
                               /\ req[h].payment = escrow.paymentId]_vars

\* A payment Razorpay already refunded is not refunded again: processRefund
\* checks for a refund in progress or completed before it calls Razorpay.
RefundedOnce ==
    [][\A p \in Payments : gateway'[p].refunded > gateway[p].refunded
                             => gateway[p].refunded = 0]_vars

\* processRefund: "Refund cannot be processed after payout release."
NoRefundAfterRelease ==
    [][(\E p \in Payments : gateway'[p].refunded > gateway[p].refunded)
         => escrow.status # "released"]_vars

\* A refund leaves Razorpay at most once per payment and never after the payout
\* claimed the escrow.
RefundIsDue == RefundedOnce /\ NoRefundAfterRelease
=============================================================================
