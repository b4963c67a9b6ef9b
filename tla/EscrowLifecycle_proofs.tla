----------------------- MODULE EscrowLifecycle_proofs -----------------------
(***************************************************************************)
(* Proofs about EscrowLifecycle, for any number of handlers, any set of    *)
(* payments, any amount and any combination of endpoints and faults.       *)
(*                                                                         *)
(*   TypeCorrect      Spec => []TypeOK                                     *)
(*   CaptureFinal     Spec => CaptureIsFinal                               *)
(*   RefundFinal      Spec => RefundIsFinal, and a refund stands for good  *)
(*   RefundFinalSequential  the same of any refund, one request at a time  *)
(*   PaidOnce         Spec => []PaidOutOnce                                *)
(*   HeldUnpaid       Spec => []HeldIsUnpaid                               *)
(*   SolventSequential  Spec => []Solvent                                  *)
(*   RefundDue        Spec => RefundIsDue                                  *)
(*   CancelReturns    Spec => CancelReturnsMoney                           *)
(*                                                                         *)
(* PaidOnce and HeldUnpaid assume what Razorpay and task-service promise:  *)
(* at most one capture per order and no fee-only settlement of an          *)
(* uncaptured payment.  The last three do not: they are about requests     *)
(* that come one at a time, the first two of them with no crash, lost      *)
(* answer or failed write.                                                 *)
(*                                                                         *)
(* RequestInv says what a request in flight knows; ClaimInv, that money to *)
(* the performer is always preceded by a claim nobody else can hold;       *)
(* SolventInv, that the escrow's status tells which way its money went.    *)
(***************************************************************************)
EXTENDS EscrowLifecycle, FiniteSums, FiniteSetTheorems, TLAPS

Captured(p) == gateway[p].state = "captured"

\* What a payment event that passed its checks may rely on.
EventInv == \A h \in Handlers : At(h, "event.apply") =>
    LET r == req[h] IN
      /\ r.payment \in Payments
      /\ r.event \in PaymentEvents
      /\ resolveEscrowPaymentTransition(r.seen, r.event, r.payment)
      /\ ~CaptureAlreadyApplied(r.seen, r.event, r.payment)
      /\ r.event = "captured" => Captured(r.payment)

\* What a refund may commit: a payment Razorpay captured, unless a settlement
\* came early.
Committable(p) == Captured(p) \/ "earlySettlement" \in Faults

\* A refund in flight is of a payment; a request to Razorpay is for an amount.
RefundInv == \A h \in Handlers :
    /\ req[h].step \in {"refund.check", "refund.quote", "refund.call", "refund.commit"}
         => req[h].payment \in Payments
    /\ req[h].step = "refund.call" => req[h].amount > 0
    /\ req[h].step = "refund.commit" => Committable(req[h].payment)

RequestInv == TypeOK /\ EventInv /\ RefundInv

\* A held or released escrow was captured, by the payment it names.
PaidInv ==
    /\ escrow.status \in {"held", "released"} => escrow.paymentStatus = "captured"
    /\ escrow.paymentStatus = "captured"
         => escrow.paymentId \in Payments /\ Captured(escrow.paymentId)

\* Razorpay captured at most one payment of the order.
OneCapture == \A p, q \in Payments : Captured(p) /\ Captured(q) => p = q

\* Payouts that claimed the escrow and did not move money yet.
Claims(h) == req[h].step \in {"payout.transfer", "payout.rollback"}

Paid == transfers + (IF payoutRow = "processing" THEN 1 ELSE 0)

\* One claim at a time, none on an escrow that is not captured or is held, and
\* none once the performer was paid.
ClaimInv ==
    /\ (escrow.paymentStatus # "captured" \/ escrow.status = "held")
         => Paid = 0 /\ \A h \in Handlers : ~Claims(h)
    /\ \A h \in Handlers : Claims(h) => Paid = 0
    /\ \A g, h \in Handlers : Claims(g) /\ Claims(h) => g = h
    /\ Paid <= 1

\* A capture that an event saw on the row was made by the payment it saw there.
SeenInv == \A h \in Handlers :
    At(h, "event.apply") /\ req[h].seen.paymentStatus = "captured"
      => req[h].seen.paymentId \in Payments /\ Captured(req[h].seen.paymentId)

IInv == RequestInv /\ PaidInv /\ OneCapture /\ SeenInv /\ ClaimInv

-----------------------------------------------------------------------------
(* The initial states                                                      *)

LEMMA InitRequestInv == Init => RequestInv
<1> USE LifecycleAssumption, NoPaymentAssumption
<1>1. ASSUME Init PROVE TypeOK
  BY <1>1 DEF Init, TypeOK, NewRow, Idle, Requests, Steps, EscrowRows,
              EscrowStatuses, PaymentStatuses, PaymentEvents
<1>2. ASSUME Init PROVE EventInv /\ RefundInv
  BY <1>2 DEF Init, EventInv, RefundInv, At, Idle
<1> QED BY <1>1, <1>2 DEF RequestInv

-----------------------------------------------------------------------------
(* Steps that answer a request or only move it keep every request sound.   *)

\* A request that returned knows nothing.
LEMMA IdleTyped == Idle \in Requests
BY NoPaymentAssumption, LifecycleAssumption
   DEF Idle, NewRow, Requests, Steps, EscrowRows, EscrowStatuses,
       PaymentStatuses, PaymentEvents

\* The row a payment event writes is a row.
LEMMA PaymentUpdateTyped ==
  ASSUME NEW e \in EscrowRows, NEW event \in PaymentEvents, NEW p \in Payments
  PROVE  PaymentUpdate(e, event, p) \in EscrowRows
BY DEF PaymentUpdate, EscrowRows, EscrowStatuses, PaymentStatuses, PaymentEvents

\* No quote exceeds the captured amount.
LEMMA QuotesTyped ==
  ASSUME TypeOK, NEW h \in Handlers, NEW p \in Payments, NEW a \in Quotes(h, p)
  PROVE  /\ a \in 0..Amount
         /\ a = 0 => Committable(p)
BY LifecycleAssumption DEF TypeOK, Quotes, Captured, Committable

\* Each request is of its type.
LEMMA RequestTyped ==
  ASSUME RequestInv, NEW h \in Handlers
  PROVE  req \in [Handlers -> Requests] /\ req[h] \in Requests
BY DEF RequestInv, TypeOK

\* Replacing one request by a sound one keeps all requests sound.
LEMMA BecomeSound ==
  ASSUME RequestInv, NEW h \in Handlers, NEW r \in Requests, Become(h, r),
         UNCHANGED <<escrow, gateway, refundRow, payoutRow, transfers, funded>>,
         r.step # "event.apply",
         r.step \in {"refund.check", "refund.quote", "refund.call", "refund.commit"}
           => r.payment \in Payments,
         r.step = "refund.call" => r.amount > 0,
         r.step = "refund.commit" => Committable(r.payment)
  PROVE  RequestInv'
<1>1. TypeOK'
  BY DEF RequestInv, TypeOK, Become
<1>2. EventInv'
  BY DEF RequestInv, TypeOK, Become, EventInv, At, Captured
<1>3. RefundInv'
  BY DEF RequestInv, TypeOK, Become, RefundInv, Captured, Committable
<1> QED BY <1>1, <1>2, <1>3 DEF RequestInv

\* The same for a request that only changes its step.
LEMMA GoToSound ==
  ASSUME RequestInv, NEW h \in Handlers, NEW step \in Steps, GoTo(h, step),
         UNCHANGED <<escrow, gateway, refundRow, payoutRow, transfers, funded>>,
         step # "event.apply",
         step \in {"refund.check", "refund.quote", "refund.call", "refund.commit"}
           => req[h].payment \in Payments,
         step \notin {"refund.call", "refund.commit"}
  PROVE  RequestInv'
<1> DEFINE r == [req[h] EXCEPT !.step = step]
<1>1. req \in [Handlers -> Requests] /\ req[h] \in Requests
  BY RequestTyped
<1>2. r \in Requests /\ r.step = step /\ r.payment = req[h].payment
  BY <1>1 DEF Requests
<1>3. Become(h, r)
  BY <1>1 DEF GoTo, Become
<1> HIDE DEF r
<1> QED BY <1>2, <1>3, BecomeSound

\* Returning is always sound.
LEMMA ReturnSound ==
  ASSUME RequestInv, NEW h \in Handlers, Return(h),
         UNCHANGED gateway, TypeOK'
  PROVE  RequestInv'
<1>1. EventInv'
  BY DEF RequestInv, TypeOK, Return, Become, Idle, EventInv, At, Captured
<1>2. RefundInv'
  BY DEF RequestInv, TypeOK, Return, Become, Idle, RefundInv, Captured, Committable
<1> QED BY <1>1, <1>2 DEF RequestInv

\* What a rejected refund leaves of its request.
LEMMA RejectedRequest ==
  ASSUME RequestInv, NEW h \in Handlers, NEW owed \in BOOLEAN,
         RefundRejected(h, owed)
  PROVE  \E r \in Requests : /\ r.step \in {"cancel.reread", "idle"}
                             /\ req' = [req EXCEPT ![h] = r]
<1> DEFINE r == IF req[h].cancelling
                THEN [req[h] EXCEPT !.step = "cancel.reread", !.owed = owed,
                                    !.amount = 0]
                ELSE Idle
<1>1. r \in Requests /\ r.step \in {"cancel.reread", "idle"}
  BY IdleTyped, LifecycleAssumption DEF RequestInv, TypeOK, Requests, Steps, Idle
<1>2. req' = [req EXCEPT ![h] = r]
  BY DEF RefundRejected, Become, Return
<1> QED BY <1>1, <1>2

\* A rejected refund leaves nothing to refund.
LEMMA RejectedSound ==
  ASSUME RequestInv, NEW h \in Handlers, NEW owed \in BOOLEAN,
         RefundRejected(h, owed), TypeOK' \/ UNCHANGED <<escrow, gateway,
           refundRow, payoutRow, transfers, funded>>,
         \A p \in Payments : Captured(p) => Captured(p)'
  PROVE  RequestInv'
<1>1. PICK r \in Requests : /\ r.step \in {"cancel.reread", "idle"}
                            /\ req' = [req EXCEPT ![h] = r]
  BY RejectedRequest
<1>2. TypeOK'
  BY <1>1 DEF RequestInv, TypeOK
<1>3. EventInv'
  BY <1>1 DEF RequestInv, TypeOK, EventInv, At
<1>4. RefundInv'
  BY <1>1 DEF RequestInv, TypeOK, RefundInv, Committable
<1> QED BY <1>2, <1>3, <1>4 DEF RequestInv

-----------------------------------------------------------------------------
(* Every action keeps the requests in flight sound.                        *)

\* Razorpay's own moves: a captured payment stays captured.
LEMMA ExternalSound ==
  ASSUME RequestInv, External
  PROVE  RequestInv'
<1>1. PICK p \in Payments, to \in {"authorized", "captured", "failed"} :
         /\ gateway[p].state # "captured"
         /\ gateway' = [gateway EXCEPT ![p].state = to]
         /\ UNCHANGED <<escrow, refundRow, payoutRow, transfers, funded, req>>
  BY DEF External, GatewayAuthorizes, GatewayCaptures, GatewayFails, GatewayMoves
<1>2. TypeOK'
  BY <1>1 DEF RequestInv, TypeOK
<1>3. \A q \in Payments : Captured(q) => Captured(q)'
  BY <1>1 DEF RequestInv, TypeOK, Captured
<1>4. EventInv'
  BY <1>1, <1>3 DEF RequestInv, EventInv, At
<1>5. RefundInv'
  BY <1>1, <1>3 DEF RequestInv, RefundInv, Committable
<1> QED BY <1>2, <1>4, <1>5 DEF RequestInv

LEMMA ReceiveEventSound ==
  ASSUME RequestInv, NEW h \in Handlers, NEW p \in Payments,
         NEW event \in PaymentEvents, ReceivePaymentEvent(h, p, event)
  PROVE  RequestInv'
<1> DEFINE r == [Idle EXCEPT !.step = "event.apply", !.event = event,
                             !.payment = p, !.seen = escrow]
<1>1. /\ r \in Requests
      /\ r.step = "event.apply" /\ r.event = event
      /\ r.payment = p /\ r.seen = escrow
  BY IdleTyped DEF RequestInv, TypeOK, Requests, Steps, Idle
<1>2. /\ req' = [req EXCEPT ![h] = r]
      /\ UNCHANGED <<escrow, gateway, refundRow, payoutRow, transfers, funded>>
      /\ resolveEscrowPaymentTransition(escrow, event, p)
      /\ ~CaptureAlreadyApplied(escrow, event, p)
  BY DEF ReceivePaymentEvent, Become
<1>3. event = "captured" => Captured(p)
  BY DEF ReceivePaymentEvent, Emitted, RequestInv, TypeOK, Captured
<1> HIDE DEF r
<1>4. TypeOK'
  BY <1>1, <1>2 DEF RequestInv, TypeOK
<1>5. EventInv'
  BY <1>1, <1>2, <1>3 DEF RequestInv, TypeOK, EventInv, At, Captured
<1>6. RefundInv'
  BY <1>1, <1>2 DEF RequestInv, TypeOK, RefundInv, Captured, Committable
<1> QED BY <1>4, <1>5, <1>6 DEF RequestInv

LEMMA ApplyEventSound ==
  ASSUME RequestInv, NEW h \in Handlers, ApplyPaymentEvent(h)
  PROVE  RequestInv'
<1> DEFINE r == req[h]
<1>1. r.payment \in Payments /\ r.event \in PaymentEvents
  BY DEF RequestInv, EventInv, ApplyPaymentEvent
<1>2. escrow' \in EscrowRows
  BY <1>1, PaymentUpdateTyped DEF RequestInv, TypeOK, ApplyPaymentEvent
<1>3. PICK s \in Requests : /\ req' = [req EXCEPT ![h] = s]
                            /\ s.step \in {"idle", "event.book", "fail.balance"}
  <2>1. CASE Return(h)
    BY <2>1, IdleTyped DEF Return, Become, Idle
  <2>2. CASE ~Return(h)
    <3>1. PICK step \in {"event.book", "fail.balance"} : GoTo(h, step)
      BY <2>2 DEF ApplyPaymentEvent
    <3>2. [req[h] EXCEPT !.step = step] \in Requests
      BY DEF RequestInv, TypeOK, Requests, Steps
    <3>3. [req[h] EXCEPT !.step = step].step = step
      BY DEF RequestInv, TypeOK, Requests
    <3> QED BY <3>1, <3>2, <3>3 DEF GoTo
  <2> QED BY <2>1, <2>2
<1>4. UNCHANGED <<gateway, refundRow, payoutRow, transfers, funded>>
  BY DEF ApplyPaymentEvent
<1>5. TypeOK'
  BY <1>2, <1>3, <1>4 DEF RequestInv, TypeOK
<1>6. EventInv'
  BY <1>3, <1>4 DEF RequestInv, TypeOK, EventInv, At, Captured
<1>7. RefundInv'
  BY <1>3, <1>4 DEF RequestInv, TypeOK, RefundInv, Captured, Committable
<1> QED BY <1>5, <1>6, <1>7 DEF RequestInv

\* The ledger entries written outside a transaction.
LEMMA BookSound ==
  ASSUME RequestInv, NEW h \in Handlers,
         BookCapture(h) \/ BookFailure(h) \/ BookCancellation(h)
  PROVE  RequestInv'
<1>1. /\ funded' \in BOOLEAN
      /\ Return(h)
      /\ UNCHANGED <<escrow, gateway, refundRow, payoutRow, transfers>>
  BY DEF RequestInv, TypeOK, Requests, BookCapture, BookFailure,
         BookCancellation, BookBalance
<1>2. TypeOK'
  BY <1>1, IdleTyped DEF RequestInv, TypeOK, Return, Become
<1> QED BY <1>1, <1>2, ReturnSound

\* processRefund up to its call of Razorpay.
LEMMA RefundReadsSound ==
  ASSUME RequestInv, NEW h \in Handlers,
         \/ \E p \in Payments : BeginRefund(h, p)
         \/ CheckEscrowForRefund(h)
         \/ QuoteRefund(h)
  PROVE  RequestInv'
<1>1. CASE \E p \in Payments : BeginRefund(h, p)
  <2>1. PICK p \in Payments : BeginRefund(h, p)
    BY <1>1
  <2> DEFINE r == [Idle EXCEPT !.step = "refund.check", !.payment = p]
  <2>2. r \in Requests /\ r.step = "refund.check" /\ r.payment = p
    BY IdleTyped DEF Requests, Steps, Idle
  <2>3. Become(h, r) /\ UNCHANGED <<escrow, gateway, refundRow, payoutRow, transfers, funded>>
    BY <2>1 DEF BeginRefund
  <2> HIDE DEF r
  <2> QED BY <2>2, <2>3, BecomeSound
<1>2. CASE CheckEscrowForRefund(h)
  <2>1. UNCHANGED <<escrow, gateway, refundRow, payoutRow, transfers, funded>>
    BY <1>2 DEF CheckEscrowForRefund
  <2>2. CASE \E owed \in BOOLEAN : RefundRejected(h, owed)
    BY <2>1, <2>2, RejectedSound DEF Captured
  <2>3. CASE GoTo(h, "refund.quote")
    <3>1. req[h].payment \in Payments
      BY <1>2 DEF CheckEscrowForRefund, At, RequestInv, RefundInv
    <3> QED BY <2>1, <2>3, <3>1, GoToSound DEF Steps
  <2> QED BY <1>2, <2>2, <2>3 DEF CheckEscrowForRefund
<1>3. CASE QuoteRefund(h)
  <2>1. UNCHANGED <<escrow, gateway, refundRow, payoutRow, transfers, funded>>
    BY <1>3 DEF QuoteRefund
  <2>2. CASE Return(h)
    <3>1. TypeOK'
      BY <2>1, <2>2, IdleTyped DEF RequestInv, TypeOK, Return, Become
    <3> QED BY <2>1, <2>2, <3>1, ReturnSound
  <2>3. CASE \E owed \in BOOLEAN : RefundRejected(h, owed)
    BY <2>1, <2>3, RejectedSound DEF Captured
  <2>4. ASSUME NEW a \in Quotes(h, req[h].payment),
               Become(h, [req[h] EXCEPT
                 !.step = IF a = 0 THEN "refund.commit" ELSE "refund.call",
                 !.amount = a])
        PROVE  RequestInv'
    <3> DEFINE r == [req[h] EXCEPT
                 !.step = IF a = 0 THEN "refund.commit" ELSE "refund.call",
                 !.amount = a]
    <3>1. req[h].payment \in Payments
      BY <1>3 DEF QuoteRefund, At, RequestInv, RefundInv
    <3>2. a \in 0..Amount /\ (a = 0 => Committable(req[h].payment))
      BY <2>4, <3>1, QuotesTyped DEF RequestInv
    <3>3. /\ r \in Requests /\ r.payment = req[h].payment /\ r.amount = a
          /\ r.step = IF a = 0 THEN "refund.commit" ELSE "refund.call"
      <4> DEFINE step == IF a = 0 THEN "refund.commit" ELSE "refund.call"
      <4>1. step \in Steps
        BY DEF Steps
      <4>2. req[h] \in Requests /\ a \in 0..Amount
        BY <3>2, RequestTyped
      <4> HIDE DEF step
      <4>3. r = [req[h] EXCEPT !.step = step, !.amount = a]
        BY DEF step
      <4>4. r \in Requests /\ r.payment = req[h].payment /\ r.amount = a /\ r.step = step
        <5> HIDE DEF r
        <5> QED BY <4>1, <4>2, <4>3 DEF Requests
      <4> QED BY <4>4 DEF step
    <3>4. Become(h, r)
      BY <2>4
    <3> HIDE DEF r
    <3> QED BY <2>1, <3>1, <3>2, <3>3, <3>4, BecomeSound
  <2> QED BY <1>3, <2>2, <2>3, <2>4 DEF QuoteRefund
<1> QED BY <1>1, <1>2, <1>3

\* The call itself: refunds are bounded by the capture and change no state.
LEMMA CallRefundGateway ==
  ASSUME RequestInv, NEW h \in Handlers, CallGatewayRefund(h)
  PROVE  /\ gateway' \in [Payments ->
              [state : {"created", "authorized", "captured", "failed"},
               refunded : 0..Amount]]
         /\ \A q \in Payments : gateway'[q].state = gateway[q].state
<1> DEFINE p == req[h].payment
           a == req[h].amount
<1>1. p \in Payments /\ a \in 0..Amount /\ a > 0
  BY DEF CallGatewayRefund, At, RequestInv, RefundInv, TypeOK, Requests
<1>2. \/ UNCHANGED gateway
      \/ a <= Refundable(p) /\ gateway' = [gateway EXCEPT ![p].refunded = @ + a]
  BY DEF CallGatewayRefund
<1> QED BY <1>1, <1>2, LifecycleAssumption
        DEF RequestInv, TypeOK, Refundable, Captured

LEMMA CallRefundSound ==
  ASSUME RequestInv, NEW h \in Handlers, CallGatewayRefund(h)
  PROVE  RequestInv'
<1> DEFINE p == req[h].payment
<1>1. p \in Payments /\ req[h].amount > 0
  BY DEF CallGatewayRefund, At, RequestInv, RefundInv
<1>2. UNCHANGED <<escrow, refundRow, payoutRow, transfers, funded>>
  BY DEF CallGatewayRefund
<1>3. /\ gateway' \in [Payments ->
             [state : {"created", "authorized", "captured", "failed"},
              refunded : 0..Amount]]
      /\ \A q \in Payments : gateway'[q].state = gateway[q].state
  BY CallRefundGateway
<1>4. \A q \in Payments : Captured(q) => Captured(q)'
  BY <1>3 DEF Captured
<1>5. CASE req[h].amount <= Refundable(p) /\ GoTo(h, "refund.commit")
  <2> DEFINE r == [req[h] EXCEPT !.step = "refund.commit"]
  <2>1. r \in Requests /\ r.step = "refund.commit" /\ r.payment = p
    BY DEF RequestInv, TypeOK, Requests, Steps
  <2>2. req' = [req EXCEPT ![h] = r]
    BY <1>5 DEF GoTo, RequestInv, TypeOK
  <2> HIDE DEF r
  <2>3. TypeOK'
    BY <1>2, <1>3, <2>1, <2>2 DEF RequestInv, TypeOK
  <2>4. EventInv'
    BY <1>4, <2>1, <2>2 DEF RequestInv, TypeOK, EventInv, At
  <2>5. Captured(p)
    BY <1>1, <1>5 DEF Refundable, Captured, RequestInv, TypeOK, Requests
  <2>6. RefundInv'
    BY <1>1, <1>4, <2>1, <2>2, <2>5 DEF RequestInv, TypeOK, RefundInv, Committable
  <2> QED BY <2>3, <2>4, <2>6 DEF RequestInv
<1>6. CASE RefundRejected(h, TRUE)
  <2>1. PICK r \in Requests : req' = [req EXCEPT ![h] = r]
    BY <1>6, RejectedRequest
  <2>2. TypeOK'
    BY <1>2, <1>3, <2>1 DEF RequestInv, TypeOK
  <2> QED BY <1>4, <1>6, <2>2, RejectedSound
<1> QED BY <1>5, <1>6 DEF CallGatewayRefund

LEMMA CommitRefundSound ==
  ASSUME RequestInv, NEW h \in Handlers, CommitRefund(h)
  PROVE  RequestInv'
<1>1. CASE /\ refundRow' = [refundRow EXCEPT ![req[h].payment] = "completed"]
           /\ escrow' = [escrow EXCEPT !.status = "refunded",
                                       !.paymentId = req[h].payment]
           /\ funded' \in (IF req[h].amount = 0 THEN {funded, FALSE} ELSE {FALSE})
           /\ Return(h)
           /\ UNCHANGED <<gateway, payoutRow, transfers>>
  <2>1. escrow' \in EscrowRows /\ funded' \in BOOLEAN
    BY <1>1 DEF RequestInv, TypeOK, Requests, EscrowRows, EscrowStatuses
  <2>2. TypeOK'
    BY <1>1, <2>1, IdleTyped DEF RequestInv, TypeOK, Return, Become
  <2> QED BY <1>1, <2>2, ReturnSound
<1>2. CASE RefundRejected(h, TRUE) /\ UNCHANGED <<escrow, refundRow, funded>>
  BY <1>2, RejectedSound DEF CommitRefund, Captured
<1> QED BY <1>1, <1>2 DEF CommitRefund

LEMMA CancelSound ==
  ASSUME RequestInv, NEW h \in Handlers,
         BeginCancel(h) \/ RereadForCancel(h) \/ WriteCancelled(h)
  PROVE  RequestInv'
<1>1. CASE BeginCancel(h)
  <2> DEFINE r == [Idle EXCEPT
           !.step = IF escrow.paymentId # NoPayment THEN "refund.check"
                                                    ELSE "cancel.reread",
           !.payment = escrow.paymentId,
           !.cancelling = TRUE]
  <2>1. /\ r \in Requests /\ r.step \in {"refund.check", "cancel.reread"}
        /\ r.step = "refund.check" => r.payment \in Payments
    BY IdleTyped DEF RequestInv, TypeOK, EscrowRows, Requests, Steps, Idle
  <2>2. /\ Become(h, r)
        /\ UNCHANGED <<escrow, gateway, refundRow, payoutRow, transfers, funded>>
    BY <1>1 DEF BeginCancel
  <2> HIDE DEF r
  <2> QED BY <2>1, <2>2, BecomeSound
<1>2. CASE RereadForCancel(h)
  <2>1. UNCHANGED <<escrow, gateway, refundRow, payoutRow, transfers, funded>>
    BY <1>2 DEF RereadForCancel
  <2>2. CASE Return(h)
    <3>1. TypeOK'
      BY <2>1, <2>2, IdleTyped DEF RequestInv, TypeOK, Return, Become
    <3> QED BY <2>1, <2>2, <3>1, ReturnSound
  <2>3. CASE Become(h, [req[h] EXCEPT !.step = "cancel.write", !.balance = funded])
    <3> DEFINE r == [req[h] EXCEPT !.step = "cancel.write", !.balance = funded]
    <3>1. r \in Requests /\ r.step = "cancel.write"
      <4>1. req[h] \in Requests /\ funded \in BOOLEAN
        BY RequestTyped DEF RequestInv, TypeOK
      <4> QED BY <4>1 DEF Requests, Steps
    <3>2. Become(h, r)
      BY <2>3
    <3> HIDE DEF r
    <3> QED BY <2>1, <3>1, <3>2, BecomeSound
  <2> QED BY <1>2, <2>2, <2>3 DEF RereadForCancel
<1>3. CASE WriteCancelled(h)
  <2> DEFINE r == [req[h] EXCEPT !.step = "cancel.book"]
  <2>1. r \in Requests /\ r.step = "cancel.book"
    BY DEF RequestInv, TypeOK, Requests, Steps
  <2>2. req' = [req EXCEPT ![h] = r]
    BY <1>3 DEF WriteCancelled, GoTo, RequestInv, TypeOK
  <2>3. escrow' \in EscrowRows
    BY <1>3 DEF WriteCancelled, RequestInv, TypeOK, EscrowRows, EscrowStatuses
  <2>4. UNCHANGED <<gateway, refundRow, payoutRow, transfers, funded>>
    BY <1>3 DEF WriteCancelled
  <2> HIDE DEF r
  <2>5. TypeOK'
    BY <2>1, <2>2, <2>3, <2>4 DEF RequestInv, TypeOK
  <2>6. EventInv' /\ RefundInv'
    BY <2>1, <2>2, <2>4 DEF RequestInv, TypeOK, EventInv, RefundInv, At, Captured, Committable
  <2> QED BY <2>5, <2>6 DEF RequestInv
<1> QED BY <1>1, <1>2, <1>3

\* The payout endpoints: whatever they do to the escrow, the payout row and the
\* transfers, the request they continue with is no event and no refund.
LEMMA PayoutSound ==
  ASSUME RequestInv, NEW h \in Handlers,
         \/ ClaimForPayout(h) \/ TransferToBank(h)
         \/ RollbackClaim(h) \/ RecordPayout(h) \/ CommitTaskPayout(h)
  PROVE  RequestInv'
<1>1. /\ escrow' \in EscrowRows
      /\ payoutRow' \in {"none", "processing", "completed"}
      /\ transfers' \in Nat
      /\ funded' \in BOOLEAN
      /\ gateway' = gateway /\ refundRow' = refundRow
  <2>1. \A status \in {"held", "released"} :
          [escrow EXCEPT !.status = status] \in EscrowRows
    BY DEF RequestInv, TypeOK, EscrowRows, EscrowStatuses
  <2>2. CASE ClaimForPayout(h) \/ RollbackClaim(h) \/ CommitTaskPayout(h)
    <3>1. escrow' \in EscrowRows
      BY <2>1, <2>2 DEF ClaimForPayout, RollbackClaim, CommitTaskPayout,
                        RequestInv, TypeOK
    <3>2. /\ payoutRow' \in {payoutRow, "processing"}
          /\ gateway' = gateway /\ refundRow' = refundRow
          /\ transfers' = transfers /\ funded' = funded
      BY <2>2 DEF ClaimForPayout, RollbackClaim, CommitTaskPayout
    <3>3. payoutRow' \in {"none", "processing", "completed"}
      BY <3>2 DEF RequestInv, TypeOK
    <3>4. transfers' \in Nat /\ funded' \in BOOLEAN
      BY <3>2 DEF RequestInv, TypeOK
    <3> QED BY <3>1, <3>2, <3>3, <3>4
  <2>3. CASE TransferToBank(h) \/ RecordPayout(h)
    <3>1. /\ payoutRow' \in {payoutRow, "completed"}
          /\ transfers' \in {transfers, transfers + 1}
          /\ escrow' = escrow /\ gateway' = gateway /\ refundRow' = refundRow
      BY <2>3 DEF TransferToBank, RecordPayout
    <3>2. funded' = funded \/ funded' = FALSE
      BY <2>3 DEF TransferToBank, RecordPayout
    <3>3. funded' \in BOOLEAN
      BY <3>2 DEF RequestInv, TypeOK
    <3>4. /\ payoutRow' \in {"none", "processing", "completed"}
          /\ transfers' \in Nat
          /\ escrow' \in EscrowRows
      BY <3>1 DEF RequestInv, TypeOK
    <3> QED BY <3>1, <3>3, <3>4
  <2> QED BY <2>2, <2>3
<1>2. CASE Return(h)
  <2>1. TypeOK'
    BY <1>1, <1>2, IdleTyped DEF RequestInv, TypeOK, Return, Become
  <2> QED BY <1>1, <1>2, <2>1, ReturnSound
<1>3. ASSUME NEW step \in {"payout.transfer", "payout.rollback", "payout.record"},
             GoTo(h, step)
      PROVE  RequestInv'
  <2> DEFINE r == [req[h] EXCEPT !.step = step]
  <2>1. r \in Requests /\ r.step = step
    BY DEF RequestInv, TypeOK, Requests, Steps
  <2>2. req' = [req EXCEPT ![h] = r]
    BY <1>3 DEF GoTo, RequestInv, TypeOK
  <2> HIDE DEF r
  <2>3. TypeOK'
    BY <1>1, <2>1, <2>2 DEF RequestInv, TypeOK
  <2>4. EventInv' /\ RefundInv'
    BY <1>1, <2>1, <2>2 DEF RequestInv, TypeOK, EventInv, RefundInv, At, Captured, Committable
  <2> QED BY <2>3, <2>4 DEF RequestInv
<1> QED BY <1>2, <1>3 DEF ClaimForPayout, TransferToBank, RollbackClaim,
                          RecordPayout, CommitTaskPayout

LEMMA BeginPayoutSound ==
  ASSUME RequestInv, NEW h \in Handlers, BeginPayout(h) \/ BeginTaskPayout(h)
  PROVE  RequestInv'
<1>1. PICK step \in {"payout.claim", "task.claim"} :
        Become(h, [Idle EXCEPT !.step = step])
  BY DEF BeginPayout, BeginTaskPayout
<1> DEFINE r == [Idle EXCEPT !.step = step]
<1>2. r \in Requests /\ r.step = step
  BY IdleTyped DEF Requests, Steps, Idle
<1>3. UNCHANGED <<escrow, gateway, refundRow, payoutRow, transfers, funded>>
  BY DEF BeginPayout, BeginTaskPayout
<1>4. Become(h, r)
  BY <1>1
<1> HIDE DEF r
<1> QED BY <1>2, <1>3, <1>4, BecomeSound

LEMMA ReadBalanceSound ==
  ASSUME RequestInv, NEW h \in Handlers, ReadBalanceForFailure(h)
  PROVE  RequestInv'
<1> DEFINE r == [req[h] EXCEPT !.step = "fail.book", !.balance = funded]
<1>1. r \in Requests /\ r.step = "fail.book"
  <2>1. req[h] \in Requests /\ funded \in BOOLEAN
    BY RequestTyped DEF RequestInv, TypeOK
  <2> QED BY <2>1 DEF Requests, Steps
<1>2. /\ Become(h, r)
      /\ UNCHANGED <<escrow, gateway, refundRow, payoutRow, transfers, funded>>
  BY DEF ReadBalanceForFailure
<1> HIDE DEF r
<1> QED BY <1>1, <1>2, BecomeSound

LEMMA CrashSound ==
  ASSUME RequestInv, NEW h \in Handlers, Crash(h)
  PROVE  RequestInv'
<1>1. /\ Return(h)
      /\ UNCHANGED <<escrow, gateway, refundRow, payoutRow, transfers, funded>>
  BY DEF Crash
<1>2. TypeOK'
  BY <1>1, IdleTyped DEF RequestInv, TypeOK, Return, Become
<1> QED BY <1>1, <1>2, ReturnSound

LEMMA RequestInvStep == RequestInv /\ [Next]_vars => RequestInv'
<1> SUFFICES ASSUME RequestInv, [Next]_vars PROVE RequestInv'
  OBVIOUS
<1>1. CASE External
  BY <1>1, ExternalSound
<1>2. CASE OpsSettlePayout
  BY <1>2 DEF OpsSettlePayout, RequestInv, TypeOK, EventInv, RefundInv, At, Captured, Committable
<1>3. ASSUME NEW h \in Handlers, Receive(h) PROVE RequestInv'
  <2>1. CASE \E p \in Payments, event \in PaymentEvents : ReceivePaymentEvent(h, p, event)
    BY <2>1, ReceiveEventSound
  <2>2. CASE \E p \in Payments : BeginRefund(h, p)
    BY <2>2, RefundReadsSound
  <2>3. CASE BeginCancel(h)
    BY <2>3, CancelSound
  <2>4. CASE BeginPayout(h) \/ BeginTaskPayout(h)
    BY <2>4, BeginPayoutSound
  <2> QED BY <1>3, <2>1, <2>2, <2>3, <2>4 DEF Receive
<1>4. ASSUME NEW h \in Handlers, Continue(h) PROVE RequestInv'
  <2>1. CASE ApplyPaymentEvent(h)
    BY <2>1, ApplyEventSound
  <2>2. CASE BookCapture(h) \/ BookFailure(h) \/ BookCancellation(h)
    BY <2>2, BookSound
  <2>3. CASE ReadBalanceForFailure(h)
    BY <2>3, ReadBalanceSound
  <2>4. CASE CheckEscrowForRefund(h) \/ QuoteRefund(h)
    BY <2>4, RefundReadsSound
  <2>5. CASE CallGatewayRefund(h)
    BY <2>5, CallRefundSound
  <2>6. CASE CommitRefund(h)
    BY <2>6, CommitRefundSound
  <2>7. CASE RereadForCancel(h) \/ WriteCancelled(h)
    BY <2>7, CancelSound
  <2>8. CASE \/ ClaimForPayout(h) \/ TransferToBank(h) \/ RollbackClaim(h)
             \/ RecordPayout(h) \/ CommitTaskPayout(h)
    BY <2>8, PayoutSound
  <2> QED BY <1>4, <2>1, <2>2, <2>3, <2>4, <2>5, <2>6, <2>7, <2>8 DEF Continue
<1>5. ASSUME NEW h \in Handlers, Crash(h) PROVE RequestInv'
  BY <1>5, CrashSound
<1>6. CASE UNCHANGED vars
  BY <1>6 DEF vars, RequestInv, TypeOK, EventInv, RefundInv, At, Captured, Committable
<1> QED BY <1>1, <1>2, <1>3, <1>4, <1>5, <1>6 DEF Next

LEMMA RequestsSound == Spec => []RequestInv
BY InitRequestInv, RequestInvStep, PTL DEF Spec

-----------------------------------------------------------------------------
(* Type correctness, and captures are final                                *)

\* Every state the handlers reach together is well formed: no event of an
\* unknown payment, no quote above the capture, no row outside its columns.
THEOREM TypeCorrect == Spec => []TypeOK
BY RequestsSound, PTL DEF RequestInv

\* How a step may change the escrow row, by the handler that writes it.
LEMMA EscrowStep ==
  ASSUME RequestInv, [Next]_vars
  PROVE  \/ escrow' = escrow
         \/ \E h \in Handlers :
              \/ /\ ApplyPaymentEvent(h)
                 /\ SameState(escrow, req[h].seen)
                 /\ escrow' = PaymentUpdate(escrow, req[h].event, req[h].payment)
              \/ /\ At(h, "refund.commit") /\ CommitRefund(h)
                 /\ escrow' = [escrow EXCEPT !.status = "refunded",
                                             !.paymentId = req[h].payment]
              \/ At(h, "cancel.write") /\ escrow' = [escrow EXCEPT !.status = "cancelled"]
              \/ /\ ClaimForPayout(h) \/ CommitTaskPayout(h)
                 /\ escrow.status = "held"
                 /\ escrow' = [escrow EXCEPT !.status = "released"]
              \/ /\ RollbackClaim(h)
                 /\ escrow.status = "released"
                 /\ escrow' = [escrow EXCEPT !.status = "held"]
<1>1. CASE \E h \in Handlers :
             \/ ApplyPaymentEvent(h) \/ CommitRefund(h) \/ WriteCancelled(h)
             \/ ClaimForPayout(h) \/ CommitTaskPayout(h) \/ RollbackClaim(h)
  BY <1>1 DEF ApplyPaymentEvent, CommitRefund, WriteCancelled, ClaimForPayout,
              CommitTaskPayout, RollbackClaim
<1>2. CASE External
  BY <1>2 DEF External, GatewayAuthorizes, GatewayCaptures, GatewayFails, GatewayMoves
<1>3. CASE OpsSettlePayout
  BY <1>3 DEF OpsSettlePayout
<1>4. CASE \E h \in Handlers : Receive(h) \/ Crash(h)
  BY <1>4 DEF Receive, ReceivePaymentEvent, BeginRefund, BeginCancel, BeginPayout,
    BeginTaskPayout, Crash
<1>5. CASE \E h \in Handlers :
             \/ BookCapture(h) \/ ReadBalanceForFailure(h) \/ BookFailure(h)
             \/ CheckEscrowForRefund(h) \/ QuoteRefund(h) \/ CallGatewayRefund(h)
             \/ RereadForCancel(h) \/ BookCancellation(h)
             \/ TransferToBank(h) \/ RecordPayout(h)
  BY <1>5 DEF BookCapture, ReadBalanceForFailure, BookFailure, CheckEscrowForRefund,
    QuoteRefund, CallGatewayRefund, RereadForCancel, BookCancellation,
    TransferToBank, RecordPayout
<1>6. CASE UNCHANGED vars
  BY <1>6 DEF vars
<1> QED BY <1>1, <1>2, <1>3, <1>4, <1>5, <1>6 DEF Next, Continue

\* Only an event that passed its check against the row it read writes the
\* paymentStatus, and it writes only while that row is still there.
LEMMA CaptureFinalStep ==
  ASSUME RequestInv, [Next]_vars, escrow.paymentStatus = "captured"
  PROVE  escrow'.paymentStatus = "captured"
<1>1. ASSUME NEW h \in Handlers, ApplyPaymentEvent(h)
      PROVE  escrow'.paymentStatus = "captured"
  <2>1. CASE ~SameState(escrow, req[h].seen)
    BY <1>1, <2>1 DEF ApplyPaymentEvent
  <2>2. CASE SameState(escrow, req[h].seen)
    <3>1. /\ resolveEscrowPaymentTransition(req[h].seen, req[h].event, req[h].payment)
          /\ req[h].event \in PaymentEvents
      BY <1>1 DEF ApplyPaymentEvent, RequestInv, EventInv
    <3>2. req[h].event = "captured"
      BY <2>2, <3>1 DEF SameState, resolveEscrowPaymentTransition, Settled,
                        PaymentEvents
    <3>3. escrow' = PaymentUpdate(escrow, req[h].event, req[h].payment)
      BY <1>1, <2>2 DEF ApplyPaymentEvent
    <3> QED BY <3>2, <3>3 DEF PaymentUpdate, RequestInv, TypeOK, EscrowRows
  <2> QED BY <2>1, <2>2
<1>2. CASE ~\E h \in Handlers : ApplyPaymentEvent(h)
  <2>1. escrow \in EscrowRows
    BY DEF RequestInv, TypeOK
  <2> QED BY <1>2, <2>1, EscrowStep DEF EscrowRows
<1> QED BY <1>1, <1>2

\* A captured escrow never goes back to authorized or failed, whatever events
\* are repeated, delayed or reordered around it.
THEOREM CaptureFinal == Spec => CaptureIsFinal
<1>1. RequestInv /\ [Next]_vars
        => [escrow.paymentStatus = "captured" => escrow'.paymentStatus = "captured"]_vars
  BY CaptureFinalStep
<1> QED BY <1>1, RequestsSound, PTL DEF Spec, CaptureIsFinal

-----------------------------------------------------------------------------
(* One capture per order: who was paid and what is held                    *)

LEMMA OneCaptureStep ==
  ASSUME MaxCaptures <= 1, RequestInv, OneCapture, [Next]_vars
  PROVE  OneCapture'
<1>1. CASE \E p \in Payments : GatewayCaptures(p)
  <2>1. PICK p \in Payments : GatewayCaptures(p)
    BY <1>1
  <2>2. CapturedPayments \in SUBSET Payments /\ IsFiniteSet(CapturedPayments)
    <3>1. CapturedPayments \in SUBSET Payments
      BY DEF CapturedPayments
    <3> QED BY <3>1, FS_Subset, LifecycleAssumption
  <2>3. Cardinality(CapturedPayments) < 1 /\ Cardinality(CapturedPayments) \in Nat
    BY <2>1, <2>2, FS_CardinalityType, LifecycleAssumption DEF GatewayCaptures
  <2>4. CapturedPayments = {}
    BY <2>2, <2>3, FS_EmptySet
  <2>5. \A q \in Payments : ~Captured(q)
    BY <2>4 DEF CapturedPayments, Captured
  <2>6. \A q \in Payments : Captured(q)' => q = p
    BY <2>1, <2>5 DEF GatewayCaptures, GatewayMoves, Captured, RequestInv, TypeOK
  <2> QED BY <2>6 DEF OneCapture
<1>2. CASE ~\E p \in Payments : GatewayCaptures(p)
  <2>1. \A q \in Payments : Captured(q)' => Captured(q)
    <3>1. CASE External
      <4>1. PICK p \in Payments, to \in {"authorized", "failed"} :
              gateway' = [gateway EXCEPT ![p].state = to]
        BY <1>2, <3>1 DEF External, GatewayAuthorizes, GatewayFails, GatewayMoves
      <4> QED BY <4>1 DEF Captured, RequestInv, TypeOK
    <3>2. CASE \E h \in Handlers : CallGatewayRefund(h)
      BY <3>2, CallRefundGateway DEF Captured
    <3>3. CASE ~External /\ ~\E h \in Handlers : CallGatewayRefund(h)
      BY <3>3 DEF Captured, Next, vars, Receive, Continue, OpsSettlePayout, Crash,
        ReceivePaymentEvent, ApplyPaymentEvent, BookCapture,
        ReadBalanceForFailure, BookFailure, BeginRefund, CheckEscrowForRefund,
        QuoteRefund, CommitRefund, BeginCancel, RereadForCancel,
        WriteCancelled, BookCancellation, BeginPayout, ClaimForPayout,
        TransferToBank, RollbackClaim, RecordPayout, BeginTaskPayout,
        CommitTaskPayout
    <3> QED BY <3>1, <3>2, <3>3
  <2> QED BY <2>1 DEF OneCapture
<1> QED BY <1>1, <1>2

\* Razorpay never takes a capture back.
LEMMA CapturedStays ==
  ASSUME RequestInv, [Next]_vars, NEW q \in Payments, Captured(q)
  PROVE  gateway'[q].state = "captured"
<1>1. CASE External
  <2>1. PICK p \in Payments, to \in {"authorized", "captured", "failed"} :
          /\ gateway[p].state # "captured"
          /\ gateway' = [gateway EXCEPT ![p].state = to]
    BY <1>1 DEF External, GatewayAuthorizes, GatewayCaptures, GatewayFails, GatewayMoves
  <2> QED BY <2>1 DEF Captured, RequestInv, TypeOK
<1>2. CASE \E h \in Handlers : CallGatewayRefund(h)
  BY <1>2, CallRefundGateway DEF Captured
<1>3. CASE ~External /\ ~\E h \in Handlers : CallGatewayRefund(h)
  BY <1>3 DEF Captured, Next, vars, Receive, Continue, OpsSettlePayout, Crash,
    ReceivePaymentEvent, ApplyPaymentEvent, BookCapture,
    ReadBalanceForFailure, BookFailure, BeginRefund, CheckEscrowForRefund,
    QuoteRefund, CommitRefund, BeginCancel, RereadForCancel,
    WriteCancelled, BookCancellation, BeginPayout, ClaimForPayout,
    TransferToBank, RollbackClaim, RecordPayout, BeginTaskPayout,
    CommitTaskPayout
<1> QED BY <1>1, <1>2, <1>3

\* An event waits with the row it read, a claim is held and a cancellation is about
\* to be written only as long as the handler did not move on; each starts with the
\* action that names it, the last on a row that is not refunded.
Kept(g, r) ==
    /\ r.step = "event.apply" => r = req[g] \/ r.seen = escrow
    /\ r.step \in {"payout.transfer", "payout.rollback"} =>
         \/ r = req[g]
         \/ ClaimForPayout(g) /\ escrow.status = "held"
         \/ TransferToBank(g) /\ transfers' = transfers
    /\ r.step = "cancel.write" => r = req[g] \/ escrow.status # "refunded"

\* A step that continues with a request of another kind keeps both.
LEMMA OtherKept ==
  ASSUME RequestInv, [Next]_vars, NEW h \in Handlers, NEW r,
         req' = [req EXCEPT ![h] = r],
         Kept(h, r)
  PROVE  \A g \in Handlers : Kept(g, req'[g])
BY DEF RequestInv, TypeOK, Kept

LEMMA HandlerStep ==
  ASSUME RequestInv, NEW h \in Handlers, Receive(h) \/ Continue(h) \/ Crash(h)
  PROVE  \E r : req' = [req EXCEPT ![h] = r] /\ Kept(h, r)
<1> DEFINE Goal == \E r : req' = [req EXCEPT ![h] = r] /\ Kept(h, r)
           Tracked == {"event.apply", "payout.transfer", "payout.rollback", "cancel.write"}
<1>1. req \in [Handlers -> Requests]
  BY DEF RequestInv, TypeOK
<1>2. ASSUME NEW r, Become(h, r), Kept(h, r) PROVE Goal
  BY <1>2 DEF Become
<1>3. ASSUME NEW r, Become(h, r), r.step \notin Tracked PROVE Goal
  BY <1>3 DEF Become, Kept
<1>4. CASE Return(h)
  BY <1>3, <1>4 DEF Return, Idle
<1>5. ASSUME NEW owed \in BOOLEAN, RefundRejected(h, owed) PROVE Goal
  <2>1. PICK r \in Requests : /\ r.step \in {"cancel.reread", "idle"}
                              /\ req' = [req EXCEPT ![h] = r]
    BY <1>5, RejectedRequest
  <2> QED BY <1>3, <2>1 DEF Become
<1>6. ASSUME NEW step, GoTo(h, step), step \notin Tracked PROVE Goal
  <2> DEFINE r == [req[h] EXCEPT !.step = step]
  <2>1. Become(h, r) /\ r.step = step
    BY <1>1, <1>6 DEF GoTo, Become, Requests
  <2> HIDE DEF r
  <2> QED BY <1>3, <1>6, <2>1
<1>7. CASE Receive(h)
  <2>1. CASE \E p \in Payments, event \in PaymentEvents : ReceivePaymentEvent(h, p, event)
    <3>1. PICK p \in Payments, event \in PaymentEvents : ReceivePaymentEvent(h, p, event)
      BY <2>1
    <3> DEFINE r == [Idle EXCEPT !.step = "event.apply", !.event = event,
                                 !.payment = p, !.seen = escrow]
    <3>2. Become(h, r)
      BY <3>1 DEF ReceivePaymentEvent
    <3>3. r.step = "event.apply" /\ r.seen = escrow
      BY DEF Idle
    <3> HIDE DEF r
    <3>4. Kept(h, r)
      BY <3>3 DEF Kept
    <3> QED BY <1>2, <3>2, <3>4
  <2>2. CASE \E p \in Payments : BeginRefund(h, p)
    <3>1. PICK p \in Payments : BeginRefund(h, p)
      BY <2>2
    <3>2. [Idle EXCEPT !.step = "refund.check", !.payment = p].step = "refund.check"
      BY DEF Idle
    <3> QED BY <1>3, <3>1, <3>2 DEF BeginRefund
  <2>3. CASE BeginCancel(h)
    <3> DEFINE r == [Idle EXCEPT
             !.step = IF escrow.paymentId # NoPayment THEN "refund.check"
                                                      ELSE "cancel.reread",
             !.payment = escrow.paymentId,
             !.cancelling = TRUE]
    <3>1. Become(h, r)
      BY <2>3 DEF BeginCancel
    <3>2. r.step \in {"refund.check", "cancel.reread"}
      BY DEF Idle
    <3> HIDE DEF r
    <3> QED BY <1>3, <3>1, <3>2
  <2>4. CASE BeginPayout(h) \/ BeginTaskPayout(h)
    <3>1. PICK step \in {"payout.claim", "task.claim"} :
            Become(h, [Idle EXCEPT !.step = step])
      BY <2>4 DEF BeginPayout, BeginTaskPayout
    <3>2. [Idle EXCEPT !.step = step].step = step
      BY DEF Idle
    <3> QED BY <1>3, <3>1, <3>2
  <2> QED BY <1>7, <2>1, <2>2, <2>3, <2>4 DEF Receive
<1>8. CASE Continue(h)
  <2>1. CASE ApplyPaymentEvent(h) \/ CheckEscrowForRefund(h) \/ CallGatewayRefund(h)
    BY <1>4, <1>5, <1>6, <2>1
       DEF ApplyPaymentEvent, CheckEscrowForRefund, CallGatewayRefund
  <2>2. CASE QuoteRefund(h)
    <3>1. ASSUME NEW a \in Quotes(h, req[h].payment),
                 Become(h, [req[h] EXCEPT
                   !.step = IF a = 0 THEN "refund.commit" ELSE "refund.call",
                   !.amount = a])
          PROVE  Goal
      <4>1. [req[h] EXCEPT
               !.step = IF a = 0 THEN "refund.commit" ELSE "refund.call",
               !.amount = a].step \in {"refund.commit", "refund.call"}
        BY <1>1 DEF Requests
      <4> QED BY <1>3, <3>1, <4>1
    <3> QED BY <1>4, <1>5, <2>2, <3>1 DEF QuoteRefund
  <2>3. CASE \/ BookCapture(h) \/ BookFailure(h) \/ BookCancellation(h)
             \/ RecordPayout(h) \/ RollbackClaim(h) \/ CommitTaskPayout(h)
             \/ CommitRefund(h) \/ WriteCancelled(h)
    BY <1>4, <1>5, <1>6, <2>3
       DEF BookCapture, BookFailure, BookCancellation, RecordPayout,
           RollbackClaim, CommitTaskPayout, CommitRefund, WriteCancelled
  <2>4. CASE ReadBalanceForFailure(h)
    <3>1. [req[h] EXCEPT !.step = "fail.book", !.balance = funded].step = "fail.book"
      BY <1>1 DEF Requests
    <3> QED BY <1>3, <2>4, <3>1 DEF ReadBalanceForFailure
  <2>5. CASE RereadForCancel(h)
    <3> DEFINE r == [req[h] EXCEPT !.step = "cancel.write", !.balance = funded]
    <3>1. r.step = "cancel.write"
      BY <1>1 DEF Requests
    <3>2. Return(h) \/ (Become(h, r) /\ escrow.status # "refunded")
      BY <2>5 DEF RereadForCancel
    <3> HIDE DEF r
    <3>3. escrow.status # "refunded" => Kept(h, r)
      BY <3>1 DEF Kept
    <3> QED BY <1>2, <1>4, <3>2, <3>3
  <2>6. ASSUME NEW step \in {"payout.transfer", "payout.rollback"}, GoTo(h, step),
               Kept(h, [req[h] EXCEPT !.step = step])
        PROVE  Goal
    BY <1>1, <1>2, <2>6 DEF GoTo, Become
  <2>7. \A step : [req[h] EXCEPT !.step = step].step = step
    BY <1>1 DEF Requests
  <2>8. CASE ClaimForPayout(h)
    <3>1. escrow.status = "held" => Kept(h, [req[h] EXCEPT !.step = "payout.transfer"])
      BY <2>7, <2>8 DEF Kept
    <3> QED BY <1>4, <2>6, <2>8, <3>1 DEF ClaimForPayout
  <2>9. CASE TransferToBank(h)
    <3>1. transfers' = transfers => Kept(h, [req[h] EXCEPT !.step = "payout.rollback"])
      BY <2>7, <2>9 DEF Kept
    <3> QED BY <1>6, <2>6, <2>9, <3>1 DEF TransferToBank
  <2> QED BY <1>8, <2>1, <2>2, <2>3, <2>4, <2>5, <2>8, <2>9 DEF Continue
<1> QED BY <1>4, <1>7, <1>8 DEF Crash

LEMMA RequestStep ==
  ASSUME RequestInv, [Next]_vars, NEW g \in Handlers
  PROVE  Kept(g, req'[g])
<1>1. CASE req' = req
  BY <1>1 DEF Kept
<1>2. CASE \E h \in Handlers : Receive(h) \/ Continue(h) \/ Crash(h)
  BY <1>2, HandlerStep, OtherKept
<1>3. External \/ OpsSettlePayout \/ UNCHANGED vars => req' = req
  BY DEF External, GatewayAuthorizes, GatewayCaptures, GatewayFails,
         GatewayMoves, OpsSettlePayout, vars
<1> QED BY <1>1, <1>2, <1>3 DEF Next

\* A refund that stands: a late event, a payout claim and a claim handed back lose
\* against the row, and a cancellation reads it before it could write.
LEMMA RefundFinalStep ==
  ASSUME RequestInv, [Next]_vars, RefundStands
  PROVE  RefundStands'
<1>1. ASSUME NEW h \in Handlers, ApplyPaymentEvent(h),
             SameState(escrow, req[h].seen)
      PROVE  FALSE
  <2>1. resolveEscrowPaymentTransition(req[h].seen, req[h].event, req[h].payment)
    BY <1>1 DEF ApplyPaymentEvent, RequestInv, EventInv
  <2>2. req[h].seen.status = "refunded"
    BY <1>1 DEF SameState, RefundStands
  <2> QED BY <2>1, <2>2 DEF resolveEscrowPaymentTransition, Settled
<1>2. escrow \in EscrowRows
  BY DEF RequestInv, TypeOK
<1>3. escrow'.status = "refunded"
  BY <1>1, <1>2, EscrowStep DEF EscrowRows, RefundStands
<1>4. ASSUME NEW h \in Handlers PROVE ~At(h, "cancel.write")'
  BY RequestStep DEF Kept, At, RefundStands
<1> QED BY <1>3, <1>4 DEF RefundStands

\* A refunded escrow that no cancellation under way is about to overwrite stays
\* refunded for ever, whatever events, payouts and cancellations still arrive.
THEOREM RefundFinal ==
  Spec => RefundIsFinal /\ [](RefundStands => [](escrow.status = "refunded"))
<1>1. RequestInv /\ [Next]_vars => [RefundStands => RefundStands']_vars
  BY RefundFinalStep
<1>2. RequestInv /\ [Next]_vars => (RefundStands => RefundStands')
  <2>1. UNCHANGED vars => (RefundStands => RefundStands')
    BY DEF vars, RefundStands, At
  <2> QED BY <1>1, <2>1
<1>3. RefundStands => escrow.status = "refunded"
  BY DEF RefundStands
<1> QED BY <1>1, <1>2, <1>3, RequestsSound, PTL DEF Spec, RefundIsFinal

\* With one request at a time nothing is left to write over a refund.
RefundSeen == escrow.status = "refunded" => RefundStands

LEMMA RefundSeenStep ==
  ASSUME NEW h, Handlers = {h}, RequestInv, RefundSeen, [Next]_vars
  PROVE  RefundSeen'
<1>1. CASE escrow.status = "refunded"
  BY <1>1, RefundFinalStep DEF RefundSeen
<1>2. CASE escrow.status # "refunded"
  <2> SUFFICES ASSUME escrow'.status = "refunded" PROVE RefundStands'
    BY DEF RefundSeen
  <2>1. escrow \in EscrowRows /\ req \in [Handlers -> Requests]
    BY DEF RequestInv, TypeOK
  <2>2. ~ApplyPaymentEvent(h)
    BY <1>2, <2>1 DEF ApplyPaymentEvent, PaymentUpdate, EscrowRows
  <2>3. CommitRefund(h) /\ escrow' # escrow
    BY <1>2, <2>1, <2>2, EscrowStep DEF EscrowRows
  <2>4. Return(h)
    BY <2>3 DEF CommitRefund
  <2> QED BY <2>1, <2>4 DEF RefundStands, Return, Become, Idle, At
<1> QED BY <1>1, <1>2

\* With requests handled one after the other a refunded escrow is never held,
\* released or cancelled again.
THEOREM RefundFinalSequential ==
  ASSUME NEW h, Handlers = {h}
  PROVE  Spec => [](escrow.status = "refunded" => [](escrow.status = "refunded"))
<1>1. Init => RefundSeen
  BY DEF Init, RefundSeen, NewRow
<1>2. RequestInv /\ RefundSeen /\ [Next]_vars => RefundSeen'
  BY RefundSeenStep
<1>3. RefundSeen /\ escrow.status = "refunded" => RefundStands
  BY DEF RefundSeen
<1> QED BY <1>1, <1>2, <1>3, RefundFinal, RequestsSound, PTL DEF Spec

LEMMA SeenInvStep ==
  ASSUME RequestInv, PaidInv, SeenInv, [Next]_vars
  PROVE  SeenInv'
<1> SUFFICES ASSUME NEW h \in Handlers, At(h, "event.apply")',
                    (req[h].seen.paymentStatus)' = "captured"
             PROVE  (req[h].seen.paymentId \in Payments /\ Captured(req[h].seen.paymentId))'
  BY DEF SeenInv
<1> DEFINE p == req'[h].seen.paymentId
<1>1. req'[h] = req[h] \/ req'[h].seen = escrow
  BY RequestStep DEF Kept, At
<1>2. p \in Payments /\ Captured(p)
  BY <1>1 DEF SeenInv, PaidInv, At
<1>3. gateway'[p].state = "captured"
  BY <1>2, CapturedStays
<1> QED BY <1>2, <1>3 DEF Captured

\* Only a capture holds an escrow, only a held one is released, and a refund
\* names a captured payment.
LEMMA PaidInvStep ==
  ASSUME "earlySettlement" \notin Faults, RequestInv, PaidInv, [Next]_vars
  PROVE  PaidInv'
<1>1. escrow \in EscrowRows
  BY DEF RequestInv, TypeOK
<1>2. ASSUME NEW h \in Handlers, ApplyPaymentEvent(h),
             SameState(escrow, req[h].seen),
             escrow' = PaymentUpdate(escrow, req[h].event, req[h].payment)
      PROVE  PaidInv'
  <2> DEFINE r == req[h]
  <2>1. /\ r.payment \in Payments
        /\ r.event \in PaymentEvents
        /\ r.event = "captured" => Captured(r.payment)
        /\ resolveEscrowPaymentTransition(r.seen, r.event, r.payment)
    BY <1>2 DEF ApplyPaymentEvent, RequestInv, EventInv
  <2>2. /\ escrow'.paymentId = r.payment
        /\ escrow'.paymentStatus = r.event
    BY <1>1, <1>2 DEF PaymentUpdate, EscrowRows
  <2>3. CASE r.event = "captured"
    <3>1. gateway'[r.payment].state = "captured"
      BY <2>1, <2>3, CapturedStays
    <3> QED BY <2>1, <2>2, <2>3, <3>1 DEF PaidInv, Captured
  <2>4. CASE r.event # "captured"
    <3>1. escrow.status \notin {"held", "released"}
      BY <1>2, <2>1, <2>4 DEF resolveEscrowPaymentTransition, Settled, SameState,
                              PaymentEvents
    <3>2. escrow'.status \notin {"held", "released"}
      BY <1>1, <1>2, <2>4, <3>1 DEF PaymentUpdate, EscrowRows
    <3> QED BY <2>2, <2>4, <3>2 DEF PaidInv
  <2> QED BY <2>3, <2>4
<1>3. ASSUME NEW h \in Handlers, At(h, "refund.commit"),
             escrow' = [escrow EXCEPT !.status = "refunded",
                                      !.paymentId = req[h].payment]
      PROVE  PaidInv'
  <2>1. req[h].payment \in Payments /\ Captured(req[h].payment)
    BY <1>3 DEF RequestInv, RefundInv, At, Committable
  <2>2. gateway'[req[h].payment].state = "captured"
    BY <2>1, CapturedStays
  <2>3. escrow'.status = "refunded" /\ escrow'.paymentId = req[h].payment
    BY <1>1, <1>3 DEF EscrowRows
  <2> QED BY <2>1, <2>2, <2>3 DEF PaidInv, Captured
<1>4. ASSUME NEW status, escrow' = [escrow EXCEPT !.status = status],
             status \in {"held", "released"} => escrow.status \in {"held", "released"}
      PROVE  PaidInv'
  <2>1. /\ escrow'.status = status
        /\ escrow'.paymentStatus = escrow.paymentStatus
        /\ escrow'.paymentId = escrow.paymentId
    BY <1>1, <1>4 DEF EscrowRows
  <2>2. escrow.paymentStatus = "captured"
          => /\ escrow.paymentId \in Payments
                 /\ gateway'[escrow.paymentId].state = "captured"
    BY CapturedStays DEF PaidInv
  <2> QED BY <1>4, <2>1, <2>2 DEF PaidInv, Captured
<1>5. CASE escrow' = escrow
  BY <1>5, CapturedStays DEF PaidInv, Captured
<1> QED BY <1>2, <1>3, <1>4, <1>5, EscrowStep

\* An event still applies only to a row that is not captured: a second capture
\* would be by the payment that captured it, and that one is answered at once.
LEMMA AppliesToUncaptured ==
  ASSUME RequestInv, OneCapture, SeenInv, NEW h \in Handlers,
         ApplyPaymentEvent(h), SameState(escrow, req[h].seen)
  PROVE  escrow.paymentStatus # "captured"
<1> DEFINE r == req[h]
<1>1. /\ r.payment \in Payments
      /\ r.event \in PaymentEvents
      /\ resolveEscrowPaymentTransition(r.seen, r.event, r.payment)
      /\ ~CaptureAlreadyApplied(r.seen, r.event, r.payment)
      /\ r.event = "captured" => Captured(r.payment)
  BY DEF ApplyPaymentEvent, RequestInv, EventInv
<1>2. SUFFICES ASSUME r.seen.paymentStatus = "captured" PROVE FALSE
  BY DEF SameState
<1>3. r.event = "captured"
  BY <1>1, <1>2 DEF resolveEscrowPaymentTransition, Settled, PaymentEvents
<1>4. r.seen.paymentId \in Payments /\ Captured(r.seen.paymentId)
  BY <1>2 DEF SeenInv, ApplyPaymentEvent
<1>5. r.seen.paymentId = r.payment
  BY <1>1, <1>3, <1>4 DEF OneCapture
<1> QED BY <1>1, <1>2, <1>3, <1>5 DEF CaptureAlreadyApplied

\* Money to the performer moves in two actions only.
LEMMA PaidStep ==
  ASSUME RequestInv, [Next]_vars,
         ~\E h \in Handlers : TransferToBank(h) \/ CommitTaskPayout(h)
  PROVE  Paid' <= Paid
<1>1. transfers \in Nat /\ payoutRow \in {"none", "processing", "completed"}
  BY DEF RequestInv, TypeOK
<1>2. CASE OpsSettlePayout
  BY <1>1, <1>2 DEF OpsSettlePayout, Paid
<1>3. CASE \E h \in Handlers : RecordPayout(h)
  BY <1>1, <1>3 DEF RecordPayout, Paid
<1>4. CASE ~OpsSettlePayout /\ ~\E h \in Handlers : RecordPayout(h)
  <2>1. transfers' = transfers /\ payoutRow' = payoutRow
    BY <1>4 DEF Next, vars, External, Receive, Continue, GatewayAuthorizes,
      GatewayCaptures, GatewayFails, GatewayMoves, Crash,
      ReceivePaymentEvent, ApplyPaymentEvent, BookCapture,
      ReadBalanceForFailure, BookFailure, BeginRefund, CheckEscrowForRefund,
      QuoteRefund, CallGatewayRefund, CommitRefund, BeginCancel,
      RereadForCancel, WriteCancelled, BookCancellation, BeginPayout,
      ClaimForPayout, RollbackClaim, BeginTaskPayout
  <2> QED BY <1>1, <2>1 DEF Paid
<1> QED BY <1>2, <1>3, <1>4

\* The bank transfer ends its claim.
LEMMA TransferKeepsClaimInv ==
  ASSUME RequestInv, ClaimInv, NEW h \in Handlers, TransferToBank(h),
         GoTo(h, "payout.record"), transfers' = transfers + 1
  PROVE  ClaimInv'
<1>1. Claims(h)
  BY DEF TransferToBank, At, Claims
<1>2. /\ Paid = 0
      /\ escrow.paymentStatus = "captured" /\ escrow.status # "held"
      /\ \A g \in Handlers : Claims(g) => g = h
  BY <1>1 DEF ClaimInv
<1>3. \A g \in Handlers : ~Claims(g)'
  BY <1>2 DEF RequestInv, TypeOK, Requests, GoTo, Claims
<1>4. escrow' = escrow /\ Paid' = 1
  BY <1>2 DEF TransferToBank, Paid, RequestInv, TypeOK
<1> QED BY <1>2, <1>3, <1>4 DEF ClaimInv

\* A claim or a task payout starts from a held escrow that nobody was paid for.
LEMMA TakeKeepsClaimInv ==
  ASSUME RequestInv, PaidInv, ClaimInv, NEW h \in Handlers,
         ClaimForPayout(h) \/ CommitTaskPayout(h), escrow.status = "held"
  PROVE  ClaimInv'
<1>1. Paid = 0 /\ \A g \in Handlers : ~Claims(g)
  BY DEF ClaimInv
<1>2. /\ escrow' = [escrow EXCEPT !.status = "released"]
      /\ transfers' = transfers
  BY DEF ClaimForPayout, CommitTaskPayout
<1>3. escrow'.status = "released" /\ escrow'.paymentStatus = "captured"
  BY <1>2 DEF PaidInv, RequestInv, TypeOK, EscrowRows
<1>4. \A g \in Handlers \ {h} : ~Claims(g)'
  BY <1>1 DEF ClaimForPayout, CommitTaskPayout, GoTo, Return, Become, Claims,
              RequestInv, TypeOK
<1>5. CASE ClaimForPayout(h)
  <2>1. Paid' = 0
    BY <1>1, <1>5 DEF ClaimForPayout, Paid
  <2> QED BY <1>3, <1>4, <2>1 DEF ClaimInv
<1>6. CASE CommitTaskPayout(h)
  <2>1. Paid' = 1
    BY <1>1, <1>6 DEF CommitTaskPayout, Paid, RequestInv, TypeOK
  <2>2. ~Claims(h)'
    BY <1>6 DEF CommitTaskPayout, Return, Become, Idle, Claims, RequestInv, TypeOK
  <2> QED BY <1>3, <1>4, <2>1, <2>2 DEF ClaimInv
<1> QED BY <1>5, <1>6

LEMMA ClaimInvStep ==
  ASSUME IInv, [Next]_vars
  PROVE  ClaimInv'
<1> USE DEF IInv
<1>1. ASSUME NEW h \in Handlers, TransferToBank(h), transfers' # transfers
      PROVE  ClaimInv'
  BY <1>1, TransferKeepsClaimInv DEF TransferToBank
<1>2. ASSUME NEW h \in Handlers, ClaimForPayout(h) \/ CommitTaskPayout(h),
             escrow.status = "held"
      PROVE  ClaimInv'
  BY <1>2, TakeKeepsClaimInv
<1>3. ASSUME \A h \in Handlers : TransferToBank(h) => transfers' = transfers,
             \A h \in Handlers : ClaimForPayout(h) \/ CommitTaskPayout(h)
                                 => escrow.status # "held"
      PROVE  ClaimInv'
  <2>1. Paid' <= Paid /\ Paid' \in Nat /\ Paid \in Nat
    <3>1. Paid' \in Nat /\ Paid \in Nat
      BY RequestInvStep DEF RequestInv, TypeOK, Paid
    <3>2. CASE \E h \in Handlers : TransferToBank(h) \/ CommitTaskPayout(h)
      <4>1. transfers' = transfers /\ payoutRow' = payoutRow
        BY <1>3, <3>2 DEF TransferToBank, CommitTaskPayout
      <4> QED BY <3>1, <4>1 DEF Paid
    <3> QED BY <3>1, <3>2, PaidStep
  <2>2. \A g \in Handlers : Claims(g)' => Claims(g)
    <3>1. \A g \in Handlers : Kept(g, req'[g])
      BY RequestStep
    <3> QED BY <1>3, <3>1 DEF Kept, Claims, TransferToBank, At
  <2>3. ASSUME escrow'.paymentStatus # "captured" \/ escrow'.status = "held"
                 => escrow.paymentStatus # "captured" \/ escrow.status = "held"
        PROVE  ClaimInv'
    BY <2>1, <2>2, <2>3 DEF ClaimInv
  <2>4. ASSUME NEW h \in Handlers, ApplyPaymentEvent(h),
               SameState(escrow, req[h].seen)
        PROVE  ClaimInv'
    BY <2>3, <2>4, AppliesToUncaptured
  <2>5. ASSUME NEW h \in Handlers, RollbackClaim(h)
        PROVE  ClaimInv'
    <3>1. Claims(h)
      BY <2>5 DEF RollbackClaim, At, Claims
    <3>2. Paid = 0 /\ \A g \in Handlers : Claims(g) => g = h
      BY <3>1 DEF ClaimInv
    <3>3. ~Claims(h)'
      BY <2>5 DEF RollbackClaim, Return, Become, Idle, Claims, RequestInv, TypeOK
    <3> QED BY <2>1, <2>2, <3>2, <3>3 DEF ClaimInv
  <2>6. escrow \in EscrowRows
    BY DEF RequestInv, TypeOK
  <2> QED BY <1>3, <2>3, <2>4, <2>5, <2>6, EscrowStep DEF EscrowRows
<1> QED BY <1>1, <1>2, <1>3

LEMMA IInvInductive ==
  ASSUME MaxCaptures <= 1, "earlySettlement" \notin Faults
  PROVE  Spec => []IInv
<1>1. Init => IInv
  <2> SUFFICES ASSUME Init PROVE IInv
    OBVIOUS
  <2>1. RequestInv
    BY InitRequestInv
  <2>2. PaidInv /\ OneCapture /\ SeenInv
    BY DEF Init, NewRow, Idle, PaidInv, OneCapture, SeenInv, Captured, At
  <2>3. ClaimInv
    BY DEF Init, Idle, ClaimInv, Paid, Claims
  <2> QED BY <2>1, <2>2, <2>3 DEF IInv
<1>2. IInv /\ [Next]_vars => IInv'
  BY RequestInvStep, PaidInvStep, OneCaptureStep, SeenInvStep, ClaimInvStep DEF IInv
<1> QED BY <1>1, <1>2, PTL DEF Spec

\* A captured escrow has a payment to be paid from.
LEMMA CapturedFunds ==
  ASSUME IInv, escrow.paymentStatus = "captured"
  PROVE  Cardinality(CapturedPayments) \in Nat \ {0}
<1>1. CapturedPayments \subseteq Payments /\ escrow.paymentId \in CapturedPayments
  BY DEF IInv, PaidInv, CapturedPayments, Captured
<1>2. IsFiniteSet(CapturedPayments)
  BY <1>1, FS_Subset, LifecycleAssumption
<1> QED BY <1>1, <1>2, FS_CardinalityType, FS_EmptySet

\* The performer is paid at most once per captured payment, whichever of the
\* payout endpoints, retries, crashes and late events race.
THEOREM PaidOnce ==
  ASSUME MaxCaptures <= 1, "earlySettlement" \notin Faults
  PROVE  Spec => []PaidOutOnce
<1>1. IInv => PaidOutOnce
  <2> SUFFICES ASSUME IInv PROVE PaidOutOnce
    OBVIOUS
  <2>1. CapturedPayments \subseteq Payments
    BY DEF CapturedPayments
  <2>2. Cardinality(CapturedPayments) \in Nat
    BY <2>1, FS_Subset, FS_CardinalityType, LifecycleAssumption
  <2>3. Paid \in Nat /\ Paid <= 1
    BY DEF IInv, ClaimInv, RequestInv, TypeOK, Paid
  <2>4. Paid = 0 \/ escrow.paymentStatus = "captured"
    BY DEF IInv, ClaimInv
  <2>5. Paid <= Cardinality(CapturedPayments)
    BY <2>2, <2>3, <2>4, CapturedFunds
  <2> QED BY <2>5 DEF Paid, PaidOutOnce
<1> QED BY <1>1, IInvInductive, PTL

\* Whoever finds the escrow held finds its money still on the platform.
THEOREM HeldUnpaid ==
  ASSUME MaxCaptures <= 1, "earlySettlement" \notin Faults
  PROVE  Spec => []HeldIsUnpaid
<1>1. IInv => HeldIsUnpaid
  <2> SUFFICES ASSUME IInv, escrow.status = "held"
               PROVE  Paid < Cardinality(CapturedPayments)
    BY DEF HeldIsUnpaid, Paid
  <2>1. Paid = 0 /\ escrow.paymentStatus = "captured"
    BY DEF IInv, ClaimInv, PaidInv
  <2> QED BY <2>1, CapturedFunds
<1> QED BY <1>1, IInvInductive, PTL

-----------------------------------------------------------------------------
(* One request at a time: no more money leaves than came in                *)

Returned(p) == gateway[p].refunded > 0

\* What the one request in flight knows of the escrow and the performer's money.
Sequential(r, status, paid) ==
    /\ r.step \in {"payout.transfer", "payout.rollback"} => status = "released" /\ paid = 0
    /\ r.step \in {"refund.quote", "refund.call", "refund.commit"} =>
         status \notin {"released", "refunded"}
    /\ r.cancelling => status # "released" /\ r.step # "payout.claim"
    /\ r.step \in {"cancel.reread", "cancel.write"} => r.cancelling
    /\ r.step = "cancel.write" => status # "refunded"

\* The performer is paid once, from a captured payment, by an escrow that stays
\* released; a refund leaves the escrow refunded, or is about to.
MoneyInv(h) ==
    /\ \A p \in Payments : Returned(p) =>
         /\ Captured(p)
         /\ escrow.status = "refunded" \/ At(h, "refund.commit")
    /\ escrow.status \in {"held", "released"} => \E p \in Payments : Captured(p)
    /\ Paid <= 1
    /\ Paid > 0 => escrow.status = "released"

SolventInv(h) == RequestInv /\ MoneyInv(h) /\ Sequential(req[h], escrow.status, Paid)

\* Where the request of h goes, without starting a cancellation.
Moves(h, to) == req'[h].step \in to /\ (req'[h].cancelling => req[h].cancelling)

\* A request that is received cancels nothing, unless it is a cancellation.
LEMMA ReceivedFresh ==
  ASSUME req \in [Handlers -> Requests], NEW h \in Handlers, Receive(h), ~BeginCancel(h)
  PROVE  /\ req'[h].step \in {"event.apply", "refund.check", "payout.claim", "task.claim"}
         /\ ~req'[h].cancelling
<1>1. CASE \E p \in Payments, event \in PaymentEvents : ReceivePaymentEvent(h, p, event)
  BY <1>1 DEF ReceivePaymentEvent, Become, Idle
<1>2. CASE \E p \in Payments : BeginRefund(h, p)
  BY <1>2 DEF BeginRefund, Become, Idle
<1>3. CASE BeginPayout(h)
  BY <1>3 DEF BeginPayout, Become, Idle
<1>4. CASE BeginTaskPayout(h)
  BY <1>4 DEF BeginTaskPayout, Become, Idle
<1> QED BY <1>1, <1>2, <1>3, <1>4 DEF Receive

\* A returning request is idle and cancels nothing.
LEMMA MoveReturn ==
  ASSUME RequestInv, NEW h \in Handlers, Return(h)
  PROVE  Moves(h, {"idle"})
BY DEF RequestInv, TypeOK, Return, Become, Idle, Moves

\* A step of the request keeps what it was called for.
LEMMA MoveGoTo ==
  ASSUME RequestInv, NEW h \in Handlers, NEW step \in Steps, GoTo(h, step)
  PROVE  Moves(h, {step}) /\ req'[h].cancelling = req[h].cancelling
BY DEF RequestInv, TypeOK, Requests, GoTo, Moves

\* A failed refund ends the request, or goes back to the cancellation it serves.
LEMMA MoveRejected ==
  ASSUME RequestInv, NEW h \in Handlers, NEW owed \in BOOLEAN, RefundRejected(h, owed)
  PROVE  /\ Moves(h, {"idle", "cancel.reread"})
         /\ req'[h].step = "cancel.reread" => req'[h].cancelling
<1>1. CASE req[h].cancelling
  <2>1. req \in [Handlers -> Requests] /\ req[h] \in Requests
    BY RequestTyped
  <2>2. req' = [req EXCEPT ![h] = [req[h] EXCEPT !.step = "cancel.reread", !.owed = owed,
                                                 !.amount = 0]]
    BY <1>1 DEF RefundRejected, Become
  <2>3. req'[h] = [req[h] EXCEPT !.step = "cancel.reread", !.owed = owed, !.amount = 0]
    BY <2>1, <2>2
  <2>4. req'[h].step = "cancel.reread"
    BY <2>1, <2>3 DEF Requests
  <2>5. req'[h].cancelling
    BY <1>1, <2>1, <2>3 DEF Requests
  <2> QED BY <1>1, <2>4, <2>5 DEF Moves
<1>2. CASE ~req[h].cancelling
  <2>1. Return(h)
    BY <1>2 DEF RefundRejected
  <2> QED BY <2>1, MoveReturn DEF Moves
<1> QED BY <1>1, <1>2

\* What the performer was paid, or is being paid, is a count.
LEMMA PaidTyped == ASSUME RequestInv PROVE Paid \in Nat
BY DEF RequestInv, TypeOK, Paid

\* So it is after a step.
LEMMA PaidTypedNext == ASSUME RequestInv' PROVE Paid' \in Nat
<1>1. PICK made \in Nat : made = transfers'
  BY DEF RequestInv, TypeOK
<1>2. PICK due \in Nat : due = IF payoutRow' = "processing" THEN 1 ELSE 0
  OBVIOUS
<1>3. Paid' = made + due
  BY <1>1, <1>2 DEF Paid
<1>4. made + due \in Nat
  OBVIOUS
<1> QED BY <1>3, <1>4, Zenon

\* A step that moves no money out and leaves the escrow's status alone.
LEMMA QuietSolvent ==
  ASSUME NEW h \in Handlers, SolventInv(h), RequestInv',
         escrow'.status = escrow.status, Paid' <= Paid,
         \A p \in Payments : /\ gateway'[p].refunded = gateway[p].refunded
                             /\ Captured(p) => gateway'[p].state = "captured",
         At(h, "refund.commit") => req'[h].step = "refund.commit",
         Sequential(req'[h], escrow.status, Paid)
  PROVE  SolventInv(h)'
<1>1. Paid \in Nat /\ Paid' \in Nat
  <2>1. Paid \in Nat
    BY PaidTyped DEF SolventInv
  <2>2. Paid' \in Nat
    BY PaidTypedNext
  <2> QED BY <2>1, <2>2
<1>2. MoneyInv(h)'
  BY <1>1 DEF SolventInv, MoneyInv, Returned, Captured, At
<1>3. Sequential(req'[h], escrow'.status, Paid')
  BY <1>1 DEF Sequential
<1> QED BY <1>2, <1>3 DEF SolventInv

\* Razorpay's own moves only add captured money, and operations settling a
\* payout only names it differently.
LEMMA ExternalSolvent ==
  ASSUME NEW h \in Handlers, SolventInv(h), RequestInv', External \/ OpsSettlePayout
  PROVE  SolventInv(h)'
<1>1. CASE External
  <2>1. PICK p \in Payments, to \in {"authorized", "captured", "failed"} :
          /\ gateway[p].state # "captured"
          /\ gateway' = [gateway EXCEPT ![p].state = to]
          /\ UNCHANGED <<escrow, refundRow, payoutRow, transfers, funded, req>>
    BY <1>1 DEF External, GatewayAuthorizes, GatewayCaptures, GatewayFails, GatewayMoves
  <2>2. \A q \in Payments : /\ gateway'[q].refunded = gateway[q].refunded
                            /\ Captured(q) => gateway'[q].state = "captured"
    BY <2>1 DEF SolventInv, RequestInv, TypeOK, Captured
  <2>3. Paid' = Paid
    BY <2>1 DEF Paid
  <2>4. Paid \in Nat
    BY PaidTyped DEF SolventInv
  <2> QED BY <2>1, <2>2, <2>3, <2>4, QuietSolvent DEF SolventInv, At
<1>2. CASE OpsSettlePayout
  <2>1. Paid' = Paid
    BY <1>2 DEF OpsSettlePayout, Paid, SolventInv, RequestInv, TypeOK
  <2>2. Paid \in Nat
    BY PaidTyped DEF SolventInv
  <2> QED BY <1>2, <2>1, <2>2, QuietSolvent DEF OpsSettlePayout, SolventInv, At, Captured
<1> QED BY <1>1, <1>2

\* The steps that only move the request.
LEMMA ReadsSolvent ==
  ASSUME NEW h \in Handlers, SolventInv(h), RequestInv',
         \/ Receive(h)
         \/ BookCapture(h) \/ ReadBalanceForFailure(h) \/ BookFailure(h)
         \/ CheckEscrowForRefund(h) \/ QuoteRefund(h) \/ RereadForCancel(h)
         \/ BookCancellation(h)
  PROVE  SolventInv(h)'
<1>1. RequestInv /\ req \in [Handlers -> Requests] /\ req[h] \in Requests
      /\ Sequential(req[h], escrow.status, Paid)
  BY DEF SolventInv, RequestInv, TypeOK
<1>2. UNCHANGED <<escrow, gateway, payoutRow, transfers>>
  BY DEF Receive, ReceivePaymentEvent, BeginRefund, BeginCancel, BeginPayout,
     BeginTaskPayout, BookCapture, ReadBalanceForFailure, BookFailure,
     CheckEscrowForRefund, QuoteRefund, RereadForCancel, BookCancellation
<1>3. ~At(h, "refund.commit")
  BY DEF Receive, ReceivePaymentEvent, BeginRefund, BeginCancel, BeginPayout,
     BeginTaskPayout, BookCapture, ReadBalanceForFailure, BookFailure,
     CheckEscrowForRefund, QuoteRefund, RereadForCancel, BookCancellation, Begin, At
<1>4. ASSUME Return(h) PROVE Sequential(req'[h], escrow.status, Paid)
  BY <1>4 DEF RequestInv, TypeOK, Return, Become, Idle, Sequential, SolventInv
<1>5. ASSUME NEW owed \in BOOLEAN, RefundRejected(h, owed) PROVE Sequential(req'[h], escrow.status, Paid)
  <2>1. /\ req'[h].step \in {"idle", "cancel.reread"}
        /\ req'[h].cancelling => req[h].cancelling
        /\ req'[h].step = "cancel.reread" => req'[h].cancelling
    BY <1>1, <1>5, MoveRejected DEF Moves
  <2> QED BY <1>1, <2>1 DEF Sequential
<1> SUFFICES Sequential(req'[h], escrow.status, Paid)
  <2>1. Paid' = Paid /\ Paid \in Nat
    BY <1>1, <1>2, PaidTyped DEF Paid
  <2> QED BY <1>2, <1>3, <2>1, QuietSolvent DEF Captured
<1>6. CASE Receive(h)
  <2>1. CASE BeginCancel(h)
    <3>1. /\ req'[h].step \in {"refund.check", "cancel.reread"} /\ req'[h].cancelling
          /\ escrow.status # "released"
      BY <1>1, <2>1 DEF BeginCancel, Become, Idle
    <3> QED BY <3>1 DEF Sequential
  <2>2. CASE ~BeginCancel(h)
    <3>1. /\ req'[h].step \in {"event.apply", "refund.check", "payout.claim", "task.claim"}
          /\ ~req'[h].cancelling
      BY <1>1, <1>6, <2>2, ReceivedFresh
    <3> QED BY <3>1 DEF Sequential
  <2> QED BY <2>1, <2>2
<1>7. CASE BookCapture(h) \/ BookFailure(h) \/ BookCancellation(h)
  BY <1>4, <1>7 DEF BookCapture, BookFailure, BookCancellation
<1>8. CASE ReadBalanceForFailure(h)
  <2>1. req'[h].step = "fail.book" /\ req'[h].cancelling = req[h].cancelling
    BY <1>1, <1>8 DEF ReadBalanceForFailure, Become, Requests
  <2> QED BY <1>1, <2>1 DEF Sequential
<1>9. CASE CheckEscrowForRefund(h)
  <2>1. CASE escrow.status \in {"refunded", "released"}
    BY <1>5, <1>9, <2>1 DEF CheckEscrowForRefund
  <2>2. CASE escrow.status \notin {"refunded", "released"}
    <3>1. GoTo(h, "refund.quote")
      BY <1>9, <2>2 DEF CheckEscrowForRefund
    <3>2. req'[h].step = "refund.quote" /\ req'[h].cancelling = req[h].cancelling
      BY <1>1, <3>1 DEF GoTo, Requests
    <3> QED BY <2>2, <3>2 DEF Sequential
  <2> QED BY <2>1, <2>2
<1>10. CASE QuoteRefund(h)
  <2>1. ASSUME NEW a \in Quotes(h, req[h].payment),
               Become(h, [req[h] EXCEPT
                 !.step = IF a = 0 THEN "refund.commit" ELSE "refund.call",
                 !.amount = a])
        PROVE  Sequential(req'[h], escrow.status, Paid)
    <3>1. /\ req'[h].step \in {"refund.commit", "refund.call"}
          /\ req'[h].cancelling = req[h].cancelling
      BY <1>1, <2>1 DEF Become, Requests
    <3>2. req[h].step = "refund.quote"
      BY <1>10 DEF QuoteRefund, At
    <3> QED BY <1>1, <3>1, <3>2 DEF Sequential
  <2> QED BY <1>4, <1>5, <1>10, <2>1 DEF QuoteRefund
<1>11. CASE RereadForCancel(h)
  <2>1. CASE Become(h, [req[h] EXCEPT !.step = "cancel.write", !.balance = funded])
             /\ escrow.status # "refunded"
    <3>1. req'[h].step = "cancel.write" /\ req'[h].cancelling = req[h].cancelling
      BY <1>1, <2>1 DEF Become, Requests
    <3>2. req[h].step = "cancel.reread"
      BY <1>11 DEF RereadForCancel, At
    <3> QED BY <1>1, <2>1, <3>1, <3>2 DEF Sequential
  <2> QED BY <1>4, <1>11, <2>1 DEF RereadForCancel
<1> QED BY <1>6, <1>7, <1>8, <1>9, <1>10, <1>11

\* A payment event applies only to an escrow that neither pays nor refunds.
LEMMA EventSolvent ==
  ASSUME NEW h \in Handlers, SolventInv(h), RequestInv', ApplyPaymentEvent(h)
  PROVE  SolventInv(h)'
<1>1. RequestInv /\ escrow \in EscrowRows /\ req[h].step = "event.apply"
      /\ Sequential(req[h], escrow.status, Paid) /\ req[h] \in Requests
  BY DEF SolventInv, RequestInv, TypeOK, ApplyPaymentEvent, At
<1>2. UNCHANGED <<gateway, payoutRow, transfers>>
  BY DEF ApplyPaymentEvent
<1>3. Paid' = Paid /\ Paid \in Nat
  BY <1>1, <1>2, PaidTyped DEF Paid
<1>4. /\ req'[h].step \in {"idle", "event.book", "fail.balance"}
      /\ req'[h].cancelling => req[h].cancelling
  <2>1. CASE Return(h)
    BY <1>1, <2>1, MoveReturn DEF Moves
  <2>2. CASE ~Return(h)
    <3>1. PICK step \in {"event.book", "fail.balance"} : GoTo(h, step)
      BY <2>2 DEF ApplyPaymentEvent
    <3> QED BY <1>1, <3>1, MoveGoTo DEF Moves, Steps
  <2> QED BY <2>1, <2>2
<1>5. CASE UNCHANGED escrow
  <2>1. Sequential(req'[h], escrow.status, Paid)
    BY <1>1, <1>4 DEF Sequential
  <2> QED BY <1>1, <1>2, <1>3, <1>5, <2>1, QuietSolvent DEF At, Captured
<1>6. CASE /\ SameState(escrow, req[h].seen)
           /\ escrow' = PaymentUpdate(escrow, req[h].event, req[h].payment)
  <2>1. /\ req[h].payment \in Payments
        /\ req[h].event \in PaymentEvents
        /\ resolveEscrowPaymentTransition(req[h].seen, req[h].event, req[h].payment)
        /\ req[h].event = "captured" => Captured(req[h].payment)
    BY DEF SolventInv, RequestInv, EventInv, ApplyPaymentEvent
  <2>2. escrow.status \notin {"released", "refunded"}
    BY <1>6, <2>1 DEF resolveEscrowPaymentTransition, Settled, SameState, PaymentEvents
  <2>3. /\ escrow'.status # "released"
        /\ escrow'.status = "held" => escrow.status = "held" \/ req[h].event = "captured"
    BY <1>1, <1>6, <2>1, <2>2 DEF PaymentUpdate, EscrowRows, PaymentEvents
  <2>4. Paid = 0 /\ \A p \in Payments : ~Returned(p)
    BY <1>1, <1>3, <2>2 DEF SolventInv, MoneyInv, At
  <2>5. MoneyInv(h)'
    <3>1. escrow'.status = "held" => \E p \in Payments : Captured(p)
      BY <2>1, <2>3 DEF SolventInv, MoneyInv
    <3> QED BY <1>2, <1>3, <2>3, <2>4, <3>1 DEF MoneyInv, Returned, Captured
  <2>6. Sequential(req'[h], escrow'.status, Paid')
    BY <1>4, <2>3 DEF Sequential
  <2> QED BY <2>5, <2>6 DEF SolventInv
<1> QED BY <1>5, <1>6 DEF ApplyPaymentEvent

\* Razorpay refunds an escrow that has not been paid out, and as long as its
\* answer is not lost the refund is committed next.
LEMMA RefundSolvent ==
  ASSUME NEW h \in Handlers, SolventInv(h), RequestInv',
         "lostReply" \notin Faults, "dbError" \notin Faults,
         CallGatewayRefund(h) \/ CommitRefund(h)
  PROVE  SolventInv(h)'
<1>1. RequestInv /\ escrow \in EscrowRows /\ req[h] \in Requests
      /\ Sequential(req[h], escrow.status, Paid) /\ MoneyInv(h)
  BY DEF SolventInv, RequestInv, TypeOK
<1>2. UNCHANGED <<payoutRow, transfers>>
  BY DEF CallGatewayRefund, CommitRefund
<1>3. Paid' = Paid /\ Paid \in Nat
  BY <1>1, <1>2, PaidTyped DEF Paid
<1>4. escrow.status # "released"
  BY <1>1 DEF Sequential, CallGatewayRefund, CommitRefund, At
<1>5. Paid = 0
  BY <1>1, <1>3, <1>4 DEF MoneyInv
<1>6. CASE CallGatewayRefund(h)
  <2>1. UNCHANGED escrow /\ req[h].step = "refund.call"
    BY <1>6 DEF CallGatewayRefund, At
  <2>2. CASE RefundRejected(h, TRUE) /\ UNCHANGED gateway
    <3>1. /\ req'[h].step \in {"idle", "cancel.reread"}
          /\ req'[h].cancelling => req[h].cancelling
          /\ req'[h].step = "cancel.reread" => req'[h].cancelling
      BY <1>1, <2>2, MoveRejected DEF Moves
    <3>2. Sequential(req'[h], escrow.status, Paid)
      BY <1>1, <2>1, <3>1 DEF Sequential
    <3> QED BY <1>3, <2>1, <2>2, <3>2, QuietSolvent DEF At, Captured
  <2>3. CASE /\ req[h].amount <= Refundable(req[h].payment)
             /\ gateway' = [gateway EXCEPT ![req[h].payment].refunded = @ + req[h].amount]
             /\ GoTo(h, "refund.commit")
    <3>1. req'[h].step = "refund.commit" /\ req'[h].cancelling = req[h].cancelling
      BY <1>1, <2>3, MoveGoTo DEF Moves, Steps
    <3>2. req[h].payment \in Payments /\ req[h].amount > 0
      BY <1>1, <2>1 DEF RequestInv, RefundInv
    <3>3. Captured(req[h].payment)
      BY <1>1, <2>3, <3>2 DEF Refundable, Captured, RequestInv, TypeOK, Requests
    <3>4. \A p \in Payments :
            /\ gateway'[p].state = gateway[p].state
            /\ p # req[h].payment => gateway'[p].refunded = gateway[p].refunded
      BY <1>1, <2>3, <3>2 DEF RequestInv, TypeOK
    <3>5. MoneyInv(h)'
      <4>1. \A p \in Payments : gateway'[p].refunded > 0 => gateway'[p].state = "captured"
        BY <1>1, <3>3, <3>4 DEF MoneyInv, Returned, Captured
      <4>2. At(h, "refund.commit")'
        BY <3>1 DEF At
      <4> QED BY <1>1, <1>3, <2>1, <3>4, <4>1, <4>2 DEF MoneyInv, Returned, Captured
    <3>6. Sequential(req'[h], escrow'.status, Paid')
      BY <1>1, <1>4, <2>1, <3>1 DEF Sequential
    <3> QED BY <3>5, <3>6 DEF SolventInv
  <2> QED BY <1>6, <2>2, <2>3 DEF CallGatewayRefund
<1>7. CASE CommitRefund(h)
  <2>1. /\ escrow' = [escrow EXCEPT !.status = "refunded", !.paymentId = req[h].payment]
        /\ Return(h) /\ UNCHANGED gateway
    BY <1>7 DEF CommitRefund
  <2>2. escrow'.status = "refunded"
    BY <1>1, <2>1 DEF EscrowRows
  <2>3. MoneyInv(h)'
    BY <1>1, <1>3, <1>5, <2>1, <2>2 DEF MoneyInv, Returned, Captured
  <2>4. req'[h].step = "idle" /\ (req'[h].cancelling => req[h].cancelling)
    BY <1>1, <2>1, MoveReturn DEF Moves
  <2>5. Sequential(req'[h], escrow'.status, Paid')
    BY <2>2, <2>4 DEF Sequential
  <2> QED BY <2>3, <2>5 DEF SolventInv
<1> QED BY <1>6, <1>7

\* A cancellation takes an escrow that is neither released nor refunded.
LEMMA CancelSolvent ==
  ASSUME NEW h \in Handlers, SolventInv(h), RequestInv', WriteCancelled(h)
  PROVE  SolventInv(h)'
<1>1. RequestInv /\ escrow \in EscrowRows /\ req[h].step = "cancel.write"
      /\ Sequential(req[h], escrow.status, Paid) /\ MoneyInv(h) /\ Paid \in Nat
  BY PaidTyped DEF SolventInv, RequestInv, TypeOK, WriteCancelled, At
<1>2. escrow.status \notin {"released", "refunded"}
  BY <1>1 DEF Sequential
<1>3. Paid = 0 /\ \A p \in Payments : ~Returned(p)
  BY <1>1, <1>2 DEF MoneyInv, At
<1>4. escrow'.status = "cancelled" /\ Paid' = Paid /\ UNCHANGED gateway
  BY <1>1 DEF WriteCancelled, EscrowRows, Paid
<1>5. req'[h].step = "cancel.book"
  BY <1>1, MoveGoTo DEF WriteCancelled, Moves, Steps
<1>6. MoneyInv(h)'
  BY <1>3, <1>4 DEF MoneyInv, Returned
<1>7. Sequential(req'[h], escrow'.status, Paid')
  BY <1>4, <1>5 DEF Sequential
<1> QED BY <1>6, <1>7 DEF SolventInv

\* A payout takes a held escrow, which nobody was paid or refunded for.
LEMMA ClaimSolvent ==
  ASSUME NEW h \in Handlers, SolventInv(h), RequestInv',
         ClaimForPayout(h) \/ CommitTaskPayout(h)
  PROVE  SolventInv(h)'
<1>1. RequestInv /\ escrow \in EscrowRows /\ req[h].step \in {"payout.claim", "task.claim"}
      /\ Sequential(req[h], escrow.status, Paid) /\ MoneyInv(h) /\ Paid \in Nat
  BY PaidTyped DEF SolventInv, RequestInv, TypeOK, ClaimForPayout, CommitTaskPayout, At
<1>2. UNCHANGED gateway /\ UNCHANGED transfers
  BY DEF ClaimForPayout, CommitTaskPayout
<1>3. CASE escrow.status # "held"
  <2>1. Return(h) /\ UNCHANGED <<escrow, payoutRow>>
    BY <1>3 DEF ClaimForPayout, CommitTaskPayout
  <2>2. req'[h].step = "idle" /\ (req'[h].cancelling => req[h].cancelling)
    BY <1>1, <2>1, MoveReturn DEF Moves
  <2>3. Sequential(req'[h], escrow.status, Paid)
    BY <1>1, <2>2 DEF Sequential
  <2>4. Paid' = Paid
    BY <1>2, <2>1 DEF Paid
  <2> QED BY <1>1, <1>2, <2>1, <2>3, <2>4, QuietSolvent DEF At, Captured
<1>4. CASE escrow.status = "held"
  <2>1. Paid = 0 /\ (\A p \in Payments : ~Returned(p)) /\ \E p \in Payments : Captured(p)
    BY <1>1, <1>4 DEF MoneyInv, At
  <2>2. escrow'.status = "released"
    BY <1>1, <1>4 DEF ClaimForPayout, CommitTaskPayout, EscrowRows
  <2>3. CASE ClaimForPayout(h)
    <3>1. req'[h].step = "payout.transfer" /\ req'[h].cancelling = req[h].cancelling
      BY <1>1, <1>4, <2>3, MoveGoTo DEF ClaimForPayout, Moves, Steps
    <3>2. ~req[h].cancelling
      BY <1>1, <2>3 DEF Sequential, ClaimForPayout, At
    <3>3. Paid' = 0
      BY <2>1, <2>3 DEF ClaimForPayout, Paid
    <3>4. MoneyInv(h)'
      BY <1>2, <2>1, <2>2, <3>3 DEF MoneyInv, Returned, Captured
    <3>5. Sequential(req'[h], escrow'.status, Paid')
      BY <2>2, <3>1, <3>2, <3>3 DEF Sequential
    <3> QED BY <3>4, <3>5 DEF SolventInv
  <2>4. CASE CommitTaskPayout(h)
    <3>1. Return(h) /\ payoutRow' = "processing"
      BY <1>4, <2>4 DEF CommitTaskPayout
    <3>2. req'[h].step = "idle" /\ ~req'[h].cancelling
      BY <1>1, <3>1 DEF RequestInv, TypeOK, Return, Become, Idle
    <3>3. Paid' = 1
      BY <1>1, <1>2, <2>1, <3>1 DEF Paid, RequestInv, TypeOK
    <3>4. MoneyInv(h)'
      BY <1>2, <2>1, <2>2, <3>3 DEF MoneyInv, Returned, Captured
    <3>5. Sequential(req'[h], escrow'.status, Paid')
      BY <3>2 DEF Sequential
    <3> QED BY <3>4, <3>5 DEF SolventInv
  <2> QED BY <2>3, <2>4
<1> QED BY <1>3, <1>4

\* The bank transfer, its record and its rollback.
LEMMA TransferSolvent ==
  ASSUME NEW h \in Handlers, SolventInv(h), RequestInv', "dbError" \notin Faults,
         TransferToBank(h) \/ RecordPayout(h) \/ RollbackClaim(h)
  PROVE  SolventInv(h)'
<1>1. RequestInv /\ escrow \in EscrowRows /\ req[h] \in Requests
      /\ req[h].step \in {"payout.transfer", "payout.record", "payout.rollback"}
      /\ Sequential(req[h], escrow.status, Paid) /\ MoneyInv(h) /\ Paid \in Nat
  BY PaidTyped
     DEF SolventInv, RequestInv, TypeOK, TransferToBank, RecordPayout, RollbackClaim, At
<1>2. UNCHANGED gateway
  BY DEF TransferToBank, RecordPayout, RollbackClaim
<1>3. CASE TransferToBank(h)
  <2>1. /\ UNCHANGED <<escrow, payoutRow>> /\ escrow.status = "released" /\ Paid = 0
        /\ ~req[h].cancelling
    BY <1>1, <1>3 DEF TransferToBank, At, Sequential
  <2>2. CASE transfers' = transfers + 1 /\ GoTo(h, "payout.record")
    <3>1. req'[h].step = "payout.record" /\ req'[h].cancelling = req[h].cancelling
      BY <1>1, <2>2, MoveGoTo DEF Moves, Steps
    <3>2. Paid' = 1
      BY <1>1, <2>1, <2>2 DEF Paid, RequestInv, TypeOK
    <3>3. MoneyInv(h)'
      BY <1>1, <1>2, <2>1, <3>2 DEF MoneyInv, Returned, Captured, At
    <3>4. Sequential(req'[h], escrow'.status, Paid')
      BY <2>1, <3>1 DEF Sequential
    <3> QED BY <3>3, <3>4 DEF SolventInv
  <2>3. CASE GoTo(h, "payout.rollback") /\ UNCHANGED transfers
    <3>1. req'[h].step = "payout.rollback" /\ req'[h].cancelling = req[h].cancelling
      BY <1>1, <2>3, MoveGoTo DEF Moves, Steps
    <3>2. Paid' = Paid
      BY <2>1, <2>3 DEF Paid
    <3>3. Sequential(req'[h], escrow.status, Paid)
      BY <2>1, <3>1 DEF Sequential
    <3> QED BY <1>1, <1>2, <2>1, <3>2, <3>3, QuietSolvent DEF At, Captured
  <2> QED BY <1>3, <2>2, <2>3 DEF TransferToBank
<1>4. CASE RecordPayout(h)
  <2>1. Return(h) /\ UNCHANGED escrow
    BY <1>4 DEF RecordPayout
  <2>2. Paid' <= Paid
    BY <1>1, <1>4 DEF RecordPayout, Paid, RequestInv, TypeOK
  <2>3. req'[h].step = "idle" /\ (req'[h].cancelling => req[h].cancelling)
    BY <1>1, <2>1, MoveReturn DEF Moves
  <2>4. Sequential(req'[h], escrow.status, Paid)
    BY <1>1, <2>3 DEF Sequential
  <2> QED BY <1>1, <1>2, <2>1, <2>2, <2>4, QuietSolvent DEF At, Captured
<1>5. CASE RollbackClaim(h)
  <2>1. escrow.status = "released" /\ Paid = 0
    BY <1>1, <1>5 DEF RollbackClaim, At, Sequential
  <2>2. escrow'.status = "held" /\ Return(h) /\ Paid' = 0
    BY <1>1, <1>5, <2>1 DEF RollbackClaim, EscrowRows, Paid
  <2>3. \A p \in Payments : ~Returned(p)
    BY <1>1, <1>5, <2>1 DEF MoneyInv, RollbackClaim, At
  <2>4. MoneyInv(h)'
    BY <1>1, <1>2, <2>1, <2>2, <2>3 DEF MoneyInv, Returned, Captured
  <2>5. req'[h].step = "idle"
    BY <1>1, <2>2, MoveReturn DEF Moves
  <2>6. Sequential(req'[h], escrow'.status, Paid')
    BY <2>2, <2>5 DEF Sequential
  <2> QED BY <2>4, <2>6 DEF SolventInv
<1> QED BY <1>3, <1>4, <1>5

\* Every step keeps the escrow solvent while requests come one at a time.
LEMMA SolventStep ==
  ASSUME NEW h \in Handlers, Handlers = {h},
         "crash" \notin Faults, "lostReply" \notin Faults, "dbError" \notin Faults,
         SolventInv(h), [Next]_vars
  PROVE  SolventInv(h)'
<1>1. RequestInv'
  BY RequestInvStep DEF SolventInv
<1>2. CASE UNCHANGED vars
  BY <1>2 DEF vars, SolventInv, RequestInv, TypeOK, EventInv, RefundInv, MoneyInv,
     Returned, Captured, Committable, At, Paid
<1>3. CASE Next
  <2>1. External \/ OpsSettlePayout \/ Receive(h) \/ Continue(h)
    BY <1>3 DEF Next, Crash
  <2> QED BY <1>1, <2>1, ExternalSolvent, ReadsSolvent, EventSolvent, RefundSolvent,
     CancelSolvent, ClaimSolvent, TransferSolvent DEF Continue
<1> QED BY <1>2, <1>3

\* At first no money has moved.
LEMMA SolventInit ==
  ASSUME NEW h \in Handlers, Init
  PROVE  SolventInv(h)
<1>1. RequestInv
  BY InitRequestInv
<1>2. /\ \A p \in Payments : ~Returned(p)
      /\ escrow.status = "pending" /\ Paid = 0
      /\ req[h].step = "idle" /\ ~req[h].cancelling
  BY DEF Init, Returned, NewRow, Paid, Idle
<1> QED BY <1>1, <1>2 DEF SolventInv, MoneyInv, Sequential

\* What was refunded in all, as the sum of what was refunded of each payment.
Refunds == [p \in Payments |-> gateway[p].refunded]

\* The fold Solvent uses is that sum.
LEMMA RefundedSum ==
  MapThenSumSet(LAMBDA p : gateway[p].refunded, Payments) = SumOver(Refunds, Payments)
<1> DEFINE
      Body(iter) == [s \in SUBSET Payments |->
                       IF s = {} THEN 0
                       ELSE gateway[CHOOSE x \in s : TRUE].refunded
                              + iter[s \ {CHOOSE x \in s : TRUE}]]
      fold == CHOOSE iter : iter = Body(iter)
<1>1. MapThenSumSet(LAMBDA p : gateway[p].refunded, Payments) = fold[Payments]
  BY DEF MapThenSumSet, MapThenFoldSet
<1>2. \A g : g = Body(g) <=> Sums(g, Refunds, Payments)
  <2> SUFFICES ASSUME NEW g
               PROVE  Body(g) = [s \in SUBSET Payments |-> IF s = {} THEN 0
                            ELSE Refunds[Pick(s)] + g[s \ {Pick(s)}]]
    BY DEF Sums
  <2> SUFFICES ASSUME NEW s \in SUBSET Payments, s # {}
               PROVE  gateway[CHOOSE x \in s : TRUE].refunded = Refunds[Pick(s)]
    BY DEF Pick
  <2> QED BY PickIn DEF Pick, Refunds
<1>3. fold = Body(fold)
  <2>1. \E g : g = Body(g)
    <3>1. PICK g : Sums(g, Refunds, Payments)
      BY SumsExist, LifecycleAssumption
    <3> HIDE DEF Body
    <3> QED BY <1>2, <3>1
  <2> HIDE DEF Body
  <2> QED BY <2>1
<1> HIDE DEF fold, Body
<1>4. Sums(fold, Refunds, Payments)
  BY <1>2, <1>3
<1> QED BY <1>1, <1>4, SumsGive, LifecycleAssumption

\* In such a state no more left than came in: an escrow that paid out refunded
\* nothing, and one that did not refunds each payment at most once over.
LEMMA SolventFollows ==
  ASSUME NEW h \in Handlers, SolventInv(h)
  PROVE  Solvent
<1>1. RequestInv /\ MoneyInv(h) /\ Paid \in Nat /\ transfers \in Nat
      /\ transfers <= Paid
  BY PaidTyped DEF SolventInv, RequestInv, TypeOK, Paid
<1>2. \A p \in Payments : /\ Refunds[p] = gateway[p].refunded
                         /\ Refunds[p] \in Int /\ 0 <= Refunds[p] /\ Refunds[p] <= Amount
  <2> SUFFICES ASSUME NEW p \in Payments
               PROVE  /\ Refunds[p] = gateway[p].refunded
                      /\ Refunds[p] \in Int /\ 0 <= Refunds[p] /\ Refunds[p] <= Amount
    OBVIOUS
  <2>1. gateway[p].refunded \in 0..Amount
    BY <1>1 DEF RequestInv, TypeOK
  <2>2. Refunds[p] = gateway[p].refunded
    BY DEF Refunds
  <2>3. \A n \in 0..Amount : n \in Int /\ 0 <= n /\ n <= Amount
    BY LifecycleAssumption
  <2> QED BY <2>1, <2>2, <2>3, Zenon
<1>3. IsFiniteSet(CapturedPayments) /\ CapturedPayments \subseteq Payments
      /\ Cardinality(CapturedPayments) \in Nat
  <2>1. CapturedPayments \in SUBSET Payments
    BY DEF CapturedPayments
  <2> QED BY <2>1, FS_Subset, FS_CardinalityType, LifecycleAssumption
<1>4. SumOver(Refunds, Payments) \in Int
  BY <1>2, SumInt, LifecycleAssumption
<1>5. transfers * Amount + SumOver(Refunds, Payments)
        <= Amount * Cardinality(CapturedPayments)
  <2>1. CASE Paid > 0
    <3>1. transfers \in {0, 1} /\ escrow.status = "released"
      BY <1>1, <2>1 DEF MoneyInv
    <3>2. ~At(h, "refund.commit")
      BY <3>1 DEF SolventInv, Sequential, At
    <3>3. \A p \in Payments : Refunds[p] <= 0
      <4>1. \A p \in Payments : ~(gateway[p].refunded > 0)
        BY <1>1, <3>1, <3>2 DEF MoneyInv, Returned
      <4>2. \A p \in Payments : ~(Refunds[p] > 0)
        BY <1>2, <4>1, Zenon
      <4>3. \A n \in Int : ~(n > 0) => n <= 0
        OBVIOUS
      <4> QED BY <1>2, <4>2, <4>3, Zenon
    <3>4. SumOver(Refunds, Payments) <= 0
      <4>1. \A p \in Payments : Refunds[p] \in Int
        BY <1>2
      <4> DEFINE none == {}
      <4>2. none \subseteq Payments /\ Cardinality(none) = 0 /\ 0 \in Nat
        BY FS_EmptySet
      <4> HIDE DEF none
      <4>3. SumOver(Refunds, Payments) <= 0 * Cardinality(none)
        BY <3>3, <4>1, <4>2, SumBounded, LifecycleAssumption
      <4> QED BY <1>4, <4>2, <4>3
    <3>5. Cardinality(CapturedPayments) >= 1
      <4>1. CapturedPayments # {}
        BY <1>1, <3>1 DEF MoneyInv, Captured, CapturedPayments
      <4> QED BY <1>3, <4>1, FS_EmptySet
    <3>6. Amount * Cardinality(CapturedPayments) >= Amount
      BY <1>3, <3>5, LifecycleAssumption
    <3>7. transfers * Amount <= Amount
      BY <3>1, LifecycleAssumption
    <3> QED BY <1>3, <1>4, <3>1, <3>4, <3>6, <3>7, LifecycleAssumption
  <2>2. CASE Paid = 0
    <3>1. transfers = 0
      BY <1>1, <2>2
    <3>2. \A p \in Payments : /\ Refunds[p] \in Int
                              /\ p \in CapturedPayments => Refunds[p] <= Amount
                              /\ p \notin CapturedPayments => Refunds[p] <= 0
      <4>1. \A p \in Payments : gateway[p].refunded > 0 => p \in CapturedPayments
        BY <1>1 DEF MoneyInv, Returned, Captured, CapturedPayments
      <4>2. \A p \in Payments : Refunds[p] > 0 => p \in CapturedPayments
        BY <1>2, <4>1, Zenon
      <4>3. \A n \in Int : ~(n > 0) => n <= 0
        OBVIOUS
      <4> QED BY <1>2, <4>2, <4>3, Zenon
    <3>3. SumOver(Refunds, Payments) <= Amount * Cardinality(CapturedPayments)
      BY <1>3, <3>2, SumBounded, LifecycleAssumption
    <3> QED BY <1>4, <3>1, <3>3, LifecycleAssumption
  <2> QED BY <1>1, <2>1, <2>2
<1> QED BY <1>5, RefundedSum DEF Solvent

\* Solvent, for any payments, amount and number of captures of the order: as
\* long as requests about an escrow come one at a time, no process dies, no
\* answer is lost and no write fails between a transfer of money and its
\* record, the transfers to the performer and Razorpay's refunds together never
\* exceed what Razorpay captured.  Requests that overlap, and retries of a refund
\* whose record was lost, are where the code can pay out twice.
THEOREM SolventSequential ==
  ASSUME NEW h, Handlers = {h},
         "crash" \notin Faults, "lostReply" \notin Faults, "dbError" \notin Faults
  PROVE  Spec => []Solvent
<1>1. h \in Handlers
  OBVIOUS
<1>2. Init => SolventInv(h)
  BY <1>1, SolventInit
<1>3. SolventInv(h) /\ [Next]_vars => SolventInv(h)'
  BY <1>1, SolventStep
<1>4. SolventInv(h) => Solvent
  BY <1>1, SolventFollows
<1> QED BY <1>2, <1>3, <1>4, PTL DEF Spec

\* A refund of one payment at a time: Razorpay is called for an escrow that is
\* neither refunded nor released, so nothing was returned before.
LEMMA RefundDueStep ==
  ASSUME NEW h, Handlers = {h}, SolventInv(h), [Next]_vars,
         NEW p \in Payments, gateway'[p].refunded > gateway[p].refunded
  PROVE  gateway[p].refunded = 0 /\ escrow.status # "released"
<1>1. CallGatewayRefund(h)
  <2>1. ASSUME External PROVE FALSE
    BY <2>1 DEF External, GatewayAuthorizes, GatewayCaptures, GatewayFails, GatewayMoves,
       SolventInv, RequestInv, TypeOK
  <2>2. UNCHANGED gateway \/ CallGatewayRefund(h)
    BY <2>1 DEF Next, vars, Receive, Continue, OpsSettlePayout, Crash,
       ReceivePaymentEvent, ApplyPaymentEvent, BookCapture, ReadBalanceForFailure,
       BookFailure, BeginRefund, CheckEscrowForRefund, QuoteRefund,
       CommitRefund, BeginCancel, RereadForCancel, WriteCancelled,
       BookCancellation, BeginPayout, ClaimForPayout, TransferToBank,
       RollbackClaim, RecordPayout, BeginTaskPayout, CommitTaskPayout
  <2>3. gateway[p].refunded \in Nat
    BY DEF SolventInv, RequestInv, TypeOK
  <2> QED BY <2>2, <2>3
<1>2. At(h, "refund.call")
  BY <1>1 DEF CallGatewayRefund
<1>3. escrow.status \notin {"released", "refunded"}
  BY <1>2 DEF SolventInv, Sequential, At
<1>4. ~Returned(p)
  BY <1>2, <1>3 DEF SolventInv, MoneyInv, At
<1>5. gateway[p].refunded \in Nat
  BY DEF SolventInv, RequestInv, TypeOK
<1> QED BY <1>3, <1>4, <1>5 DEF Returned

\* Razorpay is asked for one refund of a payment, and for none once a payout
\* claimed the escrow: processRefund decides from the escrow row and the Refund
\* rows, which tell the truth as long as requests come one at a time and no
\* record of a refund is lost.
THEOREM RefundDue ==
  ASSUME NEW h, Handlers = {h},
         "crash" \notin Faults, "lostReply" \notin Faults, "dbError" \notin Faults
  PROVE  Spec => RefundIsDue
<1>1. h \in Handlers
  OBVIOUS
<1>2. Init => SolventInv(h)
  BY <1>1, SolventInit
<1>3. SolventInv(h) /\ [Next]_vars => SolventInv(h)'
  BY <1>1, SolventStep
<1>4. SolventInv(h) /\ [Next]_vars =>
        [\A p \in Payments : gateway'[p].refunded > gateway[p].refunded
                               => gateway[p].refunded = 0]_vars
  BY RefundDueStep
<1>5. SolventInv(h) /\ [Next]_vars =>
        [(\E p \in Payments : gateway'[p].refunded > gateway[p].refunded)
           => escrow.status # "released"]_vars
  BY RefundDueStep
<1> QED BY <1>2, <1>3, <1>4, <1>5, PTL DEF Spec, RefundIsDue, RefundedOnce, NoRefundAfterRelease

-----------------------------------------------------------------------------
(* A cancellation returns the customer's money                             *)

CancelSteps == {"refund.check", "refund.quote", "refund.call", "refund.commit",
                "cancel.reread", "cancel.write", "cancel.book"}

\* A cancellation works on the payment the escrow names, and before it writes it
\* saw that no captured money is owed.
Cancels(r, row) ==
    /\ r.step \in {"cancel.reread", "cancel.write"} => r.cancelling
    /\ r.cancelling => /\ r.step \in CancelSteps
                       /\ r.step # "cancel.book" => r.payment = row.paymentId
    /\ r.step = "cancel.write" /\ r.owed => ~holdsCapturedPayment(row)

CancelInv(h) == RequestInv /\ Cancels(req[h], escrow)

\* A request that ended cancels nothing.
LEMMA ReturnCancels ==
  ASSUME NEW h \in Handlers, CancelInv(h), Return(h), NEW row
  PROVE  Cancels(req'[h], row)
BY DEF CancelInv, RequestInv, TypeOK, Return, Become, Idle, Cancels

\* A failed refund goes back to the cancellation it serves.
LEMMA RejectedCancels ==
  ASSUME NEW h \in Handlers, CancelInv(h), NEW owed \in BOOLEAN, RefundRejected(h, owed),
         At(h, "refund.check") \/ At(h, "refund.quote") \/ At(h, "refund.call")
           \/ At(h, "refund.commit")
  PROVE  Cancels(req'[h], escrow)
<1>1. CASE req[h].cancelling
  <2>1. req' = [req EXCEPT ![h] = [req[h] EXCEPT !.step = "cancel.reread", !.owed = owed,
                                                 !.amount = 0]]
    BY <1>1 DEF RefundRejected, Become
  <2>2. req \in [Handlers -> Requests] /\ req[h] \in Requests
    BY DEF CancelInv, RequestInv, TypeOK
  <2>3. req'[h].step = "cancel.reread" /\ req'[h].payment = req[h].payment
    BY <2>1, <2>2 DEF Requests
  <2>4. req'[h].cancelling
    BY <1>1, <2>1, <2>2 DEF Requests
  <2>5. req[h].payment = escrow.paymentId
    BY <1>1 DEF CancelInv, Cancels, At
  <2> QED BY <2>3, <2>4, <2>5 DEF Cancels, CancelSteps
<1>2. CASE ~req[h].cancelling
  <2>1. Return(h)
    BY <1>2 DEF RefundRejected
  <2> QED BY <2>1, ReturnCancels
<1> QED BY <1>1, <1>2

\* A new request cancels nothing, unless it is a cancellation.
LEMMA ReceiveCancels ==
  ASSUME NEW h \in Handlers, CancelInv(h), Receive(h)
  PROVE  Cancels(req'[h], escrow')
<1>1. req \in [Handlers -> Requests]
  BY DEF CancelInv, RequestInv, TypeOK
<1>2. CASE BeginCancel(h)
  <2>1. /\ req'[h].step \in {"refund.check", "cancel.reread"} /\ req'[h].cancelling
        /\ req'[h].payment = escrow.paymentId /\ UNCHANGED escrow
    BY <1>1, <1>2 DEF BeginCancel, Become, Idle
  <2> QED BY <2>1 DEF Cancels, CancelSteps
<1>3. CASE ~BeginCancel(h)
  <2>1. /\ req'[h].step \in {"event.apply", "refund.check", "payout.claim", "task.claim"}
        /\ ~req'[h].cancelling
    BY <1>1, <1>3, ReceivedFresh
  <2> QED BY <2>1 DEF Cancels
<1> QED BY <1>2, <1>3

\* A step of the request that keeps the escrow and what it was called for.
LEMMA KeptCancels ==
  ASSUME NEW h \in Handlers, CancelInv(h), req[h].step \in Steps,
         req'[h].cancelling = req[h].cancelling, req'[h].payment = req[h].payment,
         req[h].step # "cancel.book",
         req'[h].step \notin {"cancel.reread", "cancel.write"},
         req[h].cancelling => req'[h].step \in CancelSteps
  PROVE  Cancels(req'[h], escrow)
BY DEF CancelInv, Cancels

\* The refund a cancellation asks for.
LEMMA RefundCancels ==
  ASSUME NEW h \in Handlers, CancelInv(h),
         CheckEscrowForRefund(h) \/ QuoteRefund(h) \/ CallGatewayRefund(h) \/ CommitRefund(h)
  PROVE  Cancels(req'[h], escrow')
<1>1. req \in [Handlers -> Requests] /\ req[h] \in Requests
  BY DEF CancelInv, RequestInv, TypeOK
<1>2. CASE Return(h)
  BY <1>2, ReturnCancels
<1>3. CASE UNCHANGED escrow /\ \E owed \in BOOLEAN : RefundRejected(h, owed)
  BY <1>3, RejectedCancels
     DEF CheckEscrowForRefund, QuoteRefund, CallGatewayRefund, CommitRefund
<1>4. CASE UNCHANGED escrow /\ \E step \in {"refund.quote", "refund.commit"} : GoTo(h, step)
  <2>1. /\ req'[h].step \in {"refund.quote", "refund.commit"}
        /\ req'[h].cancelling = req[h].cancelling /\ req'[h].payment = req[h].payment
    BY <1>1, <1>4 DEF GoTo, Requests
  <2>2. req[h].step # "cancel.book" /\ req[h].step \in Steps
    BY <1>1 DEF CheckEscrowForRefund, QuoteRefund, CallGatewayRefund, CommitRefund, At, Requests
  <2> QED BY <1>4, <2>1, <2>2, KeptCancels DEF CancelSteps
<1>5. CASE QuoteRefund(h)
  <2>1. ASSUME NEW a \in Quotes(h, req[h].payment),
               Become(h, [req[h] EXCEPT
                 !.step = IF a = 0 THEN "refund.commit" ELSE "refund.call",
                 !.amount = a])
        PROVE  Cancels(req'[h], escrow)
    <3>1. /\ req'[h].step \in {"refund.commit", "refund.call"}
          /\ req'[h].cancelling = req[h].cancelling /\ req'[h].payment = req[h].payment
      BY <1>1, <2>1 DEF Become, Requests
    <3>2. req[h].step # "cancel.book" /\ req[h].step \in Steps
      BY <1>1, <1>5 DEF QuoteRefund, At, Requests
    <3> QED BY <3>1, <3>2, KeptCancels DEF CancelSteps
  <2> QED BY <1>2, <1>3, <1>5, <2>1 DEF QuoteRefund
<1>6. CASE CheckEscrowForRefund(h)
  BY <1>3, <1>4, <1>6 DEF CheckEscrowForRefund
<1>7. CASE CallGatewayRefund(h)
  BY <1>3, <1>4, <1>7 DEF CallGatewayRefund
<1>8. CASE CommitRefund(h)
  BY <1>2, <1>3, <1>8 DEF CommitRefund
<1> QED BY <1>5, <1>6, <1>7, <1>8

\* The rest of a cancellation.
LEMMA CancelCancels ==
  ASSUME NEW h \in Handlers, CancelInv(h),
         RereadForCancel(h) \/ WriteCancelled(h) \/ BookCancellation(h)
  PROVE  Cancels(req'[h], escrow')
<1>1. req \in [Handlers -> Requests] /\ req[h] \in Requests
  BY DEF CancelInv, RequestInv, TypeOK
<1>2. CASE Return(h)
  BY <1>2, ReturnCancels
<1>3. CASE RereadForCancel(h) /\ ~Return(h)
  <2>1. /\ ~(req[h].owed /\ holdsCapturedPayment(escrow)) /\ UNCHANGED escrow
        /\ Become(h, [req[h] EXCEPT !.step = "cancel.write", !.balance = funded])
        /\ req[h].step = "cancel.reread"
    BY <1>3 DEF RereadForCancel, At
  <2>2. /\ req'[h].step = "cancel.write" /\ req'[h].cancelling = req[h].cancelling
        /\ req'[h].payment = req[h].payment /\ req'[h].owed = req[h].owed
    BY <1>1, <2>1 DEF Become, Requests
  <2>3. req[h].cancelling /\ req[h].payment = escrow.paymentId
    BY <2>1 DEF CancelInv, Cancels
  <2> QED BY <2>1, <2>2, <2>3 DEF Cancels, CancelSteps
<1>4. CASE WriteCancelled(h)
  <2>1. req'[h].step = "cancel.book"
    BY <1>1, <1>4 DEF WriteCancelled, GoTo, Requests
  <2> QED BY <2>1 DEF Cancels, CancelSteps
<1>5. CASE BookCancellation(h)
  BY <1>2, <1>5 DEF BookCancellation
<1> QED BY <1>2, <1>3, <1>4, <1>5

\* Payment events and payouts are no part of a cancellation.
LEMMA OtherCancels ==
  ASSUME NEW h \in Handlers, CancelInv(h),
         \/ ApplyPaymentEvent(h) \/ BookCapture(h) \/ ReadBalanceForFailure(h) \/ BookFailure(h)
         \/ ClaimForPayout(h) \/ TransferToBank(h) \/ RollbackClaim(h) \/ RecordPayout(h)
         \/ CommitTaskPayout(h)
  PROVE  Cancels(req'[h], escrow')
<1>1. req \in [Handlers -> Requests] /\ req[h] \in Requests
  BY DEF CancelInv, RequestInv, TypeOK
<1>2. req[h].step \notin CancelSteps
  BY DEF ApplyPaymentEvent, BookCapture, ReadBalanceForFailure, BookFailure, ClaimForPayout,
     TransferToBank, RollbackClaim, RecordPayout, CommitTaskPayout, At, CancelSteps
<1>3. ~req[h].cancelling
  BY <1>2 DEF CancelInv, Cancels
<1>4. CASE Return(h)
  BY <1>4, ReturnCancels
<1>5. CASE \E step \in {"event.book", "fail.balance", "payout.transfer", "payout.record",
                        "payout.rollback"} : GoTo(h, step)
  <2>1. /\ req'[h].step \in {"event.book", "fail.balance", "payout.transfer", "payout.record",
                              "payout.rollback"}
        /\ req'[h].cancelling = req[h].cancelling
    BY <1>1, <1>5 DEF GoTo, Requests
  <2> QED BY <1>3, <2>1 DEF Cancels
<1>6. CASE ReadBalanceForFailure(h)
  <2>1. req'[h].step = "fail.book" /\ req'[h].cancelling = req[h].cancelling
    BY <1>1, <1>6 DEF ReadBalanceForFailure, Become, Requests
  <2> QED BY <1>3, <2>1 DEF Cancels
<1> QED BY <1>4, <1>5, <1>6 DEF ApplyPaymentEvent, BookCapture, BookFailure, ClaimForPayout,
     TransferToBank, RollbackClaim, RecordPayout, CommitTaskPayout

\* Every step keeps what a cancellation knows, one request at a time.
LEMMA CancelStep ==
  ASSUME NEW h, Handlers = {h}, CancelInv(h), [Next]_vars
  PROVE  CancelInv(h)'
<1>1. RequestInv'
  BY RequestInvStep DEF CancelInv
<1>2. CASE External \/ OpsSettlePayout \/ UNCHANGED vars
  BY <1>1, <1>2 DEF External, GatewayAuthorizes, GatewayCaptures, GatewayFails, GatewayMoves,
     OpsSettlePayout, vars, CancelInv
<1>3. CASE Receive(h) \/ Continue(h)
  BY <1>1, <1>3, ReceiveCancels, RefundCancels, CancelCancels, OtherCancels
     DEF Continue, CancelInv
<1>4. CASE Crash(h)
  BY <1>1, <1>4, ReturnCancels DEF Crash, CancelInv
<1> QED BY <1>2, <1>3, <1>4 DEF Next

\* A captured escrow becomes cancelled by the last step of a cancellation only,
\* which works on the escrow's own payment and owes nothing.
LEMMA CancelledStep ==
  ASSUME NEW h \in Handlers, Handlers = {h}, CancelInv(h), [Next]_vars,
         escrow.status # "cancelled", escrow'.status = "cancelled",
         holdsCapturedPayment(escrow)
  PROVE  At(h, "cancel.write") /\ ~req[h].owed /\ req[h].payment = escrow.paymentId
<1>1. escrow \in EscrowRows /\ RequestInv
  BY DEF CancelInv, RequestInv, TypeOK
<1>2. ASSUME ApplyPaymentEvent(h), SameState(escrow, req[h].seen),
             escrow' = PaymentUpdate(escrow, req[h].event, req[h].payment)
      PROVE  FALSE
  <2>1. /\ req[h].event \in PaymentEvents
        /\ resolveEscrowPaymentTransition(req[h].seen, req[h].event, req[h].payment)
    BY <1>1, <1>2 DEF ApplyPaymentEvent, RequestInv, EventInv
  <2>2. req[h].event # "failed"
    BY <1>2, <2>1 DEF SameState, resolveEscrowPaymentTransition, Settled, holdsCapturedPayment
  <2> QED BY <1>1, <1>2, <2>1, <2>2 DEF PaymentUpdate, EscrowRows, PaymentEvents
<1>3. At(h, "cancel.write")
  BY <1>1, <1>2, EscrowStep DEF EscrowRows
<1> QED BY <1>3 DEF CancelInv, Cancels, At

\* What CancelReturnsMoney says of a step.
NothingOwed ==
  (/\ escrow.status # "cancelled" /\ escrow'.status = "cancelled"
   /\ holdsCapturedPayment(escrow))
    => \E h \in Handlers : /\ At(h, "cancel.write") /\ ~req[h].owed
                          /\ req[h].payment = escrow.paymentId

\* An escrow with captured money is marked cancelled only after a refund of that
\* very payment was tried and found nothing owed (cancelPayment), as long as
\* requests about an escrow come one at a time.  No fault needs to be excluded:
\* a refund that failed, whose answer or whose record was lost, counts as owed.
THEOREM CancelReturns ==
  ASSUME NEW g, Handlers = {g}
  PROVE  Spec => CancelReturnsMoney
<1>1. g \in Handlers
  OBVIOUS
<1>2. Init => CancelInv(g)
  BY <1>1, InitRequestInv DEF Init, CancelInv, Cancels, Idle
<1>3. CancelInv(g) /\ [Next]_vars => CancelInv(g)'
  BY CancelStep
<1>4. CancelInv(g) /\ [Next]_vars => [NothingOwed]_vars
  BY <1>1, CancelledStep DEF NothingOwed
<1>5. Spec => [][NothingOwed]_vars
  BY <1>2, <1>3, <1>4, PTL DEF Spec
<1>6. [NothingOwed]_vars
        <=> [(/\ escrow.status # "cancelled" /\ escrow'.status = "cancelled"
              /\ holdsCapturedPayment(escrow))
               => \E h \in Handlers : /\ At(h, "cancel.write") /\ ~req[h].owed
                                     /\ req[h].payment = escrow.paymentId]_vars
  BY DEF NothingOwed
<1> QED BY <1>5, <1>6, PTL DEF CancelReturnsMoney
=============================================================================
