------------------------ MODULE VisitBinding_proofs ------------------------
(***************************************************************************)
(* Proofs about VisitBinding, for any number of orders, visits and         *)
(* handlers.                                                               *)
(*                                                                         *)
(*   VisitTypeCorrect  Spec => []TypeOK                                    *)
(*   BoundOnce         Spec => []OneBoundPayment, as long as locks do not  *)
(*                     expire under a live holder and no payment is moved  *)
(*                     between visits                                      *)
(*   OneOrderActive    Spec => []OneActiveOrder, likewise                  *)
(*   PaidOrdersStay    Spec => PaidOrdersKept, if moreover the read of a   *)
(*                     visit's orders does not fail                        *)
(*   PromiseKept       Spec => KeepsPromise: the handlers implement        *)
(*                     VisitPayments, likewise                             *)
(*   HeldPaymentsMove  Spec => OnlyHeldPaymentsMove, whatever the faults   *)
(*                     and the operations                                  *)
(*                                                                         *)
(* LockInv is the mutual exclusion; WonInv and Kept are what its holder    *)
(* concluded from the rows of the visit, which stays true because only a   *)
(* holder binds, refunds and creates.                                      *)
(***************************************************************************)
EXTENDS VisitBinding, TLAPS

CaptureSteps == {"capture.inspect", "capture.siblings", "capture.bind"}
OrderSteps   == {"order.check", "order.list", "order.supersede", "order.create"}

\* Where a request is, or will be once it has the lock.
Stage(r) == IF r.step = "waiting" THEN r.next ELSE r.step

\* A request works on its own visit: the visit of the row it captures, or an
\* order that does not exist yet; an event it applies is not a capture.
Scoped(r) ==
    /\ r.step \in LockedSteps \cup {"waiting"} => r.visit \in Visits
    /\ r.step = "waiting" => r.next \in {"capture.inspect", "order.check", "refund.check"}
    /\ Stage(r) \in CaptureSteps =>
         r.escrow \in Escrows /\ escrow[r.escrow].visit = r.visit
    /\ r.step \in {"capture.siblings", "capture.bind"} => r.seen.visit = r.visit
    /\ Stage(r) \in OrderSteps /\ r.escrow \in Escrows =>
         escrow[r.escrow].visit = NoVisit
    /\ r.step = "order.create" => r.escrow \in Escrows
    /\ r.step = "event.apply" => r.event # "captured" /\ ~Settled(r.seen)
    /\ r.step \notin {"reassign.target", "reassign.write"}

ScopeInv == \A h \in Handlers : Scoped(req[h])

\* Whoever works on a visit holds its lock.
LockInv == \A h \in Handlers : Inside(h) => lock[req[h].visit] = h

\* Nobody works on the order another request is about to create.
OwnInv == \A g, h \in Handlers :
    g # h /\ Stage(req[h]) \in OrderSteps /\ req[h].escrow \in Escrows
      => req[g].escrow # req[h].escrow

\* Only orders that exist are paid.
ExistInv == \A e \in Escrows : gateway[e] # "created" => escrow[e].visit # NoVisit

\* A capture that found no other payment of its visit is still right.
WonInv == \A h \in Handlers :
    At(h, "capture.bind") /\ ~req[h].won
      => BoundPayments(req[h].visit) \subseteq {req[h].escrow}

VInv == TypeOK /\ ScopeInv /\ LockInv /\ OwnInv /\ ExistInv /\ WonInv /\ OneBoundPayment

-----------------------------------------------------------------------------
(* Type correctness                                                        *)

LEMMA IdleTyped == Idle \in Requests /\ NoRow \in Rows
BY VisitAssumption DEF Idle, NoRow, Requests, Rows, Steps, LockedSteps,
   EscrowStatuses, PaymentStatuses, PaymentEvents

\* Writing a known status, payment or visit to a row leaves a row.
LEMMA RowsTyped ==
  ASSUME NEW row \in Rows
  PROVE  /\ \A status \in EscrowStatuses : [row EXCEPT !.status = status] \in Rows
         /\ \A v \in Visits \cup {NoVisit} : [row EXCEPT !.visit = v] \in Rows
         /\ \A status \in EscrowStatuses, e \in Escrows :
              [row EXCEPT !.status = status, !.paymentId = e] \in Rows
         /\ \A event \in PaymentEvents, e \in Escrows :
              PaymentUpdate(row, event, e) \in Rows
BY DEF Rows, EscrowStatuses, PaymentStatuses, PaymentEvents, PaymentUpdate

LEMMA CaptureUpdateTyped ==
  ASSUME TypeOK, NEW e \in Escrows, NEW r \in Requests
  PROVE  /\ CaptureUpdate(e, r) \in Rows
         /\ CaptureUpdate(e, r).visit = IF r.won THEN r.seen.visit ELSE escrow[e].visit
         /\ isVisitBoundPayment(CaptureUpdate(e, r)) => ~r.won
<1> DEFINE row == PaymentUpdate(escrow[e], "captured", e)
           lost == [row EXCEPT !.status = "cancelled", !.duplicate = TRUE, !.visit = r.seen.visit]
<1>1. escrow[e] \in Rows
  BY DEF TypeOK
<1>2. r.won \in BOOLEAN /\ r.seen \in Rows
  BY DEF Requests
<1>3. row \in Rows
  BY <1>1, RowsTyped DEF PaymentEvents
<1>4. row.visit = escrow[e].visit
  BY <1>1 DEF PaymentUpdate, Rows
<1>5. r.seen.visit \in Visits \cup {NoVisit}
  BY <1>2 DEF Rows
<1>6. CaptureUpdate(e, r) = IF r.won THEN lost ELSE row
  BY DEF CaptureUpdate
<1> HIDE DEF row
<1>7. lost \in Rows /\ lost.visit = r.seen.visit /\ lost.status = "cancelled"
  BY <1>3, <1>5 DEF Rows, EscrowStatuses
<1> HIDE DEF lost
<1>8. CASE r.won
  <2>1. CaptureUpdate(e, r) = lost
    BY <1>6, <1>8
  <2> QED BY <1>7, <1>8, <2>1 DEF isVisitBoundPayment
<1>9. CASE ~r.won
  <2>1. CaptureUpdate(e, r) = row
    BY <1>6, <1>9
  <2> QED BY <1>3, <1>4, <1>9, <2>1
<1> QED BY <1>8, <1>9

\* A request that captures knows its row.
Known(r) == Stage(r) \in CaptureSteps => r.escrow \in Escrows

TInv == TypeOK /\ \A h \in Handlers : Known(req[h])

\* What a request may become: a typed request, that knows its row.
Sane == req' \in [Handlers -> Requests] /\ \A h \in Handlers : Known(req'[h])

LEMMA BecomeSane ==
  ASSUME TInv, NEW h \in Handlers, NEW r \in Requests, Become(h, r), Known(r)
  PROVE  Sane
BY DEF TInv, TypeOK, Become, Sane

LEMMA GoToSane ==
  ASSUME TInv, NEW h \in Handlers, NEW step \in Steps \ {"waiting"}, GoTo(h, step),
         step \in CaptureSteps => req[h].escrow \in Escrows
  PROVE  Sane
<1> DEFINE r == [req[h] EXCEPT !.step = step]
<1>1. r \in Requests /\ r.step = step /\ r.escrow = req[h].escrow
  BY DEF TInv, TypeOK, Requests
<1>2. Become(h, r)
  BY DEF TInv, TypeOK, GoTo, Become
<1> HIDE DEF r
<1> QED BY <1>1, <1>2, BecomeSane DEF Known, Stage

LEMMA ReturnSane ==
  ASSUME TInv, NEW h \in Handlers, Become(h, Idle)
  PROVE  Sane
BY BecomeSane, IdleTyped DEF Known, Stage, Idle, CaptureSteps

LEMMA ReceiveSane ==
  ASSUME TInv, NEW h \in Handlers, Receive(h)
  PROVE  Sane /\ UNCHANGED <<escrow, gateway, lock>>
<1>1. PICK e \in Escrows :
        \/ BeginCapture(h, e)
        \/ \E v \in Visits : BeginOrder(h, e, v)
        \/ BeginRefund(h, e)
        \/ \E event \in PaymentEvents : ReceivePaymentEvent(h, e, event)
        \/ \E v \in Visits : BeginReassign(h, e, v)
  BY DEF Receive
<1>2. UNCHANGED <<escrow, gateway, lock>>
  BY <1>1 DEF BeginCapture, BeginOrder, BeginRefund, ReceivePaymentEvent, BeginReassign
<1>3. escrow[e] \in Rows /\ escrow[e].visit \in Visits \cup {NoVisit}
  BY DEF TInv, TypeOK, Rows
<1>4. ASSUME NEW v \in Visits \cup {NoVisit}, NEW next \in LockedSteps,
             WaitForLock(h, v, [Idle EXCEPT !.escrow = e, !.next = next])
      PROVE  Sane
  <2> DEFINE r == [[Idle EXCEPT !.escrow = e, !.next = next]
                     EXCEPT !.step = "waiting", !.visit = v]
  <2>1. r \in Requests /\ r.escrow = e
    BY IdleTyped DEF Requests, Steps, Idle
  <2>2. Become(h, r)
    BY <1>4 DEF WaitForLock
  <2> HIDE DEF r
  <2> QED BY <2>1, <2>2, BecomeSane DEF Known
<1>5. ASSUME NEW event \in PaymentEvents,
             Become(h, [Idle EXCEPT !.step = "event.apply", !.escrow = e,
                                    !.seen = escrow[e], !.event = event])
      PROVE  Sane
  <2> DEFINE r == [Idle EXCEPT !.step = "event.apply", !.escrow = e,
                               !.seen = escrow[e], !.event = event]
  <2>1. r \in Requests /\ r.escrow = e
    BY <1>3, IdleTyped DEF Requests, Steps, Idle
  <2>2. Become(h, r)
    BY <1>5
  <2> HIDE DEF r
  <2> QED BY <2>1, <2>2, BecomeSane DEF Known
<1>6. ASSUME NEW v \in Visits,
             Become(h, [Idle EXCEPT !.step = "reassign.target", !.escrow = e,
                                    !.visit = v, !.seen = escrow[e]])
      PROVE  Sane
  <2> DEFINE r == [Idle EXCEPT !.step = "reassign.target", !.escrow = e,
                               !.visit = v, !.seen = escrow[e]]
  <2>1. r \in Requests /\ r.escrow = e
    BY <1>3, IdleTyped DEF Requests, Steps, Idle
  <2>2. Become(h, r)
    BY <1>6
  <2> HIDE DEF r
  <2> QED BY <2>1, <2>2, BecomeSane DEF Known
<1>7. {"capture.inspect", "order.check", "refund.check"} \subseteq LockedSteps
  BY DEF LockedSteps
<1> QED BY <1>1, <1>2, <1>3, <1>4, <1>5, <1>6, <1>7
        DEF BeginCapture, BeginOrder, BeginRefund, ReceivePaymentEvent, BeginReassign

LEMMA ContinueSane ==
  ASSUME TInv, NEW h \in Handlers, Continue(h) \/ Crash(h)
  PROVE  Sane
<1> DEFINE e == req[h].escrow
<1>1. /\ req[h] \in Requests /\ e \in Escrows \cup {NoPayment}
      /\ req[h].next \in LockedSteps /\ req[h].todo \in SUBSET Escrows
  BY DEF TInv, TypeOK, Requests
<1>2. ASSUME NEW step \in (LockedSteps \ CaptureSteps) \cup {"reassign.write"},
             GoTo(h, step)
      PROVE  Sane
  <2>1. step \in Steps \ {"waiting"}
    BY DEF Steps, LockedSteps
  <2>2. step \notin CaptureSteps
    BY DEF LockedSteps, CaptureSteps
  <2> QED BY <1>2, <2>1, <2>2, GoToSane
<1>3. CASE AcquireLock(h)
  <2>1. GoTo(h, req[h].next) /\ req[h].step = "waiting"
    BY <1>3 DEF AcquireLock, At
  <2>2. req[h].next \in CaptureSteps => e \in Escrows
    BY <2>1 DEF TInv, Known, Stage
  <2>3. req[h].next \in Steps \ {"waiting"}
    BY <1>1 DEF Steps, LockedSteps
  <2> HIDE DEF e
  <2> QED BY <2>1, <2>2, <2>3, GoToSane DEF e
<1>4. CASE ExpireLock(h)
  BY <1>4 DEF ExpireLock, TInv, TypeOK, Sane
<1>5. CASE GiveUpWaiting(h) \/ ReleaseLock(h) \/ Crash(h) \/ ApplyPaymentEvent(h) \/ WriteVisitTag(h)
  BY <1>5, ReturnSane DEF GiveUpWaiting, ReleaseLock, Crash, ApplyPaymentEvent, WriteVisitTag
<1>6. CASE \/ CheckVisitUnpaid(h) \/ AllSuperseded(h) \/ CheckRefund(h)
           \/ CallGatewayRefund(h) \/ CheckTargetVisit(h) \/ CreateOrder(h)
           \/ CommitRefund(h) \/ BindCapture(h)
  BY <1>2, <1>6, ReturnSane DEF CheckVisitUnpaid, AllSuperseded, CheckRefund,
     CallGatewayRefund, CheckTargetVisit, CreateOrder, CommitRefund, BindCapture,
     LockedSteps, CaptureSteps
<1>7. ASSUME NEW r \in Requests, Become(h, r), r.step # "waiting", r.step \notin CaptureSteps
      PROVE  Sane
  BY <1>7, BecomeSane DEF Known, Stage
<1>8. ASSUME NEW r \in Requests, Become(h, r), r.step \in CaptureSteps,
             req[h].step \in CaptureSteps, r.escrow = e
      PROVE  Sane
  <2>1. e \in Escrows
    BY <1>8 DEF TInv, Known, Stage, CaptureSteps
  <2> QED BY <1>8, <2>1, BecomeSane DEF Known
<1>9. CASE InspectCapture(h)
  <2>1. e \in Escrows
    BY <1>9 DEF InspectCapture, At, TInv, Known, Stage, CaptureSteps
  <2>2. CASE Become(h, [req[h] EXCEPT !.step = "capture.siblings", !.seen = escrow[e]])
    <3> DEFINE r == [req[h] EXCEPT !.step = "capture.siblings", !.seen = escrow[e]]
    <3>1. r \in Requests /\ r.step = "capture.siblings" /\ r.escrow = e
      <4>1. req[h] \in Requests /\ escrow[e] \in Rows
        BY <2>1 DEF TInv, TypeOK
      <4> QED BY <4>1 DEF Requests, Steps, LockedSteps
    <3>2. Become(h, r)
      BY <2>2
    <3> HIDE DEF r
    <3> QED BY <1>8, <1>9, <3>1, <3>2 DEF InspectCapture, At, CaptureSteps
  <2>3. CASE GoTo(h, "release")
    BY <1>2, <2>3 DEF LockedSteps, CaptureSteps
  <2> QED BY <1>9, <2>2, <2>3 DEF InspectCapture
<1>10. CASE FindWinners(h)
  <2> DEFINE r == [req[h] EXCEPT !.step = "capture.bind",
                     !.won = BoundPayments(req[h].visit) \ {req[h].escrow} # {}]
  <2>1. r \in Requests /\ r.step = "capture.bind" /\ r.escrow = e
    BY <1>1 DEF Requests, Steps, LockedSteps
  <2>2. Become(h, r)
    BY <1>10 DEF FindWinners
  <2> HIDE DEF r
  <2> QED BY <1>8, <1>10, <2>1, <2>2 DEF FindWinners, At, CaptureSteps
<1>11. CASE ListUnpaidOrders(h)
  <2>1. PICK todo \in SUBSET Escrows, f \in {e, NoPayment} :
          Become(h, [req[h] EXCEPT !.step = "order.supersede", !.todo = todo, !.escrow = f])
    <3>1. UnpaidOrders(req[h].visit) \in SUBSET Escrows
      BY DEF UnpaidOrders, OrdersOf
    <3>2. [req[h] EXCEPT !.step = "order.supersede", !.todo = UnpaidOrders(req[h].visit)]
            = [req[h] EXCEPT !.step = "order.supersede", !.todo = UnpaidOrders(req[h].visit), !.escrow = e]
      BY <1>1 DEF Requests
    <3> QED BY <1>11, <3>1, <3>2 DEF ListUnpaidOrders
  <2> DEFINE r == [req[h] EXCEPT !.step = "order.supersede", !.todo = todo, !.escrow = f]
  <2>2. r \in Requests /\ r.step = "order.supersede"
    BY <1>1 DEF Requests, Steps, LockedSteps
  <2>3. Become(h, r)
    BY <2>1
  <2> HIDE DEF r
  <2> QED BY <1>7, <2>2, <2>3 DEF CaptureSteps
<1>12. CASE SupersedeOrder(h)
  <2>1. PICK f \in Escrows : Become(h, [req[h] EXCEPT !.todo = req[h].todo \ {f}])
    BY <1>1, <1>12 DEF SupersedeOrder
  <2> DEFINE r == [req[h] EXCEPT !.todo = req[h].todo \ {f}]
  <2>2. r \in Requests /\ r.step = "order.supersede"
    BY <1>1, <1>12 DEF Requests, SupersedeOrder, At
  <2>3. Become(h, r)
    BY <2>1
  <2> HIDE DEF r
  <2> QED BY <1>7, <2>2, <2>3 DEF CaptureSteps
<1> QED BY <1>3, <1>4, <1>5, <1>6, <1>9, <1>10, <1>11, <1>12 DEF Continue

\* The rows, Razorpay's states and the lock rows stay typed.
LEMMA RowWrite ==
  ASSUME TInv, NEW e \in Escrows, NEW row \in Rows, escrow' = [escrow EXCEPT ![e] = row]
  PROVE  escrow' \in [Escrows -> Rows]
BY DEF TInv, TypeOK

LEMMA DataTyped ==
  ASSUME TInv, [Next]_vars
  PROVE  /\ escrow' \in [Escrows -> Rows]
         /\ gateway' \in [Escrows -> {"created", "authorized", "captured", "failed",
                                     "refunded"}]
         /\ lock' \in [Visits -> Handlers \cup {Free, Dead}]
<1> DEFINE Rest == UNCHANGED <<gateway, lock>>
           Typed == /\ escrow' \in [Escrows -> Rows]
                    /\ gateway' \in [Escrows -> {"created", "authorized", "captured",
                                                "failed", "refunded"}]
                    /\ lock' \in [Visits -> Handlers \cup {Free, Dead}]
<1>0. TypeOK
  BY DEF TInv
<1>1. ASSUME UNCHANGED <<escrow, gateway, lock>>
      PROVE  Typed
  BY <1>0, <1>1 DEF TypeOK
<1>2. ASSUME NEW e \in Escrows, NEW row \in Rows, Rest,
             escrow' = [escrow EXCEPT ![e] = row]
      PROVE  Typed
  BY <1>0, <1>2, RowWrite DEF TypeOK
<1>3. CASE External
  BY <1>0, <1>3 DEF External, GatewayMoves, TypeOK
<1>4. ASSUME NEW e \in Escrows, PayOut(e)
      PROVE  Typed
  <2>1. [escrow[e] EXCEPT !.status = "released"] \in Rows
    BY <1>0, RowsTyped DEF TypeOK, EscrowStatuses
  <2>2. escrow' = [escrow EXCEPT ![e] = [escrow[e] EXCEPT !.status = "released"]]
    BY <1>4 DEF PayOut
  <2> QED BY <1>2, <1>4, <2>1, <2>2 DEF PayOut
<1>5. ASSUME NEW h \in Handlers, Receive(h)
      PROVE  Typed
  BY <1>1, <1>5, ReceiveSane
<1>6. ASSUME NEW h \in Handlers, Continue(h) \/ Crash(h)
      PROVE  Typed
  <2> DEFINE e == req[h].escrow
  <2>0. req[h] \in Requests /\ e \in Escrows \cup {NoPayment} /\ req[h].event \in PaymentEvents
    BY <1>0 DEF TypeOK, Requests
  <2>1. CASE AcquireLock(h) \/ ExpireLock(h) \/ ReleaseLock(h) \/ Crash(h)
    BY <1>0, <2>1 DEF AcquireLock, ExpireLock, ReleaseLock, Crash, TypeOK
  <2>2. CASE \/ GiveUpWaiting(h) \/ InspectCapture(h) \/ FindWinners(h)
             \/ CheckVisitUnpaid(h) \/ ListUnpaidOrders(h) \/ AllSuperseded(h)
             \/ CheckRefund(h) \/ CheckTargetVisit(h)
    BY <1>1, <2>2 DEF GiveUpWaiting, InspectCapture, FindWinners, CheckVisitUnpaid,
       ListUnpaidOrders, AllSuperseded, CheckRefund, CheckTargetVisit
  <2>3. CASE CallGatewayRefund(h)
    BY <1>0, <2>3 DEF CallGatewayRefund, TypeOK
  <2>4. CASE BindCapture(h)
    <3>1. e \in Escrows
      BY <2>4 DEF TInv, Known, Stage, BindCapture, At, CaptureSteps
    <3>2. CaptureUpdate(e, req[h]) \in Rows
      BY <1>0, <2>0, <3>1, CaptureUpdateTyped
    <3>3. \/ escrow' = escrow
          \/ escrow' = [escrow EXCEPT ![e] = CaptureUpdate(e, req[h])]
      BY <2>4 DEF BindCapture
    <3> HIDE DEF e
    <3> QED BY <1>1, <1>2, <2>4, <3>1, <3>2, <3>3 DEF BindCapture
  <2>5. CASE SupersedeOrder(h)
    <3>1. PICK f \in Escrows :
            \/ escrow' = escrow
            \/ escrow' = [escrow EXCEPT ![f] = [escrow[f] EXCEPT !.status = "cancelled"]]
      BY <1>0, <2>0, <2>5 DEF SupersedeOrder, TypeOK, Requests
    <3>2. [escrow[f] EXCEPT !.status = "cancelled"] \in Rows
      BY <1>0, RowsTyped DEF TypeOK, EscrowStatuses
    <3> QED BY <1>1, <1>2, <2>5, <3>1, <3>2 DEF SupersedeOrder
  <2>6. CASE CreateOrder(h)
    <3>1. [NoRow EXCEPT !.visit = req[h].visit] \in Rows
      BY <2>0, IdleTyped, RowsTyped DEF Requests
    <3>2. escrow' \in [Escrows -> Rows]
      BY <1>0, <2>6, <3>1 DEF CreateOrder, TypeOK
    <3> QED BY <1>0, <2>6, <3>2 DEF CreateOrder, TypeOK
  <2>7. CASE CommitRefund(h)
    <3>1. CASE e \in Escrows
      <4> DEFINE row == [escrow[e] EXCEPT !.status = "refunded", !.paymentId = e]
      <4>1. row \in Rows
        BY <1>0, <3>1, RowsTyped DEF TypeOK, EscrowStatuses
      <4>2. escrow' = [escrow EXCEPT ![e] = row]
        BY <1>0, <2>7, <3>1 DEF CommitRefund, TypeOK
      <4> HIDE DEF row, e
      <4> QED BY <1>2, <2>7, <3>1, <4>1, <4>2 DEF CommitRefund
    <3>2. CASE e \notin Escrows
      <4>1. escrow' = escrow
        BY <1>0, <2>7, <3>2 DEF CommitRefund, TypeOK
      <4> QED BY <1>1, <2>7, <4>1 DEF CommitRefund
    <3> QED BY <3>1, <3>2
  <2>8. CASE ApplyPaymentEvent(h)
    <3>1. CASE e \in Escrows
      <4> DEFINE row == PaymentUpdate(escrow[e], req[h].event, e)
      <4>1. row \in Rows
        BY <1>0, <2>0, <3>1, RowsTyped DEF TypeOK
      <4>2. \/ escrow' = escrow
            \/ escrow' = [escrow EXCEPT ![e] = row]
        BY <1>0, <2>8, <3>1 DEF ApplyPaymentEvent, TypeOK
      <4> HIDE DEF row, e
      <4> QED BY <1>1, <1>2, <2>8, <3>1, <4>1, <4>2 DEF ApplyPaymentEvent
    <3>2. CASE e \notin Escrows
      <4>1. escrow' = escrow
        BY <1>0, <2>8, <3>2 DEF ApplyPaymentEvent, TypeOK
      <4> QED BY <1>1, <2>8, <4>1 DEF ApplyPaymentEvent
    <3> QED BY <3>1, <3>2
  <2>9. CASE WriteVisitTag(h)
    <3>1. CASE e \in Escrows
      <4> DEFINE row == [escrow[e] EXCEPT !.visit = req[h].visit]
      <4>1. row \in Rows
        BY <1>0, <2>0, <3>1, RowsTyped DEF TypeOK, Requests
      <4>2. \/ escrow' = escrow
            \/ escrow' = [escrow EXCEPT ![e] = row]
        BY <1>0, <2>9, <3>1 DEF WriteVisitTag, TypeOK
      <4> HIDE DEF row, e
      <4> QED BY <1>1, <1>2, <2>9, <3>1, <4>1, <4>2 DEF WriteVisitTag
    <3>2. CASE e \notin Escrows
      <4>1. escrow' = escrow
        BY <1>0, <2>9, <3>2 DEF WriteVisitTag, TypeOK
      <4> QED BY <1>1, <2>9, <4>1 DEF WriteVisitTag
    <3> QED BY <3>1, <3>2
  <2> QED BY <1>6, <2>1, <2>2, <2>3, <2>4, <2>5, <2>6, <2>7, <2>8, <2>9 DEF Continue
<1> QED BY <1>1, <1>3, <1>4, <1>5, <1>6 DEF Next, vars

LEMMA TypeStep == TInv /\ [Next]_vars => TInv'
<1> SUFFICES ASSUME TInv, [Next]_vars
             PROVE  TInv'
  OBVIOUS
<1>1. Sane
  <2>1. CASE UNCHANGED req
    BY <2>1 DEF Sane, TInv, TypeOK
  <2> QED BY <2>1, ReceiveSane, ContinueSane
          DEF Next, vars, External, GatewayMoves, PayOut
<1> QED BY <1>1, DataTyped DEF TInv, TypeOK, Sane, Known

LEMMA TypeInit == Init => TInv
BY IdleTyped DEF Init, TInv, TypeOK, Known, Stage, Idle, CaptureSteps

\* Every value a request, an event or a repair writes to an escrow row, and
\* every lock row, stays within its type (all writers of the module).
THEOREM VisitTypeCorrect == Spec => []TypeOK
<1>1. TInv => TypeOK
  BY DEF TInv
<1> QED BY <1>1, TypeInit, TypeStep, PTL DEF Spec

-----------------------------------------------------------------------------
(* One bound payment                                                       *)

\* What BoundOnce assumes.
Orderly == "lockExpiry" \notin Faults /\ "reassign" \notin Operations

\* What a handler may become: it stays within its visit, takes no order that
\* another one is about to create, and knows whether its visit is paid.
Fits(h, r) ==
    /\ Scoped(r)
    /\ r.escrow \in {req[h].escrow, NoPayment} \/
         \A g \in Handlers : Stage(req[g]) \in OrderSteps => req[g].escrow # r.escrow
    /\ Stage(r) \in OrderSteps /\ r.escrow \in Escrows =>
         \/ Stage(req[h]) \in OrderSteps /\ r.escrow = req[h].escrow
         \/ \A g \in Handlers : req[g].escrow # r.escrow
    /\ r.step = "capture.bind" /\ ~r.won => BoundPayments(r.visit) \subseteq {r.escrow}

Moves(h) == /\ Fits(h, req'[h])
            /\ \A g \in Handlers \ {h} : req'[g] = req[g]

LEMMA MovesTo ==
  ASSUME TypeOK, NEW h \in Handlers, NEW r, Become(h, r), Fits(h, r)
  PROVE  Moves(h)
<1>1. req'[h] = r /\ \A g \in Handlers \ {h} : req'[g] = req[g]
  BY DEF Become, TypeOK
<1> QED BY <1>1 DEF Moves

LEMMA MovesToIdle ==
  ASSUME TypeOK, NEW h \in Handlers, Become(h, Idle)
  PROVE  Moves(h)
<1>1. Fits(h, Idle)
  BY VisitAssumption DEF Fits, Scoped, Stage, Idle, LockedSteps, CaptureSteps, OrderSteps
<1> QED BY <1>1, MovesTo

\* A request goes on, with the same order or none.
LEMMA MovesOn ==
  ASSUME TypeOK, ScopeInv, NEW h \in Handlers, NEW r \in Requests, Become(h, r),
         Inside(h), r.step \in LockedSteps, r.step # "capture.bind",
         r.visit = req[h].visit, r.escrow \in {req[h].escrow, NoPayment},
         r.step \in CaptureSteps => req[h].step \in CaptureSteps /\ r.escrow = req[h].escrow
                                    /\ r.seen = escrow[r.escrow],
         r.step \in OrderSteps => req[h].step \in OrderSteps,
         r.step = "order.create" => r.escrow \in Escrows
  PROVE  Moves(h)
<1>1. Stage(r) = r.step /\ Stage(req[h]) = req[h].step
  BY DEF Stage, Inside, LockedSteps
<1>2. Scoped(req[h])
  BY DEF ScopeInv
<1>3. r.step \notin {"waiting", "event.apply", "reassign.target", "reassign.write"}
  BY DEF LockedSteps
<1>4. r.escrow \in Escrows => r.escrow = req[h].escrow
  BY VisitAssumption
<1>5. Scoped(r)
  <2>1. req[h].visit \in Visits
    BY <1>2 DEF Scoped, Inside
  <2>2. r.step \in CaptureSteps =>
          r.escrow \in Escrows /\ escrow[r.escrow].visit = r.visit /\ r.seen.visit = r.visit
    BY <1>1, <1>2 DEF Scoped
  <2>3. r.step \in OrderSteps /\ r.escrow \in Escrows => escrow[r.escrow].visit = NoVisit
    BY <1>1, <1>2, <1>4 DEF Scoped
  <2> QED BY <1>1, <1>3, <2>1, <2>2, <2>3 DEF Scoped, CaptureSteps
<1>6. Fits(h, r)
  BY <1>1, <1>4, <1>5 DEF Fits
<1> QED BY <1>6, MovesTo

LEMMA ReceiveMoves ==
  ASSUME TypeOK, ScopeInv, ExistInv, Orderly, NEW h \in Handlers, Receive(h)
  PROVE  Moves(h)
<1>1. PICK e \in Escrows :
        \/ BeginCapture(h, e)
        \/ \E v \in Visits : BeginOrder(h, e, v)
        \/ BeginRefund(h, e)
        \/ \E event \in PaymentEvents : ReceivePaymentEvent(h, e, event)
    BY DEF Receive, BeginReassign, Begin, Orderly
<1>2. e # NoPayment /\ escrow[e] \in Rows /\ escrow[e].visit \in Visits \cup {NoVisit}
  BY VisitAssumption DEF TypeOK, Rows
<1>3. ASSUME NEW v \in Visits, NEW next \in {"capture.inspect", "refund.check"},
             escrow[e].visit = v,
             WaitForLock(h, v, [Idle EXCEPT !.escrow = e, !.next = next])
      PROVE  Moves(h)
  <2> DEFINE r == [[Idle EXCEPT !.escrow = e, !.next = next]
                     EXCEPT !.step = "waiting", !.visit = v]
  <2>1. /\ r.step = "waiting" /\ r.visit = v /\ r.escrow = e /\ r.next = next
        /\ Stage(r) = next
    BY DEF Idle, Stage
  <2>2. Become(h, r)
    BY <1>3 DEF WaitForLock
  <2>3. \A g \in Handlers : Stage(req[g]) \in OrderSteps => req[g].escrow # e
    BY <1>3, VisitAssumption DEF ScopeInv, Scoped
  <2> HIDE DEF r
  <2>4. Scoped(r)
    BY <1>3, <2>1 DEF Scoped, CaptureSteps, OrderSteps
  <2>5. Fits(h, r)
    BY <2>1, <2>3, <2>4 DEF Fits, OrderSteps
  <2> QED BY <2>2, <2>5, MovesTo
<1>4. CASE \E v \in Visits : BeginOrder(h, e, v)
  <2>1. PICK v \in Visits : BeginOrder(h, e, v)
    BY <1>4
  <2> DEFINE r == [[Idle EXCEPT !.escrow = e, !.next = "order.check"]
                     EXCEPT !.step = "waiting", !.visit = v]
  <2>2. /\ r.step = "waiting" /\ r.visit = v /\ r.escrow = e /\ r.next = "order.check"
        /\ Stage(r) = "order.check"
    BY DEF Idle, Stage
  <2>3. Become(h, r)
    BY <2>1 DEF BeginOrder, WaitForLock
  <2>4. escrow[e].visit = NoVisit /\ \A g \in Handlers : req[g].escrow # e
    BY <2>1 DEF BeginOrder
  <2> HIDE DEF r
  <2>5. Scoped(r)
    BY <2>2, <2>4 DEF Scoped, CaptureSteps, OrderSteps
  <2>6. Fits(h, r)
    BY <2>2, <2>4, <2>5 DEF Fits
  <2> QED BY <2>3, <2>6, MovesTo
<1>5. CASE \E event \in PaymentEvents : ReceivePaymentEvent(h, e, event)
  <2>1. PICK event \in PaymentEvents : ReceivePaymentEvent(h, e, event)
    BY <1>5
  <2> DEFINE r == [Idle EXCEPT !.step = "event.apply", !.escrow = e,
                               !.seen = escrow[e], !.event = event]
  <2>2. /\ r.step = "event.apply" /\ r.escrow = e /\ r.seen = escrow[e]
        /\ r.event = event /\ Stage(r) = "event.apply"
    BY DEF Idle, Stage
  <2>3. Become(h, r)
    BY <2>1 DEF ReceivePaymentEvent
  <2>4. gateway[e] # "created" /\ event # "captured" /\ ~Settled(escrow[e])
    BY <2>1 DEF ReceivePaymentEvent, Emitted, resolveEscrowPaymentTransition, PaymentEvents
  <2>5. \A g \in Handlers : Stage(req[g]) \in OrderSteps => req[g].escrow # e
    BY <2>4 DEF ScopeInv, Scoped, ExistInv
  <2> HIDE DEF r
  <2>6. Scoped(r)
    BY <2>2, <2>4 DEF Scoped, CaptureSteps, OrderSteps, LockedSteps
  <2>7. Fits(h, r)
    BY <2>2, <2>5, <2>6 DEF Fits, OrderSteps
  <2> QED BY <2>3, <2>7, MovesTo
<1>6. CASE BeginCapture(h, e)
  <2>1. gateway[e] # "created"
    BY <1>6 DEF BeginCapture, Emitted
  <2>2. escrow[e].visit \in Visits
    BY <1>2, <2>1 DEF ExistInv
  <2> QED BY <1>3, <1>6, <2>2 DEF BeginCapture
<1>7. CASE BeginRefund(h, e)
  <2>1. escrow[e].visit \in Visits
    BY <1>2, <1>7 DEF BeginRefund
  <2> QED BY <1>3, <1>7, <2>1 DEF BeginRefund
<1> QED BY <1>1, <1>4, <1>5, <1>6, <1>7

LEMMA ContinueMoves ==
  ASSUME TypeOK, ScopeInv, NEW h \in Handlers, Continue(h) \/ Crash(h), ~ExpireLock(h)
  PROVE  Moves(h)
<1> DEFINE e == req[h].escrow
<1>1. req[h] \in Requests /\ Scoped(req[h]) /\ e \in Escrows \cup {NoPayment}
  BY DEF TypeOK, ScopeInv, Requests
<1>2. ASSUME NEW step \in LockedSteps, GoTo(h, step), Inside(h),
             step \notin CaptureSteps,
             step \in OrderSteps => req[h].step \in OrderSteps,
             step = "order.create" => e \in Escrows
      PROVE  Moves(h)
  <2> DEFINE r == [req[h] EXCEPT !.step = step]
  <2>1. r \in Requests /\ r.step = step /\ r.visit = req[h].visit /\ r.escrow = e
    BY <1>1 DEF Requests, Steps
  <2>2. Become(h, r)
    BY <1>2 DEF GoTo, Become, TypeOK
  <2> HIDE DEF r
  <2> QED BY <1>2, <2>1, <2>2, MovesOn DEF CaptureSteps
<1>3. CASE AcquireLock(h)
  <2> DEFINE r == [req[h] EXCEPT !.step = req[h].next]
  <2>1. At(h, "waiting") /\ req[h].next \in {"capture.inspect", "order.check", "refund.check"}
    BY <1>1, <1>3 DEF AcquireLock, At, Scoped
  <2>2. /\ r.step = req[h].next /\ r.visit = req[h].visit /\ r.escrow = e
        /\ Stage(r) = Stage(req[h])
    BY <1>1, <2>1 DEF Requests, Stage, At
  <2>3. Become(h, r)
    BY <1>3 DEF AcquireLock, GoTo, Become, TypeOK
  <2> HIDE DEF r
  <2>4. Scoped(r)
    BY <1>1, <2>1, <2>2 DEF Scoped, At, LockedSteps
  <2>5. Fits(h, r)
    BY <2>1, <2>2, <2>4 DEF Fits
  <2> QED BY <2>3, <2>5, MovesTo
<1>4. CASE \/ GiveUpWaiting(h) \/ ReleaseLock(h) \/ Crash(h) \/ ApplyPaymentEvent(h)
           \/ WriteVisitTag(h)
  BY <1>4, MovesToIdle DEF GiveUpWaiting, ReleaseLock, Crash, ApplyPaymentEvent, WriteVisitTag
<1>5. CASE InspectCapture(h)
  <2>1. CASE Become(h, [req[h] EXCEPT !.step = "capture.siblings", !.seen = escrow[e]])
    <3> DEFINE r == [req[h] EXCEPT !.step = "capture.siblings", !.seen = escrow[e]]
    <3>1. e \in Escrows /\ req[h].step = "capture.inspect"
      BY <1>1, <1>5 DEF InspectCapture, At, Scoped, Stage, CaptureSteps
    <3>2. /\ r \in Requests /\ r.step = "capture.siblings" /\ r.escrow = e
          /\ r.visit = req[h].visit /\ r.seen = escrow[e]
      BY <1>1, <3>1 DEF TypeOK, Requests, Steps, LockedSteps
    <3>3. Become(h, r)
      BY <2>1
    <3> HIDE DEF r
    <3> QED BY <3>1, <3>2, <3>3, MovesOn DEF Inside, LockedSteps, CaptureSteps, OrderSteps
  <2>2. CASE GoTo(h, "release")
    BY <1>2, <1>5, <2>2 DEF InspectCapture, At, Inside, LockedSteps, CaptureSteps, OrderSteps
  <2> QED BY <1>5, <2>1, <2>2 DEF InspectCapture
<1>6. CASE FindWinners(h)
  <2> DEFINE r == [req[h] EXCEPT !.step = "capture.bind",
                     !.won = BoundPayments(req[h].visit) \ {req[h].escrow} # {}]
  <2>1. /\ r.step = "capture.bind" /\ r.escrow = e /\ r.visit = req[h].visit
        /\ r.seen = req[h].seen /\ Stage(r) = "capture.bind"
        /\ ~r.won => BoundPayments(req[h].visit) \subseteq {e}
    BY <1>1 DEF Requests, Stage
  <2>2. Become(h, r)
    BY <1>6 DEF FindWinners
  <2>3. req[h].step = "capture.siblings" /\ Stage(req[h]) = "capture.siblings"
    BY <1>6 DEF FindWinners, At, Stage
  <2> HIDE DEF r
  <2>4. Scoped(r)
    BY <1>1, <2>1, <2>3 DEF Scoped, LockedSteps, CaptureSteps, OrderSteps
  <2>5. Fits(h, r)
    BY <2>1, <2>4 DEF Fits, OrderSteps
  <2> QED BY <2>2, <2>5, MovesTo
<1>7. CASE \/ BindCapture(h) \/ CreateOrder(h) \/ CommitRefund(h) \/ CallGatewayRefund(h)
           \/ CheckRefund(h)
  BY <1>2, <1>7 DEF BindCapture, CreateOrder, CommitRefund, CallGatewayRefund, CheckRefund,
     At, Inside, LockedSteps, CaptureSteps, OrderSteps
<1>8. CASE CheckVisitUnpaid(h)
  BY <1>2, <1>8 DEF CheckVisitUnpaid, At, Inside, LockedSteps, CaptureSteps, OrderSteps
<1>9. CASE AllSuperseded(h)
  BY <1>1, <1>2, <1>9 DEF AllSuperseded, At, Inside, LockedSteps, CaptureSteps, OrderSteps
<1>10. CASE CheckTargetVisit(h)
  BY <1>1, <1>10 DEF CheckTargetVisit, At, Scoped
<1>11. ASSUME NEW todo \in SUBSET Escrows, NEW f \in {e, NoPayment},
              req[h].step \in {"order.list", "order.supersede"},
              Become(h, [req[h] EXCEPT !.step = "order.supersede", !.todo = todo, !.escrow = f])
       PROVE  Moves(h)
  <2> DEFINE r == [req[h] EXCEPT !.step = "order.supersede", !.todo = todo, !.escrow = f]
  <2>1. /\ r \in Requests /\ r.step = "order.supersede" /\ r.visit = req[h].visit
        /\ r.escrow \in {req[h].escrow, NoPayment}
    BY <1>1 DEF Requests, Steps, LockedSteps
  <2>2. Become(h, r)
    BY <1>11
  <2> HIDE DEF r
  <2> QED BY <1>11, <2>1, <2>2, MovesOn DEF Inside, LockedSteps, CaptureSteps, OrderSteps
<1>12. CASE ListUnpaidOrders(h)
  <2>1. UnpaidOrders(req[h].visit) \in SUBSET Escrows
    BY DEF UnpaidOrders, OrdersOf
  <2>2. \A todo : [req[h] EXCEPT !.step = "order.supersede", !.todo = todo]
                   = [req[h] EXCEPT !.step = "order.supersede", !.todo = todo, !.escrow = e]
    BY <1>1 DEF Requests
  <2>3. req[h].step = "order.list"
    BY <1>12 DEF ListUnpaidOrders, At
  <2>4. PICK todo \in SUBSET Escrows, f \in {e, NoPayment} :
          Become(h, [req[h] EXCEPT !.step = "order.supersede", !.todo = todo, !.escrow = f])
    BY <1>12, <2>1, <2>2 DEF ListUnpaidOrders
  <2> QED BY <1>11, <2>3, <2>4
<1>13. CASE SupersedeOrder(h)
  <2>1. PICK f \in Escrows : Become(h, [req[h] EXCEPT !.todo = req[h].todo \ {f}])
    BY <1>1, <1>13 DEF SupersedeOrder, Requests
  <2>2. [req[h] EXCEPT !.todo = req[h].todo \ {f}]
          = [req[h] EXCEPT !.step = "order.supersede", !.todo = req[h].todo \ {f}, !.escrow = e]
    BY <1>1, <1>13 DEF SupersedeOrder, At, Requests
  <2>3. req[h].todo \ {f} \in SUBSET Escrows /\ req[h].step = "order.supersede"
    BY <1>1, <1>13 DEF SupersedeOrder, At, Requests
  <2> QED BY <1>11, <2>1, <2>2, <2>3
<1> QED BY <1>3, <1>4, <1>5, <1>6, <1>7, <1>8, <1>9, <1>10, <1>12, <1>13 DEF Continue

LEMMA RequestStep ==
  ASSUME TypeOK, ScopeInv, ExistInv, Orderly, [Next]_vars
  PROVE  req' = req \/ \E h \in Handlers : Moves(h)
<1>1. CASE \E h \in Handlers : Receive(h)
  BY <1>1, ReceiveMoves
<1>2. CASE \E h \in Handlers : Continue(h) \/ Crash(h)
  BY <1>2, ContinueMoves DEF ExpireLock
<1> QED BY <1>1, <1>2 DEF Next, vars, External, GatewayMoves, PayOut

\* What a step does to row e: a row keeps its visit, a new order is not paid,
\* and only a capture that found the visit unpaid makes a payment bound.
RowFits(e) ==
    /\ escrow[e].visit # NoVisit => escrow'[e].visit = escrow[e].visit
    /\ escrow[e].visit = NoVisit /\ escrow'[e].visit # NoVisit =>
         /\ ~isVisitBoundPayment(escrow'[e])
         /\ \E h \in Handlers : /\ At(h, "order.create") /\ req[h].escrow = e
                               /\ req'[h].step = "release"
    /\ isVisitBoundPayment(escrow'[e]) =>
         \/ isVisitBoundPayment(escrow[e])
         \/ \E h \in Handlers : /\ At(h, "capture.bind") /\ ~req[h].won /\ req[h].escrow = e
                               /\ req'[h].step = "release"
                               /\ \A f \in Escrows \ {e} : escrow'[f] = escrow[f]

LEMMA RowStep ==
  ASSUME TypeOK, ScopeInv, Orderly, [Next]_vars
  PROVE  \A e \in Escrows : RowFits(e)
<1>1. CASE UNCHANGED escrow
  BY <1>1 DEF RowFits
<1>2. ASSUME NEW e \in Escrows, NEW row, escrow' = [escrow EXCEPT ![e] = row]
      PROVE  /\ escrow'[e] = row
             /\ \A f \in Escrows \ {e} : escrow'[f] = escrow[f] /\ RowFits(f)
  <2>1. escrow'[e] = row /\ \A f \in Escrows \ {e} : escrow'[f] = escrow[f]
    BY <1>2 DEF TypeOK
  <2> QED BY <2>1 DEF RowFits
<1>3. ASSUME NEW e \in Escrows, NEW row, escrow' = [escrow EXCEPT ![e] = row],
             row.visit = escrow[e].visit,
             isVisitBoundPayment(row) => isVisitBoundPayment(escrow[e])
      PROVE  \A f \in Escrows : RowFits(f)
  <2>1. escrow'[e] = row
    BY <1>2, <1>3
  <2>2. RowFits(e)
    BY <1>3, <2>1 DEF RowFits
  <2> QED BY <1>2, <1>3, <2>2
<1>4. ASSUME NEW e \in Escrows, NEW status \in EscrowStatuses,
             NEW row \in Rows, row.status = status, row.visit = escrow[e].visit,
             status \notin {"held", "released"}, escrow' = [escrow EXCEPT ![e] = row]
      PROVE  \A f \in Escrows : RowFits(f)
  <2>1. ~isVisitBoundPayment(row)
    BY <1>4 DEF isVisitBoundPayment
  <2> QED BY <1>3, <1>4, <2>1
<1>5. ASSUME NEW e \in Escrows, PayOut(e)
      PROVE  \A f \in Escrows : RowFits(f)
  <2> DEFINE row == [escrow[e] EXCEPT !.status = "released"]
  <2>1. escrow' = [escrow EXCEPT ![e] = row]
    BY <1>5 DEF PayOut
  <2>2. /\ row.visit = escrow[e].visit /\ row.status = "released"
        /\ row.paymentStatus = escrow[e].paymentStatus /\ escrow[e].status = "held"
    BY <1>5 DEF PayOut, TypeOK, Rows
  <2> HIDE DEF row
  <2>3. isVisitBoundPayment(row) => isVisitBoundPayment(escrow[e])
    BY <2>2 DEF isVisitBoundPayment, isEscrowPaidRecord
  <2> QED BY <1>3, <2>1, <2>2, <2>3
<1>6. ASSUME NEW h \in Handlers, Continue(h), ~(UNCHANGED escrow)
      PROVE  \A f \in Escrows : RowFits(f)
  <2> DEFINE e == req[h].escrow
  <2>0. req[h] \in Requests /\ Scoped(req[h]) /\ escrow \in [Escrows -> Rows]
    BY DEF TypeOK, ScopeInv
  <2>1. CASE BindCapture(h)
    <3> DEFINE row == CaptureUpdate(e, req[h])
    <3>1. At(h, "capture.bind") /\ escrow' = [escrow EXCEPT ![e] = row] /\ req'[h].step = "release"
      BY <1>6, <2>1 DEF BindCapture, GoTo, TypeOK, Requests
    <3>2. e \in Escrows /\ escrow[e].visit = req[h].seen.visit
      BY <2>0, <3>1 DEF At, Scoped, Stage, CaptureSteps
    <3>3. row.visit = escrow[e].visit /\ (isVisitBoundPayment(row) => ~req[h].won)
      BY <2>0, <3>2, CaptureUpdateTyped
    <3> HIDE DEF row
    <3>4. RowFits(e)
      BY <1>2, <3>1, <3>2, <3>3 DEF RowFits
    <3> QED BY <1>2, <3>1, <3>2, <3>4
  <2>2. CASE SupersedeOrder(h)
    <3>1. PICK f \in Escrows :
            escrow' = [escrow EXCEPT ![f] = [escrow[f] EXCEPT !.status = "cancelled"]]
      BY <1>6, <2>0, <2>2 DEF SupersedeOrder, Requests
    <3> DEFINE row == [escrow[f] EXCEPT !.status = "cancelled"]
    <3>2. row \in Rows /\ row.status = "cancelled" /\ row.visit = escrow[f].visit
      BY <2>0 DEF Rows, EscrowStatuses
    <3>3. "cancelled" \in EscrowStatuses
      BY DEF EscrowStatuses
    <3> HIDE DEF row
    <3> QED BY <1>4, <3>1, <3>2, <3>3 DEF row
  <2>3. CASE CreateOrder(h)
    <3> DEFINE row == [NoRow EXCEPT !.visit = req[h].visit]
    <3>1. At(h, "order.create") /\ escrow' = [escrow EXCEPT ![e] = row] /\ req'[h].step = "release"
      BY <2>0, <2>3 DEF CreateOrder, GoTo, TypeOK, Requests
    <3>2. e \in Escrows /\ escrow[e].visit = NoVisit
      BY <2>0, <3>1 DEF At, Scoped, Stage, OrderSteps
    <3>3. ~isVisitBoundPayment(row)
      BY DEF NoRow, isVisitBoundPayment
    <3> HIDE DEF row
    <3>4. RowFits(e)
      BY <1>2, <3>1, <3>2, <3>3 DEF RowFits
    <3> QED BY <1>2, <3>1, <3>2, <3>4
  <2>4. CASE CommitRefund(h)
    <3> DEFINE row == [escrow[e] EXCEPT !.status = "refunded", !.paymentId = e]
    <3>1. e \in Escrows /\ escrow' = [escrow EXCEPT ![e] = row]
      BY <1>6, <2>0, <2>4 DEF CommitRefund
    <3>2. row \in Rows /\ row.status = "refunded" /\ row.visit = escrow[e].visit
      BY <2>0, <3>1 DEF Rows, EscrowStatuses
    <3>3. "refunded" \in EscrowStatuses
      BY DEF EscrowStatuses
    <3> HIDE DEF row
    <3> QED BY <1>4, <3>1, <3>2, <3>3
  <2>5. CASE ApplyPaymentEvent(h)
    <3> DEFINE row == PaymentUpdate(escrow[e], req[h].event, e)
    <3>1. /\ e \in Escrows /\ escrow' = [escrow EXCEPT ![e] = row]
          /\ SameState(escrow[e], req[h].seen)
      BY <1>6, <2>0, <2>5 DEF ApplyPaymentEvent
    <3>2. req[h].event # "captured" /\ ~Settled(req[h].seen)
      BY <2>0, <2>5 DEF ApplyPaymentEvent, At, Scoped
    <3>3. row.status \in {escrow[e].status, "cancelled"} /\ row.visit = escrow[e].visit
      BY <2>0, <3>1, <3>2 DEF PaymentUpdate, Rows
    <3>4. escrow[e].status \notin {"held", "released"}
      BY <3>1, <3>2 DEF SameState, Settled
    <3>5. ~isVisitBoundPayment(row)
      BY <3>3, <3>4 DEF isVisitBoundPayment
    <3> HIDE DEF row
    <3> QED BY <1>3, <3>1, <3>3, <3>5
  <2>6. CASE WriteVisitTag(h)
    BY <2>0, <2>6 DEF WriteVisitTag, At, Scoped
  <2> QED BY <1>6, <2>1, <2>2, <2>3, <2>4, <2>5, <2>6 DEF Continue, AcquireLock, ExpireLock,
      GiveUpWaiting, ReleaseLock, InspectCapture, FindWinners, CheckVisitUnpaid,
      ListUnpaidOrders, AllSuperseded, CheckRefund, CallGatewayRefund, CheckTargetVisit
<1>7. ASSUME NEW h \in Handlers, Receive(h)
      PROVE  UNCHANGED escrow
  BY <1>7 DEF Receive, BeginCapture, BeginOrder, BeginRefund, ReceivePaymentEvent, BeginReassign
<1> QED BY <1>1, <1>5, <1>6, <1>7 DEF Next, vars, External, GatewayMoves, Crash

\* A lock row changes hands only when it is free, abandoned or the holder's own.
LEMMA LockStep ==
  ASSUME TypeOK, ScopeInv, LockInv, Orderly, [Next]_vars
  PROVE  LockInv'
<1>1. SUFFICES ASSUME NEW g \in Handlers, Inside(g)'
               PROVE  lock'[req'[g].visit] = g
  BY DEF LockInv, Inside
<1>2. Inside(g) => lock[req[g].visit] = g /\ req[g].visit \in Visits
  BY DEF LockInv, ScopeInv, Scoped, Inside
<1>3. g # Free /\ g # Dead
  BY VisitAssumption
<1>4. ASSUME Inside(g), req'[g].visit = req[g].visit, lock' = lock
      PROVE  lock'[req'[g].visit] = g
  BY <1>2, <1>4
<1>5. CASE UNCHANGED <<lock, req>>
  BY <1>1, <1>4, <1>5 DEF Inside
<1>6. ASSUME NEW h \in Handlers, Receive(h)
      PROVE  lock'[req'[g].visit] = g
  <2> DEFINE To == /\ \A k \in Handlers \ {h} : req'[k] = req[k]
                   /\ req'[h].step \in {"waiting", "event.apply"}
  <2>1. ASSUME NEW r, Become(h, r), r.step \in {"waiting", "event.apply"}
        PROVE  To
    BY <2>1 DEF Become, TypeOK
  <2>2. ASSUME NEW e, NEW next, NEW v, WaitForLock(h, v, [Idle EXCEPT !.escrow = e, !.next = next])
        PROVE  To
    <3> DEFINE r == [[Idle EXCEPT !.escrow = e, !.next = next]
                       EXCEPT !.step = "waiting", !.visit = v]
    <3>1. Become(h, r) /\ r.step = "waiting"
      BY <2>2 DEF WaitForLock, Idle
    <3> HIDE DEF r
    <3> QED BY <2>1, <3>1
  <2>3. ASSUME NEW e, NEW event, ReceivePaymentEvent(h, e, event)
        PROVE  To
    <3> DEFINE r == [Idle EXCEPT !.step = "event.apply", !.escrow = e,
                                 !.seen = escrow[e], !.event = event]
    <3>1. Become(h, r) /\ r.step = "event.apply"
      BY <2>3 DEF ReceivePaymentEvent, Idle
    <3> HIDE DEF r
    <3> QED BY <2>1, <3>1
  <2> HIDE DEF To
  <2>4. To
    BY <1>6, <2>2, <2>3 DEF Receive, BeginCapture, BeginOrder, BeginRefund, BeginReassign,
       Begin, Orderly
  <2> USE DEF To
  <2>5. lock' = lock
    BY <1>6 DEF Receive, BeginCapture, BeginOrder, BeginRefund, ReceivePaymentEvent,
       BeginReassign
  <2> QED BY <1>1, <1>4, <2>4, <2>5 DEF Inside, LockedSteps
<1>7. ASSUME NEW h \in Handlers, Continue(h) \/ Crash(h)
      PROVE  lock'[req'[g].visit] = g
  <2>1. ASSUME Become(h, Idle)
        PROVE  g # h /\ req'[g] = req[g] /\ Inside(g)
    BY <1>1, <2>1 DEF Become, TypeOK, Inside, Idle, LockedSteps
  <2>2. CASE AcquireLock(h)
    <3>1. /\ req[h].visit \in Visits /\ lock[req[h].visit] = Free
          /\ lock' = [lock EXCEPT ![req[h].visit] = h]
          /\ req'[h].visit = req[h].visit
          /\ \A k \in Handlers \ {h} : req'[k] = req[k]
      BY <2>2 DEF AcquireLock, At, GoTo, TypeOK, Requests, ScopeInv, Scoped
    <3>2. CASE g = h
      BY <3>1, <3>2 DEF TypeOK
    <3>3. CASE g # h
      <4>1. req'[g] = req[g] /\ Inside(g)
        BY <1>1, <3>1, <3>3 DEF Inside
      <4> QED BY <1>2, <1>3, <3>1, <4>1 DEF TypeOK
    <3> QED BY <3>2, <3>3
  <2>3. CASE ExpireLock(h)
    <3>1. lock[req[h].visit] = Dead /\ lock' = [lock EXCEPT ![req[h].visit] = Free] /\ req' = req
      BY <2>3 DEF ExpireLock, Orderly
    <3> QED BY <1>1, <1>2, <1>3, <3>1 DEF TypeOK, Inside
  <2>4. CASE ReleaseLock(h)
    <3>1. g # h /\ req'[g] = req[g] /\ Inside(g)
      BY <2>1, <2>4 DEF ReleaseLock
    <3>2. lock' = IF lock[req[h].visit] = h
                  THEN [lock EXCEPT ![req[h].visit] = Free] ELSE lock
      BY <2>4 DEF ReleaseLock
    <3> QED BY <1>2, <3>1, <3>2 DEF TypeOK
  <2>5. CASE Crash(h)
    <3>1. g # h /\ req'[g] = req[g] /\ Inside(g)
      BY <2>1, <2>5 DEF Crash
    <3> QED BY <1>2, <2>5, <3>1 DEF Crash
  <2>6. CASE GiveUpWaiting(h) \/ ApplyPaymentEvent(h) \/ WriteVisitTag(h) \/ CheckTargetVisit(h)
    <3>1. ~CheckTargetVisit(h) /\ Become(h, Idle) /\ lock' = lock
      BY <2>6 DEF GiveUpWaiting, ApplyPaymentEvent, WriteVisitTag, CheckTargetVisit, At,
         ScopeInv, Scoped
    <3> QED BY <1>4, <2>1, <3>1
  <2>7. ASSUME Inside(h), lock' = lock,
               NEW r, r.visit = req[h].visit, Become(h, r)
        PROVE  lock'[req'[g].visit] = g
    <3>1. req'[h] = r /\ \A k \in Handlers \ {h} : req'[k] = req[k]
      BY <2>7 DEF Become, TypeOK
    <3> QED BY <1>1, <1>4, <2>7, <3>1 DEF Inside
  <2>8. ASSUME NEW step, Inside(h), lock' = lock, GoTo(h, step)
        PROVE  lock'[req'[g].visit] = g
    <3>1. Become(h, [req[h] EXCEPT !.step = step])
      BY <2>8 DEF GoTo, Become, TypeOK
    <3>2. [req[h] EXCEPT !.step = step].visit = req[h].visit
      BY DEF TypeOK, Requests
    <3> QED BY <2>7, <2>8, <3>1, <3>2
  <2>9. CASE InspectCapture(h) \/ FindWinners(h) \/ ListUnpaidOrders(h) \/ SupersedeOrder(h)
    <3>1. Inside(h) /\ lock' = lock
      BY <2>9 DEF InspectCapture, FindWinners, ListUnpaidOrders, SupersedeOrder, At, Inside,
         LockedSteps
    <3>2. GoTo(h, "release") \/ \E r : r.visit = req[h].visit /\ Become(h, r)
      <4>1. req[h] \in Requests
        BY DEF TypeOK
      <4>2. /\ [req[h] EXCEPT !.step = "capture.siblings", !.seen = escrow[req[h].escrow]].visit
                  = req[h].visit
            /\ [req[h] EXCEPT !.step = "capture.bind",
                  !.won = BoundPayments(req[h].visit) \ {req[h].escrow} # {}].visit
                  = req[h].visit
            /\ \A todo : [req[h] EXCEPT !.step = "order.supersede", !.todo = todo].visit
                  = req[h].visit
            /\ \A todo : [req[h] EXCEPT !.step = "order.supersede", !.todo = todo,
                                       !.escrow = NoPayment].visit = req[h].visit
            /\ \A f : [req[h] EXCEPT !.todo = req[h].todo \ {f}].visit = req[h].visit
        BY <4>1 DEF Requests
      <4>3. CASE InspectCapture(h)
        BY <4>2, <4>3 DEF InspectCapture
      <4>4. CASE FindWinners(h)
        BY <4>2, <4>4 DEF FindWinners
      <4>5. CASE ListUnpaidOrders(h)
        BY <4>2, <4>5 DEF ListUnpaidOrders
      <4>6. CASE SupersedeOrder(h)
        BY <4>2, <4>6 DEF SupersedeOrder
      <4> QED BY <2>9, <4>3, <4>4, <4>5, <4>6
    <3> QED BY <2>7, <2>8, <3>1, <3>2
  <2>10. CASE \/ BindCapture(h) \/ CheckVisitUnpaid(h) \/ AllSuperseded(h) \/ CreateOrder(h)
              \/ CheckRefund(h) \/ CallGatewayRefund(h) \/ CommitRefund(h)
    BY <2>8, <2>10 DEF BindCapture, CheckVisitUnpaid, AllSuperseded, CreateOrder, CheckRefund,
       CallGatewayRefund, CommitRefund, At, Inside, LockedSteps
  <2> QED BY <1>7, <2>2, <2>3, <2>4, <2>5, <2>6, <2>9, <2>10 DEF Continue
<1> QED BY <1>5, <1>6, <1>7 DEF Next, vars, External, GatewayMoves, PayOut

LEMMA ExistStep ==
  ASSUME TypeOK, ExistInv, [Next]_vars,
         \A e \in Escrows : escrow[e].visit # NoVisit => escrow'[e].visit # NoVisit
  PROVE  ExistInv'
<1>1. SUFFICES ASSUME NEW e \in Escrows, gateway'[e] # "created"
               PROVE  escrow[e].visit # NoVisit
  BY DEF ExistInv
<1>2. CASE gateway'[e] = gateway[e]
  BY <1>1, <1>2 DEF ExistInv
<1>3. CASE External
  BY <1>2, <1>3 DEF External, GatewayMoves, TypeOK
<1>4. ASSUME NEW h \in Handlers, CallGatewayRefund(h)
      PROVE  escrow[e].visit # NoVisit
  BY <1>2, <1>4 DEF CallGatewayRefund, TypeOK, ExistInv
<1>5. CASE ~External /\ ~(\E h \in Handlers : CallGatewayRefund(h))
  <2>1. UNCHANGED gateway
    <3>1. CASE \/ \E f \in Escrows : PayOut(f)
               \/ \E h \in Handlers : Crash(h)
               \/ UNCHANGED vars
      BY <3>1 DEF PayOut, Crash, vars
    <3>2. CASE \E h \in Handlers : Receive(h)
      BY <3>2 DEF Receive, BeginCapture, BeginOrder, BeginRefund, ReceivePaymentEvent, BeginReassign
    <3>3. CASE \E h \in Handlers :
                 \/ AcquireLock(h) \/ ExpireLock(h) \/ GiveUpWaiting(h) \/ ReleaseLock(h)
                 \/ InspectCapture(h) \/ FindWinners(h) \/ BindCapture(h)
                 \/ ApplyPaymentEvent(h) \/ CheckTargetVisit(h) \/ WriteVisitTag(h)
      BY <3>3 DEF AcquireLock, ExpireLock, GiveUpWaiting, ReleaseLock, InspectCapture,
         FindWinners, BindCapture, ApplyPaymentEvent, CheckTargetVisit, WriteVisitTag
    <3>4. CASE \E h \in Handlers :
                 \/ CheckVisitUnpaid(h) \/ ListUnpaidOrders(h) \/ SupersedeOrder(h)
                 \/ AllSuperseded(h) \/ CreateOrder(h) \/ CheckRefund(h) \/ CommitRefund(h)
      BY <3>4 DEF CheckVisitUnpaid, ListUnpaidOrders, SupersedeOrder, AllSuperseded,
         CreateOrder, CheckRefund, CommitRefund
    <3> QED BY <1>5, <3>1, <3>2, <3>3, <3>4 DEF Next, Continue
  <2> QED BY <1>2, <2>1
<1> QED BY <1>3, <1>4, <1>5

LEMMA ScopeStep ==
  ASSUME TypeOK, ScopeInv, OwnInv, req' = req \/ \E h \in Handlers : Moves(h),
         \A e \in Escrows : RowFits(e)
  PROVE  ScopeInv'
<1>1. SUFFICES ASSUME NEW g \in Handlers
               PROVE  Scoped(req[g])'
  BY DEF ScopeInv
<1> DEFINE r == req'[g]
<1>2. Scoped(r)
  BY DEF ScopeInv, Moves, Fits
<1>3. Stage(r) \in CaptureSteps => r.escrow \in Escrows /\ escrow'[r.escrow].visit = r.visit
  <2>1. SUFFICES ASSUME Stage(r) \in CaptureSteps
                 PROVE  r.escrow \in Escrows /\ escrow'[r.escrow].visit = r.visit
    OBVIOUS
  <2>2. r.step \in LockedSteps \cup {"waiting"}
    BY <2>1 DEF Stage, CaptureSteps, LockedSteps
  <2>3. r.escrow \in Escrows /\ escrow[r.escrow].visit = r.visit /\ r.visit # NoVisit
    BY <1>2, <2>1, <2>2, VisitAssumption DEF Scoped
  <2> QED BY <2>3 DEF RowFits
<1>4. Stage(r) \in OrderSteps /\ r.escrow \in Escrows => escrow'[r.escrow].visit = NoVisit
  <2>1. SUFFICES ASSUME Stage(r) \in OrderSteps, r.escrow \in Escrows,
                        escrow'[r.escrow].visit # NoVisit
                 PROVE  FALSE
    OBVIOUS
  <2>2. escrow[r.escrow].visit = NoVisit
    BY <1>2, <2>1 DEF Scoped
  <2>3. PICK h \in Handlers : /\ At(h, "order.create") /\ req[h].escrow = r.escrow
                              /\ req'[h].step = "release"
    BY <2>1, <2>2 DEF RowFits
  <2>4. h # g
    BY <2>1, <2>3 DEF Stage, OrderSteps
  <2>5. req'[g] = req[g]
    BY <2>3, <2>4 DEF Moves, At
  <2> QED BY <2>1, <2>3, <2>4, <2>5 DEF OwnInv, Stage, At, OrderSteps
<1> QED BY <1>2, <1>3, <1>4 DEF Scoped, Stage

LEMMA OwnStep ==
  ASSUME TypeOK, OwnInv, req' = req \/ \E h \in Handlers : Moves(h)
  PROVE  OwnInv'
<1>1. CASE req' = req
  BY <1>1 DEF OwnInv
<1>2. ASSUME NEW h \in Handlers, Moves(h)
      PROVE  OwnInv'
  <2>1. SUFFICES ASSUME NEW g \in Handlers, NEW k \in Handlers, g # k,
                        Stage(req'[k]) \in OrderSteps, req'[k].escrow \in Escrows
                 PROVE  req'[g].escrow # req'[k].escrow
    BY DEF OwnInv, Stage
  <2>2. CASE k = h
    BY <1>2, <2>1, <2>2 DEF Moves, Fits, OwnInv
  <2>3. CASE g = h
    BY <1>2, <2>1, <2>3, VisitAssumption DEF Moves, Fits, OwnInv
  <2>4. CASE k # h /\ g # h
    BY <1>2, <2>1, <2>4 DEF Moves, OwnInv
  <2> QED BY <2>2, <2>3, <2>4
<1> QED BY <1>1, <1>2

\* A payment that was bound to its visit before, or has just been bound by the
\* only request working on that visit.
LEMMA BoundStep ==
  ASSUME TypeOK, ScopeInv, LockInv, WonInv, NEW v \in Visits, NEW e \in Escrows,
         \A f \in Escrows : RowFits(f), escrow'[e].visit = v, isVisitBoundPayment(escrow'[e])
  PROVE  \/ e \in BoundPayments(v)
         \/ \E h \in Handlers : /\ At(h, "capture.bind") /\ req[h].visit = v
                               /\ req'[h].step = "release"
                               /\ BoundPayments(v) \subseteq {e}
                               /\ \A f \in Escrows \ {e} : escrow'[f] = escrow[f]
<1>1. escrow[e].visit = v
  BY VisitAssumption DEF RowFits
<1>2. CASE isVisitBoundPayment(escrow[e])
  BY <1>1, <1>2 DEF BoundPayments, OrdersOf
<1>3. CASE ~isVisitBoundPayment(escrow[e])
  <2>1. PICK h \in Handlers : /\ At(h, "capture.bind") /\ ~req[h].won /\ req[h].escrow = e
                              /\ req'[h].step = "release"
                              /\ \A f \in Escrows \ {e} : escrow'[f] = escrow[f]
    BY <1>3 DEF RowFits
  <2>2. Stage(req[h]) = "capture.bind"
    BY <2>1 DEF At, Stage
  <2>3. req[h].visit = v
    BY <1>1, <2>1, <2>2 DEF ScopeInv, Scoped, CaptureSteps
  <2> QED BY <2>1, <2>3 DEF WonInv
<1> QED BY <1>2, <1>3

LEMMA OneStep ==
  ASSUME TypeOK, ScopeInv, LockInv, WonInv, OneBoundPayment, \A e \in Escrows : RowFits(e)
  PROVE  OneBoundPayment'
<1>1. SUFFICES ASSUME NEW v \in Visits, NEW e \in BoundPayments(v)', NEW f \in BoundPayments(v)'
               PROVE  e = f
  BY DEF OneBoundPayment
<1>2. /\ e \in Escrows /\ escrow'[e].visit = v /\ isVisitBoundPayment(escrow'[e])
      /\ f \in Escrows /\ escrow'[f].visit = v /\ isVisitBoundPayment(escrow'[f])
  BY DEF BoundPayments, OrdersOf, isVisitBoundPayment, isEscrowPaidRecord
<1>3. CASE e \in BoundPayments(v) /\ f \in BoundPayments(v)
  BY <1>3 DEF OneBoundPayment
<1>4. ASSUME NEW a \in Escrows, NEW b \in Escrows, a \notin BoundPayments(v),
             escrow'[a].visit = v, isVisitBoundPayment(escrow'[a]),
             escrow'[b].visit = v, isVisitBoundPayment(escrow'[b])
      PROVE  a = b
  <2>1. BoundPayments(v) \subseteq {a} /\ \A c \in Escrows \ {a} : escrow'[c] = escrow[c]
    BY <1>4, BoundStep
  <2>2. a # b => b \in BoundPayments(v)
    BY <1>4, <2>1 DEF BoundPayments, OrdersOf
  <2> QED BY <2>1, <2>2
<1> QED BY <1>2, <1>3, <1>4

LEMMA WonStep ==
  ASSUME TypeOK, ScopeInv, LockInv, WonInv, LockInv', ScopeInv', TypeOK',
         UNCHANGED req \/ \E h \in Handlers : Moves(h), \A e \in Escrows : RowFits(e)
  PROVE  WonInv'
<1>1. SUFFICES ASSUME NEW g \in Handlers, req'[g].step = "capture.bind", ~req'[g].won,
                      NEW e \in BoundPayments(req[g].visit)'
               PROVE  e = req'[g].escrow
  BY DEF WonInv, At
<1> DEFINE v == req'[g].visit
<1>2. v \in Visits
  BY <1>1 DEF ScopeInv, Scoped, LockedSteps
<1>3. /\ e \in Escrows /\ escrow'[e].visit = v /\ isVisitBoundPayment(escrow'[e])
  BY DEF BoundPayments, OrdersOf, isVisitBoundPayment, isEscrowPaidRecord
<1>4. BoundPayments(v) \subseteq {req'[g].escrow}
  <2>1. CASE req'[g] = req[g]
    BY <1>1, <2>1 DEF WonInv, At
  <2>2. CASE req'[g] # req[g]
    <3>1. Moves(g)
      BY <2>2 DEF Moves
    <3> QED BY <1>1, <3>1 DEF Moves, Fits
  <2> QED BY <2>1, <2>2
<1>5. CASE e \in BoundPayments(v)
  BY <1>4, <1>5
<1>6. CASE e \notin BoundPayments(v)
  <2>1. PICK h \in Handlers : At(h, "capture.bind") /\ req[h].visit = v /\ req'[h].step = "release"
    BY <1>2, <1>3, <1>6, BoundStep
  <2>2. Inside(h) /\ Inside(h)' /\ Inside(g)'
    BY <1>1, <2>1 DEF Inside, At, LockedSteps
  <2>3. g # h /\ req'[g] = req[g]
    BY <1>1, <2>1 DEF Moves, At
  <2>4. Inside(g) /\ req[g].visit = v
    BY <2>2, <2>3 DEF Inside
  <2>5. lock[v] = g /\ lock[v] = h
    BY <2>1, <2>2, <2>4 DEF LockInv
  <2> QED BY <2>3, <2>5
<1> QED BY <1>5, <1>6

LEMMA VisitInit == Init => VInv /\ TInv
<1>1. SUFFICES ASSUME Init
               PROVE  VInv
  BY TypeInit
<1>2. TypeOK
  BY <1>1, TypeInit DEF TInv
<1>3. \A h \in Handlers : req[h] = Idle /\ Stage(Idle) = "idle"
  BY <1>1 DEF Init, Stage, Idle
<1>4. \A e \in Escrows : escrow[e] = NoRow /\ gateway[e] = "created"
  BY <1>1 DEF Init
<1>5. ScopeInv /\ LockInv /\ OwnInv /\ WonInv
  BY <1>3 DEF ScopeInv, Scoped, LockInv, OwnInv, WonInv, Idle, Inside, At, LockedSteps,
     CaptureSteps, OrderSteps
<1>6. ExistInv /\ OneBoundPayment
  BY <1>4 DEF ExistInv, OneBoundPayment, BoundPayments, OrdersOf, isVisitBoundPayment, NoRow
<1> QED BY <1>2, <1>5, <1>6 DEF VInv

LEMMA VisitStep == ASSUME Orderly PROVE VInv /\ TInv /\ [Next]_vars => VInv' /\ TInv'
<1>1. SUFFICES ASSUME VInv, TInv, [Next]_vars
               PROVE  VInv' /\ TInv'
  OBVIOUS
<1>2. TInv' /\ TypeOK'
  BY <1>1, TypeStep DEF TInv
<1>3. /\ req' = req \/ \E h \in Handlers : Moves(h)
      /\ \A e \in Escrows : RowFits(e)
  BY <1>1, RequestStep, RowStep DEF VInv
<1>6. \A e \in Escrows : escrow[e].visit # NoVisit => escrow'[e].visit # NoVisit
  BY <1>3 DEF RowFits
<1>4. LockInv' /\ ExistInv' /\ ScopeInv' /\ OwnInv' /\ OneBoundPayment'
  BY <1>1, <1>3, <1>6, LockStep, ExistStep, ScopeStep, OwnStep, OneStep DEF VInv
<1>5. WonInv'
  BY <1>1, <1>2, <1>3, <1>4, WonStep DEF VInv
<1> QED BY <1>2, <1>4, <1>5 DEF VInv

\* "A recurring visit has at most one bound payment" (bindRecurringVisitCapture),
\* for any number of orders and requests, when no lock expires under a live
\* holder and no payment is moved to another visit.
THEOREM BoundOnce ==
  ASSUME "lockExpiry" \notin Faults, "reassign" \notin Operations
  PROVE  Spec => []OneBoundPayment
<1>1. Orderly
  BY DEF Orderly
<1>2. VInv => OneBoundPayment
  BY DEF VInv
<1>3. VInv /\ TInv /\ [Next]_vars => VInv' /\ TInv'
  BY <1>1, VisitStep
<1> QED BY <1>2, <1>3, VisitInit, PTL DEF Spec

-----------------------------------------------------------------------------
(* Orders and payments of a visit kept apart                               *)

RefundSteps == {"refund.check", "refund.call", "refund.commit"}

\* A row that is held is captured; a captured one is held, paid out, refunded
\* or a rejected duplicate; an order that does not exist has no data.
RowWell(row) ==
    /\ row.status \in {"held", "released"} => row.paymentStatus = "captured"
    /\ row.paymentStatus = "captured" =>
          \/ row.status \in {"held", "released", "refunded"}
          \/ row.status = "cancelled" /\ row.duplicate
    /\ row.duplicate => row.paymentStatus = "captured"
    /\ row.visit = NoVisit => row = NoRow

\* What a request found out about its visit is still so.
Kept(r) ==
    /\ Stage(r) \in RefundSteps =>
         r.escrow \in Escrows /\ escrow[r.escrow].visit = r.visit
    /\ r.step \in {"capture.siblings", "capture.bind"} => ~Settled(r.seen)
    /\ r.step = "capture.bind" /\ r.won => BoundPayments(r.visit) \ {r.escrow} # {}
    /\ r.step \in {"order.list", "order.supersede", "order.create"}
         /\ "readError" \notin Faults => BoundPayments(r.visit) = {}
    /\ r.step = "order.supersede" => r.todo \subseteq OrdersOf(r.visit)
    /\ r.step = "order.supersede" /\ r.escrow # NoPayment =>
         UnpaidOrders(r.visit) \subseteq r.todo
    /\ r.step = "order.create" => UnpaidOrders(r.visit) = {}
    /\ r.step = "event.apply" =>
         r.escrow \in Escrows /\ escrow[r.escrow].visit # NoVisit

RowsInv   == \A e \in Escrows : RowWell(escrow[e])

KeptAt(h) == Kept(req[h])
KeptInv   == \A h \in Handlers : KeptAt(h)

AInv == VInv /\ TInv /\ RowsInv /\ KeptInv /\ OneActiveOrder


\* Who writes which row, and when.
Only(e) == e \in Escrows /\ \A f \in Escrows \ {e} : escrow'[f] = escrow[f]

\* The request at a step is done with it.
Ends(h, step) == h \in Handlers /\ At(h, step) /\ req'[h].step = "release"

Created(h, e) == /\ Only(e) /\ Ends(h, "order.create") /\ req[h].escrow = e
                 /\ escrow[e].visit = NoVisit
                 /\ escrow'[e] = [NoRow EXCEPT !.visit = req[h].visit]

Captured(h, e) == /\ Only(e) /\ Ends(h, "capture.bind") /\ req[h].escrow = e
                  /\ escrow[e].visit = req[h].visit
                  /\ ~Settled(escrow[e])
                  /\ escrow'[e] = CaptureUpdate(e, req[h])

Refunded(h, e) == /\ Only(e) /\ Ends(h, "refund.commit") /\ req[h].escrow = e
                  /\ escrow[e].visit = req[h].visit
                  /\ escrow'[e] = [escrow[e] EXCEPT !.status = "refunded", !.paymentId = e]

Applied(e) == /\ Only(e) /\ escrow[e].visit # NoVisit
              /\ ~Settled(escrow[e])
              /\ \E event \in {"authorized", "failed"} :
                   escrow'[e] = PaymentUpdate(escrow[e], event, e)

PaidOut(e) == /\ Only(e) /\ escrow[e].status = "held"
              /\ escrow'[e] = [escrow[e] EXCEPT !.status = "released"]

Superseded(e) == /\ Only(e) /\ escrow[e].visit # NoVisit
                 /\ Unpaid(escrow[e])
                 /\ escrow'[e] = [escrow[e] EXCEPT !.status = "cancelled"]

Written(e) == \/ \E h \in Handlers : Created(h, e) \/ Captured(h, e) \/ Refunded(h, e)
              \/ Applied(e) \/ PaidOut(e) \/ Superseded(e)

\* A step writes one row at most, and in one of these ways.
LEMMA WriteStep ==
  ASSUME TypeOK, ScopeInv, KeptInv, Orderly, [Next]_vars
  PROVE  UNCHANGED escrow \/ \E e \in Escrows : Written(e)
<1>1. ASSUME NEW e \in Escrows, NEW row, escrow' = [escrow EXCEPT ![e] = row]
      PROVE  escrow'[e] = row /\ Only(e)
  BY <1>1 DEF TypeOK, Only
<1>2. ASSUME NEW e \in Escrows, PayOut(e)
      PROVE  Written(e)
  <2>1. escrow' = [escrow EXCEPT ![e] = [escrow[e] EXCEPT !.status = "released"]]
    BY <1>2 DEF PayOut
  <2>2. PaidOut(e)
    BY <1>1, <1>2, <2>1 DEF PayOut, PaidOut
  <2> QED BY <2>2 DEF Written
<1>3. ASSUME NEW h \in Handlers, Continue(h), ~(UNCHANGED escrow)
      PROVE  \E e \in Escrows : Written(e)
  <2> DEFINE r == req[h]
             e == req[h].escrow
  <2>0. r \in Requests /\ Scoped(r) /\ Kept(r) /\ escrow \in [Escrows -> Rows]
    BY DEF TypeOK, ScopeInv, KeptInv, KeptAt
  <2>1. CASE BindCapture(h)
    <3>1. /\ At(h, "capture.bind") /\ req'[h].step = "release"
          /\ escrow' = [escrow EXCEPT ![e] = CaptureUpdate(e, r)]
          /\ SameState(escrow[e], r.seen)
      BY <1>3, <2>0, <2>1 DEF BindCapture, GoTo, TypeOK, Requests
    <3>2. e \in Escrows /\ escrow[e].visit = r.visit
      BY <2>0, <3>1 DEF At, Scoped, Stage, CaptureSteps
    <3>3. ~Settled(escrow[e])
      BY <2>0, <3>1 DEF At, KeptAt, Kept, SameState, Settled
    <3>4. escrow'[e] = CaptureUpdate(e, r) /\ Only(e)
      <4>1. PICK row : row = CaptureUpdate(e, r)
        OBVIOUS
      <4>2. escrow' = [escrow EXCEPT ![e] = row]
        BY <3>1, <4>1
      <4> QED BY <1>1, <3>2, <4>1, <4>2
    <3>5. Ends(h, "capture.bind")
      BY <1>3, <3>1 DEF Ends
    <3>6. Captured(h, e)
      BY <3>2, <3>3, <3>4, <3>5 DEF Captured
    <3> QED BY <3>2, <3>6 DEF Written
  <2>2. CASE SupersedeOrder(h)
    <3>1. PICK f \in r.todo : escrow' = IF Unpaid(escrow[f])
                      THEN [escrow EXCEPT ![f].status = "cancelled"] ELSE escrow
      BY <2>2 DEF SupersedeOrder
    <3>2. f \in Escrows
      BY <2>0, <3>1 DEF Requests
    <3>3. Unpaid(escrow[f]) /\ escrow' = [escrow EXCEPT ![f] = [escrow[f] EXCEPT !.status = "cancelled"]]
      BY <1>3, <2>0, <3>1, <3>2
    <3>4. escrow[f].visit = r.visit /\ r.visit \in Visits
      BY <2>0, <2>2, <3>1 DEF SupersedeOrder, At, KeptAt, Kept, OrdersOf, Scoped, LockedSteps
    <3>5. Superseded(f)
      BY <1>1, <3>2, <3>3, <3>4, VisitAssumption DEF Superseded
    <3> QED BY <3>2, <3>5 DEF Written
  <2>3. CASE CreateOrder(h)
    <3>1. /\ At(h, "order.create") /\ req'[h].step = "release"
          /\ escrow' = [escrow EXCEPT ![e] = [NoRow EXCEPT !.visit = r.visit]]
      BY <2>0, <2>3 DEF CreateOrder, GoTo, TypeOK, Requests
    <3>2. e \in Escrows /\ escrow[e].visit = NoVisit
      BY <2>0, <3>1 DEF At, Scoped, Stage, OrderSteps
    <3> DEFINE row == [NoRow EXCEPT !.visit = r.visit]
    <3>a. escrow' = [escrow EXCEPT ![e] = row]
      BY <3>1
    <3> HIDE DEF row
    <3>b. escrow'[e] = row /\ Only(e)
      BY <1>1, <3>a, <3>2
    <3>3. escrow'[e] = [NoRow EXCEPT !.visit = r.visit] /\ Only(e)
      BY <3>b DEF row
    <3>4. Created(h, e)
      BY <3>1, <3>2, <3>3 DEF Created, Ends
    <3> QED BY <3>2, <3>4 DEF Written
  <2>4. CASE CommitRefund(h)
    <3>1. /\ At(h, "refund.commit") /\ req'[h].step = "release"
      BY <2>0, <2>4 DEF CommitRefund, GoTo, TypeOK, Requests
    <3>2. e \in Escrows /\ escrow[e].visit = r.visit
      BY <2>0, <3>1 DEF At, KeptAt, Kept, Stage, RefundSteps
    <3>3. escrow' = [escrow EXCEPT ![e] = [escrow[e] EXCEPT !.status = "refunded", !.paymentId = e]]
      BY <2>0, <2>4, <3>2 DEF CommitRefund
    <3>4. escrow'[e] = [escrow[e] EXCEPT !.status = "refunded", !.paymentId = e] /\ Only(e)
      BY <1>1, <3>2, <3>3
    <3>5. Refunded(h, e)
      BY <3>1, <3>2, <3>4 DEF Refunded, Ends
    <3> QED BY <3>2, <3>5 DEF Written
  <2>5. CASE ApplyPaymentEvent(h)
    <3>1. At(h, "event.apply")
      BY <2>5 DEF ApplyPaymentEvent
    <3>2. e \in Escrows /\ escrow[e].visit # NoVisit
      BY <2>0, <3>1 DEF At, KeptAt, Kept
    <3>3. r.event \in {"authorized", "failed"} /\ ~Settled(r.seen)
      BY <2>0, <3>1 DEF At, Scoped, Requests, PaymentEvents
    <3>4. /\ escrow' = [escrow EXCEPT ![e] = PaymentUpdate(escrow[e], r.event, e)]
          /\ SameState(escrow[e], r.seen)
      BY <1>3, <2>0, <2>5, <3>2 DEF ApplyPaymentEvent
    <3>5. ~Settled(escrow[e])
      BY <3>3, <3>4 DEF SameState, Settled
    <3>6. Applied(e)
      BY <1>1, <3>2, <3>3, <3>4, <3>5 DEF Applied
    <3> QED BY <3>2, <3>6 DEF Written
  <2>6. CASE WriteVisitTag(h)
    BY <2>0, <2>6 DEF WriteVisitTag, At, Scoped
  <2> QED BY <1>3, <2>1, <2>2, <2>3, <2>4, <2>5, <2>6 DEF Continue, AcquireLock, ExpireLock,
      GiveUpWaiting, ReleaseLock, InspectCapture, FindWinners, CheckVisitUnpaid,
      ListUnpaidOrders, AllSuperseded, CheckRefund, CallGatewayRefund, CheckTargetVisit
<1>4. ASSUME NEW h \in Handlers, Receive(h)
      PROVE  UNCHANGED escrow
  BY <1>4 DEF Receive, BeginCapture, BeginOrder, BeginRefund, ReceivePaymentEvent, BeginReassign
<1> QED BY <1>2, <1>3, <1>4 DEF Next, vars, External, GatewayMoves, Crash

\* What the writers do to a row, beside its visit.
LEMMA RowWrites ==
  ASSUME TypeOK, NEW e \in Escrows, RowWell(escrow[e]), Written(e),
         \A h \in Handlers : Captured(h, e) => req[h].visit \in Visits /\ req[h].seen.visit = req[h].visit,
         \A h \in Handlers : Created(h, e) => req[h].visit \in Visits,
         \A h \in Handlers : Refunded(h, e) => req[h].visit \in Visits
  PROVE  RowWell(escrow'[e])
<1>0. escrow[e] \in Rows /\ NoRow \in Rows
  BY IdleTyped DEF TypeOK
<1>1. ASSUME NEW h \in Handlers, Created(h, e)
      PROVE  RowWell(escrow'[e])
  <2>1. /\ escrow'[e].status = "pending" /\ escrow'[e].paymentStatus = "pending"
        /\ ~escrow'[e].duplicate /\ escrow'[e].visit = req[h].visit
    BY <1>0, <1>1 DEF Created, NoRow
  <2>2. req[h].visit # NoVisit
    BY <1>1, VisitAssumption
  <2> QED BY <2>1, <2>2 DEF RowWell
<1>2. ASSUME NEW h \in Handlers, Captured(h, e)
      PROVE  RowWell(escrow'[e])
  <2>1. escrow'[e] = CaptureUpdate(e, req[h]) /\ req[h] \in Requests
    BY <1>2 DEF Captured, TypeOK
  <2>2. escrow'[e].visit = req[h].visit /\ req[h].visit # NoVisit
    BY <1>2, <2>1, CaptureUpdateTyped, VisitAssumption DEF Captured
  <2>3. /\ escrow'[e].paymentStatus = "captured"
        /\ \/ escrow'[e].status = "cancelled" /\ escrow'[e].duplicate
           \/ escrow'[e].status = "held"
    BY <1>0, <2>1 DEF CaptureUpdate, PaymentUpdate, Rows
  <2> QED BY <2>2, <2>3 DEF RowWell
<1>3. ASSUME NEW h \in Handlers, Refunded(h, e)
      PROVE  RowWell(escrow'[e])
  <2>1. /\ escrow'[e].status = "refunded" /\ escrow'[e].paymentStatus = escrow[e].paymentStatus
        /\ escrow'[e].visit = escrow[e].visit /\ escrow'[e].duplicate = escrow[e].duplicate
        /\ escrow[e].visit # NoVisit
    BY <1>0, <1>3, VisitAssumption DEF Refunded, Rows
  <2> QED BY <2>1 DEF RowWell
<1>4. CASE Applied(e)
  <2>1. PICK event \in {"authorized", "failed"} :
          escrow'[e] = PaymentUpdate(escrow[e], event, e)
    BY <1>4 DEF Applied
  <2>2. /\ escrow'[e].status \in {escrow[e].status, "cancelled"}
        /\ escrow'[e].paymentStatus = event
        /\ escrow'[e].visit = escrow[e].visit /\ escrow'[e].duplicate = escrow[e].duplicate
    BY <1>0, <2>1 DEF PaymentUpdate, Rows
  <2>3. /\ escrow[e].status \notin {"held", "released"} /\ escrow[e].paymentStatus # "captured"
        /\ escrow[e].visit # NoVisit
    BY <1>4 DEF Applied, Settled
  <2> QED BY <2>2, <2>3 DEF RowWell
<1>5. CASE PaidOut(e)
  <2>1. /\ escrow'[e].status = "released" /\ escrow'[e].paymentStatus = escrow[e].paymentStatus
        /\ escrow'[e].visit = escrow[e].visit /\ escrow'[e].duplicate = escrow[e].duplicate
        /\ escrow[e].status = "held"
    BY <1>0, <1>5 DEF PaidOut, Rows
  <2>2. escrow[e].visit # NoVisit
    BY <2>1 DEF RowWell, NoRow
  <2> QED BY <2>1, <2>2 DEF RowWell
<1>6. CASE Superseded(e)
  <2>1. /\ escrow'[e].status = "cancelled" /\ escrow'[e].paymentStatus = escrow[e].paymentStatus
        /\ escrow'[e].visit = escrow[e].visit /\ escrow'[e].duplicate = escrow[e].duplicate
        /\ escrow[e].visit # NoVisit /\ escrow[e].paymentStatus = "pending"
    BY <1>0, <1>6 DEF Superseded, Unpaid, Rows
  <2> QED BY <2>1 DEF RowWell
<1> QED BY <1>1, <1>2, <1>3, <1>4, <1>5, <1>6 DEF Written

\* Only a refund ends a bound payment, and only a new order is unpaid.
LEMMA RowTurns ==
  ASSUME TypeOK, NEW e \in Escrows, RowWell(escrow[e]), Written(e)
  PROVE  /\ isVisitBoundPayment(escrow[e]) =>
              \/ isVisitBoundPayment(escrow'[e])
              \/ \E h \in Handlers : Refunded(h, e)
         /\ Unpaid(escrow'[e]) => \E h \in Handlers : Created(h, e)
         /\ isEscrowPaidRecord(escrow[e]) /\ escrow'[e].status = "cancelled" =>
              \/ escrow'[e].paymentStatus = "failed"
              \/ escrow'[e].duplicate /\ \E h \in Handlers : Captured(h, e) /\ req[h].won
<1>0. escrow[e] \in Rows /\ NoRow \in Rows
  BY IdleTyped DEF TypeOK
<1> DEFINE Goal == /\ isVisitBoundPayment(escrow[e]) =>
                        \/ isVisitBoundPayment(escrow'[e])
                        \/ \E h \in Handlers : Refunded(h, e)
                   /\ Unpaid(escrow'[e]) => \E h \in Handlers : Created(h, e)
                   /\ isEscrowPaidRecord(escrow[e]) /\ escrow'[e].status = "cancelled" =>
                        \/ escrow'[e].paymentStatus = "failed"
                        \/ escrow'[e].duplicate /\ \E h \in Handlers : Captured(h, e) /\ req[h].won
<1>1. ASSUME NEW h \in Handlers, Created(h, e)
      PROVE  Goal
  <2>1. escrow[e] = NoRow
    BY <1>1 DEF Created, RowWell
  <2>2. ~isVisitBoundPayment(escrow[e]) /\ ~isEscrowPaidRecord(escrow[e])
    BY <2>1 DEF NoRow, isVisitBoundPayment, isEscrowPaidRecord
  <2> QED BY <1>1, <2>2
<1>2. ASSUME NEW h \in Handlers, Captured(h, e)
      PROVE  Goal
  <2>1. ~isVisitBoundPayment(escrow[e])
    BY <1>2 DEF Captured, Settled, isVisitBoundPayment
  <2>2. req[h] \in Requests /\ escrow'[e] = CaptureUpdate(e, req[h])
    BY <1>2 DEF TypeOK, Captured
  <2>3. /\ escrow'[e].paymentStatus = "captured"
        /\ escrow'[e].status = "cancelled" => escrow'[e].duplicate /\ req[h].won
    BY <1>0, <2>2 DEF CaptureUpdate, PaymentUpdate, Rows
  <2> QED BY <1>2, <2>1, <2>3 DEF Unpaid
<1>3. ASSUME NEW h \in Handlers, Refunded(h, e)
      PROVE  Goal
  <2>1. escrow'[e].status = "refunded"
    BY <1>0, <1>3 DEF Refunded, Rows
  <2> QED BY <1>3, <2>1 DEF Unpaid
<1>4. CASE Applied(e)
  <2>1. ~isVisitBoundPayment(escrow[e])
    BY <1>4 DEF Applied, Settled, isVisitBoundPayment
  <2>2. PICK event \in {"authorized", "failed"} :
          escrow'[e] = PaymentUpdate(escrow[e], event, e)
    BY <1>4 DEF Applied
  <2>3. /\ escrow'[e].paymentStatus = event
        /\ event = "authorized" => escrow'[e].status = escrow[e].status
    BY <1>0, <2>2 DEF PaymentUpdate, Rows
  <2>4. isEscrowPaidRecord(escrow[e]) => escrow[e].status # "cancelled"
    BY DEF isEscrowPaidRecord
  <2> QED BY <2>1, <2>3, <2>4 DEF Unpaid
<1>5. CASE PaidOut(e)
  <2>1. /\ escrow'[e].status = "released" /\ escrow'[e].paymentStatus = escrow[e].paymentStatus
    BY <1>0, <1>5 DEF PaidOut, Rows
  <2>2. isVisitBoundPayment(escrow[e]) => isVisitBoundPayment(escrow'[e])
    BY <2>1 DEF isVisitBoundPayment, isEscrowPaidRecord
  <2> QED BY <2>1, <2>2 DEF Unpaid
<1>6. CASE Superseded(e)
  <2>1. escrow[e].status = "pending" /\ escrow[e].paymentStatus = "pending"
    BY <1>6 DEF Superseded, Unpaid
  <2>2. ~isVisitBoundPayment(escrow[e]) /\ ~isEscrowPaidRecord(escrow[e])
    BY <2>1 DEF isVisitBoundPayment, isEscrowPaidRecord
  <2>3. escrow'[e].status = "cancelled"
    BY <1>0, <1>6 DEF Superseded, Rows
  <2> QED BY <2>2, <2>3 DEF Unpaid
<1> QED BY <1>1, <1>2, <1>3, <1>4, <1>5, <1>6 DEF Written

\* A row that changes is one that is written.
LEMMA Changed ==
  ASSUME TypeOK, ScopeInv, KeptInv, Orderly, [Next]_vars, NEW e \in Escrows
  PROVE  escrow'[e] = escrow[e] \/ Written(e)
<1>1. CASE UNCHANGED escrow
  BY <1>1
<1>2. ASSUME NEW f \in Escrows, Written(f)
      PROVE  escrow'[e] = escrow[e] \/ Written(e)
  BY <1>2 DEF Written, Only, Created, Captured, Refunded, Applied, PaidOut, Superseded
<1> QED BY <1>1, <1>2, WriteStep

\* Every step leaves the rows well formed.
LEMMA RowsStep ==
  ASSUME TypeOK, ScopeInv, KeptInv, RowsInv, Orderly, [Next]_vars
  PROVE  RowsInv'
<1>1. SUFFICES ASSUME NEW e \in Escrows
               PROVE  RowWell(escrow'[e])
  BY DEF RowsInv, RowWell
<1>2. RowWell(escrow[e])
  BY DEF RowsInv
<1>3. CASE escrow'[e] = escrow[e]
  BY <1>2, <1>3
<1>4. CASE Written(e)
  <2>1. ASSUME NEW h \in Handlers, Captured(h, e)
        PROVE  req[h].visit \in Visits /\ req[h].seen.visit = req[h].visit
    BY <2>1 DEF Captured, Ends, At, ScopeInv, Scoped, LockedSteps
  <2>2. ASSUME NEW h \in Handlers, Created(h, e) \/ Refunded(h, e)
        PROVE  req[h].visit \in Visits
    BY <2>2 DEF Created, Refunded, Ends, At, ScopeInv, Scoped, LockedSteps
  <2> QED BY <1>2, <1>4, <2>1, <2>2, RowWrites
<1> QED BY <1>3, <1>4, Changed

\* The unpaid orders of a visit grow only by the order its holder creates, and
\* its bound payments shrink only by the refund its holder commits.
LEMMA VisitTurns ==
  ASSUME TypeOK, ScopeInv, KeptInv, RowsInv, Orderly, [Next]_vars,
         \A e \in Escrows : RowFits(e), NEW v \in Visits, NEW e \in Escrows
  PROVE  /\ e \in UnpaidOrders(v)' =>
              \/ e \in UnpaidOrders(v)
              \/ \E h \in Handlers : Created(h, e) /\ req[h].visit = v
         /\ e \in BoundPayments(v) =>
              \/ e \in BoundPayments(v)'
              \/ \E h \in Handlers : Refunded(h, e) /\ req[h].visit = v
<1>1. RowWell(escrow[e]) /\ RowFits(e) /\ v # NoVisit
  BY VisitAssumption DEF RowsInv
<1>2. CASE escrow'[e] = escrow[e]
  BY <1>2 DEF UnpaidOrders, BoundPayments, OrdersOf
<1>3. CASE Written(e)
  <2>1. ASSUME e \in UnpaidOrders(v)'
        PROVE  \E h \in Handlers : Created(h, e) /\ req[h].visit = v
    <3>1. Unpaid(escrow'[e]) /\ escrow'[e].visit = v
      BY <2>1 DEF UnpaidOrders, OrdersOf, Unpaid
    <3>2. PICK h \in Handlers : Created(h, e)
      BY <1>1, <1>3, <3>1, RowTurns
    <3>3. escrow'[e].visit = req[h].visit
      BY <3>2, IdleTyped DEF Created, Rows
    <3> QED BY <3>1, <3>2, <3>3
  <2>2. ASSUME e \in BoundPayments(v), e \notin BoundPayments(v)'
        PROVE  \E h \in Handlers : Refunded(h, e) /\ req[h].visit = v
    <3>1. isVisitBoundPayment(escrow[e]) /\ escrow[e].visit = v /\ escrow'[e].visit = v
      BY <1>1, <2>2 DEF BoundPayments, OrdersOf, RowFits
    <3>2. ~isVisitBoundPayment(escrow'[e])
      BY <2>2, <3>1 DEF BoundPayments, OrdersOf, isVisitBoundPayment, isEscrowPaidRecord
    <3>3. PICK h \in Handlers : Refunded(h, e)
      BY <1>1, <1>3, <3>1, <3>2, RowTurns
    <3> QED BY <3>1, <3>3 DEF Refunded
  <2> QED BY <2>1, <2>2
<1> QED BY <1>2, <1>3, Changed


\* Two requests inside for the same visit are one.
LEMMA OneHolder ==
  ASSUME LockInv, NEW g \in Handlers, NEW h \in Handlers, Inside(g), Inside(h),
         req[g].visit = req[h].visit
  PROVE  g = h
BY DEF LockInv

\* Nobody but the holder of a visit invalidates what was found out about it.
LEMMA KeptStays ==
  ASSUME TypeOK, ScopeInv, LockInv, WonInv, KeptInv, RowsInv, Orderly, [Next]_vars,
         \A e \in Escrows : RowFits(e), NEW g \in Handlers, req'[g] = req[g]
  PROVE  KeptAt(g)'
<1>1. PICK r : r = req[g]
  OBVIOUS
<1>2. r = req'[g] /\ r \in Requests /\ Kept(r) /\ Scoped(r)
  BY <1>1 DEF TypeOK, KeptInv, KeptAt, ScopeInv
<1>3. r.step \in LockedSteps => r.visit \in Visits /\ Inside(g)
  BY <1>1, <1>2 DEF Scoped, Inside
<1>4. /\ Stage(r) \in RefundSteps =>
           r.escrow \in Escrows /\ escrow'[r.escrow].visit = r.visit
      /\ r.step = "order.supersede" => r.todo \subseteq OrdersOf(r.visit)'
      /\ r.step = "event.apply" =>
           r.escrow \in Escrows /\ escrow'[r.escrow].visit # NoVisit
  <2>1. ASSUME NEW e \in Escrows, escrow[e].visit # NoVisit
        PROVE  escrow'[e].visit = escrow[e].visit
    BY <2>1 DEF RowFits
  <2>2. ASSUME Stage(r) \in RefundSteps
        PROVE  r.escrow \in Escrows /\ escrow'[r.escrow].visit = r.visit
    <3>1. r.visit \in Visits
      BY <1>2, <2>2 DEF Scoped, Stage, RefundSteps, LockedSteps
    <3> QED BY <1>2, <2>1, <2>2, <3>1, VisitAssumption DEF KeptAt, Kept
  <2>3. ASSUME r.step = "order.supersede", NEW f \in r.todo
        PROVE  f \in OrdersOf(r.visit)'
    <3>1. r.visit \in Visits
      BY <1>3, <2>3 DEF LockedSteps
    <3>2. f \in Escrows /\ escrow[f].visit = r.visit
      BY <1>2, <2>3 DEF KeptAt, Kept, OrdersOf
    <3> QED BY <2>1, <3>1, <3>2, VisitAssumption DEF OrdersOf
  <2> QED BY <1>2, <2>1, <2>2, <2>3 DEF KeptAt, Kept
<1>5. ASSUME r.step \in {"capture.bind", "order.list", "order.supersede", "order.create"}
      PROVE  /\ \A e \in BoundPayments(r.visit) : e \in BoundPayments(r.visit)'
             /\ \A e \in UnpaidOrders(r.visit)' : e \in UnpaidOrders(r.visit)
             /\ r.step # "capture.bind" =>
                  \A e \in BoundPayments(r.visit)' : e \in BoundPayments(r.visit)
  <2>1. r.visit \in Visits /\ Inside(g)
    BY <1>3, <1>5 DEF LockedSteps
  <2>2. ASSUME NEW h \in Handlers, Inside(h), req[h].visit = r.visit, req'[h].step = "release"
        PROVE  FALSE
    <3>1. h = g
      BY <1>1, <2>1, <2>2, OneHolder
    <3> QED BY <1>2, <1>5, <2>2, <3>1
  <2>3. ASSUME NEW e \in BoundPayments(r.visit)
        PROVE  e \in BoundPayments(r.visit)'
    <3>1. e \in Escrows
      BY DEF BoundPayments, OrdersOf
    <3>2. ASSUME NEW h \in Handlers, Refunded(h, e), req[h].visit = r.visit
          PROVE  FALSE
      BY <2>2, <3>2 DEF Refunded, Ends, At, Inside, LockedSteps
    <3> QED BY <2>1, <3>1, <3>2, VisitTurns
  <2>4. ASSUME NEW e \in UnpaidOrders(r.visit)'
        PROVE  e \in UnpaidOrders(r.visit)
    <3>1. e \in Escrows
      BY DEF UnpaidOrders, OrdersOf
    <3>2. ASSUME NEW h \in Handlers, Created(h, e), req[h].visit = r.visit
          PROVE  FALSE
      BY <2>2, <3>2 DEF Created, Ends, At, Inside, LockedSteps
    <3> QED BY <2>1, <2>4, <3>1, <3>2, VisitTurns
  <2>5. ASSUME r.step # "capture.bind", NEW e \in BoundPayments(r.visit)'
        PROVE  e \in BoundPayments(r.visit)
    <3>1. e \in Escrows /\ escrow'[e].visit = r.visit /\ isVisitBoundPayment(escrow'[e])
      BY DEF BoundPayments, OrdersOf, isVisitBoundPayment, isEscrowPaidRecord
    <3>2. ASSUME NEW h \in Handlers, At(h, "capture.bind"), req[h].visit = r.visit,
                 req'[h].step = "release"
          PROVE  FALSE
      BY <2>2, <3>2 DEF At, Inside, LockedSteps
    <3> QED BY <2>1, <3>1, <3>2, BoundStep
  <2> QED BY <2>3, <2>4, <2>5
<1>6. /\ r.step = "capture.bind" /\ r.won => BoundPayments(r.visit)' \ {r.escrow} # {}
      /\ r.step \in {"order.list", "order.supersede", "order.create"}
           /\ "readError" \notin Faults => BoundPayments(r.visit)' = {}
      /\ r.step = "order.supersede" /\ r.escrow # NoPayment =>
           UnpaidOrders(r.visit)' \subseteq r.todo
      /\ r.step = "order.create" => UnpaidOrders(r.visit)' = {}
  BY <1>2, <1>5 DEF KeptAt, Kept
<1>7. r.step \in {"capture.siblings", "capture.bind"} => ~Settled(r.seen)
  BY <1>2 DEF KeptAt, Kept
<1> QED BY <1>2, <1>4, <1>6, <1>7 DEF KeptAt, Kept, Stage, Settled
\* A request that begins has found out nothing but the row it works on.
LEMMA KeptReceived ==
  ASSUME TypeOK, ExistInv, Orderly, NEW h \in Handlers, Receive(h)
  PROVE  KeptAt(h)'
<1>0. ASSUME \/ req'[h].step \in {"idle", "release", "order.check", "capture.inspect"}
             \/ req'[h].step = "waiting" /\ req'[h].next \in {"order.check", "capture.inspect"}
      PROVE  KeptAt(h)'
  BY <1>0 DEF KeptAt, Kept, Stage, RefundSteps
<1>1. PICK e \in Escrows :
        \/ BeginCapture(h, e)
        \/ \E v \in Visits : BeginOrder(h, e, v)
        \/ BeginRefund(h, e)
        \/ \E event \in PaymentEvents : ReceivePaymentEvent(h, e, event)
  BY DEF Receive, BeginReassign, Begin, Orderly
<1>2. ASSUME NEW v, NEW next, next # "release",
             WaitForLock(h, v, [Idle EXCEPT !.escrow = e, !.next = next])
      PROVE  /\ req'[h].step = "waiting" /\ req'[h].next = next /\ req'[h].escrow = e
             /\ req'[h].visit = v
  <2> DEFINE r == [[Idle EXCEPT !.escrow = e, !.next = next]
                     EXCEPT !.step = "waiting", !.visit = v]
  <2>1. r.step = "waiting" /\ r.next = next /\ r.escrow = e /\ r.visit = v
    BY DEF Idle
  <2>2. Become(h, r)
    BY <1>2 DEF WaitForLock
  <2> HIDE DEF r
  <2> QED BY <2>1, <2>2 DEF Become, TypeOK
<1>3. CASE BeginCapture(h, e)
  BY <1>0, <1>2, <1>3 DEF BeginCapture
<1>4. ASSUME NEW v \in Visits, BeginOrder(h, e, v)
      PROVE  KeptAt(h)'
  BY <1>0, <1>2, <1>4 DEF BeginOrder
<1>5. CASE BeginRefund(h, e)
  <2>1. req'[h].step = "waiting" /\ req'[h].escrow = e /\ req'[h].visit = escrow[e].visit
    BY <1>2, <1>5 DEF BeginRefund
  <2>2. escrow' = escrow
    BY <1>5 DEF BeginRefund
  <2> QED BY <2>1, <2>2 DEF KeptAt, Kept
<1>6. ASSUME NEW event \in PaymentEvents, ReceivePaymentEvent(h, e, event)
      PROVE  KeptAt(h)'
  <2> DEFINE r == [Idle EXCEPT !.step = "event.apply", !.escrow = e,
                               !.seen = escrow[e], !.event = event]
  <2>1. r.step = "event.apply" /\ r.escrow = e
    BY DEF Idle
  <2>2. Become(h, r) /\ escrow' = escrow
    BY <1>6 DEF ReceivePaymentEvent
  <2> HIDE DEF r
  <2>3. req'[h].step = "event.apply" /\ req'[h].escrow = e
    BY <2>1, <2>2 DEF Become, TypeOK
  <2>4. gateway[e] # "created"
    BY <1>6 DEF ReceivePaymentEvent, Emitted
  <2>5. escrow'[e].visit # NoVisit
    BY <2>2, <2>4 DEF ExistInv
  <2> QED BY <2>3, <2>5 DEF KeptAt, Kept, Stage, RefundSteps
<1> QED BY <1>1, <1>3, <1>4, <1>5, <1>6

\* A request that goes on relies on what it reads in that step, or read before.
LEMMA KeptContinued ==
  ASSUME TypeOK, ScopeInv, KeptInv, RowsInv, Orderly, NEW h \in Handlers,
         Continue(h) \/ Crash(h), ~ExpireLock(h), [Next]_vars, \A e \in Escrows : RowFits(e)
  PROVE  KeptAt(h)'
<1>0. ASSUME \/ req'[h].step \in {"idle", "release", "order.check", "capture.inspect"}
             \/ req'[h].step = "waiting" /\ req'[h].next \in {"order.check", "capture.inspect"}
      PROVE  KeptAt(h)'
  BY <1>0 DEF KeptAt, Kept, Stage, RefundSteps
<1>1. PICK r : r = req[h]
  OBVIOUS
<1>2. r \in Requests /\ Kept(r) /\ Scoped(r)
  BY <1>1 DEF TypeOK, KeptInv, KeptAt, ScopeInv
<1>3. ASSUME NEW q, Become(h, q)
      PROVE  req'[h] = q
  BY <1>3 DEF Become, TypeOK
<1>4. ASSUME NEW step, GoTo(h, step)
      PROVE  /\ req'[h].step = step /\ req'[h].visit = r.visit /\ req'[h].escrow = r.escrow
             /\ req'[h].seen = r.seen /\ req'[h].todo = r.todo /\ req'[h].won = r.won
             /\ req'[h].next = r.next
  BY <1>1, <1>4 DEF GoTo, TypeOK, Requests
<1>5. CASE \/ BindCapture(h) \/ CreateOrder(h) \/ CommitRefund(h)
  <2>1. GoTo(h, "release")
    BY <1>5 DEF BindCapture, CreateOrder, CommitRefund
  <2> QED BY <1>4, <2>1, <1>0
<1>6. CASE \/ GiveUpWaiting(h) \/ ReleaseLock(h) \/ Crash(h) \/ ApplyPaymentEvent(h)
           \/ WriteVisitTag(h)
  <2>1. req'[h] = Idle
    BY <1>3, <1>6 DEF GiveUpWaiting, ReleaseLock, Crash, ApplyPaymentEvent, WriteVisitTag
  <2> QED BY <2>1, <1>0 DEF Idle
<1>7. CASE CheckTargetVisit(h)
  BY <1>1, <1>2, <1>7 DEF CheckTargetVisit, At, Scoped
<1>8. CASE AcquireLock(h) \/ CheckRefund(h) \/ CallGatewayRefund(h)
  <2>1. PICK step : GoTo(h, step) /\ step \in {r.next, "refund.call", "refund.commit", "release"}
    BY <1>1, <1>8 DEF AcquireLock, CheckRefund, CallGatewayRefund
  <2>2. /\ r.step = "waiting" => step = r.next
        /\ r.step # "waiting" => step \in {"refund.call", "refund.commit", "release"}
        /\ r.step \in {"waiting", "refund.check", "refund.call"}
        /\ escrow' = escrow
    BY <1>1, <1>4, <1>8, <2>1 DEF AcquireLock, CheckRefund, CallGatewayRefund, At, GoTo,
       TypeOK, Requests
  <2>3. r.step = "waiting" => r.next \in {"capture.inspect", "order.check", "refund.check"}
    BY <1>2 DEF Scoped
  <2>4. CASE step \in RefundSteps
    <3>1. Stage(r) \in RefundSteps
      BY <2>2, <2>3, <2>4 DEF Stage, RefundSteps
    <3>2. r.escrow \in Escrows /\ escrow[r.escrow].visit = r.visit
      BY <1>2, <3>1 DEF KeptAt, Kept
    <3>3. /\ req'[h].step = step /\ req'[h].visit = r.visit /\ req'[h].escrow = r.escrow
      BY <1>4, <2>1
    <3>4. step \notin {"capture.siblings", "capture.bind", "order.list", "order.supersede",
                       "order.create", "event.apply"}
      BY <2>4 DEF RefundSteps
    <3> QED BY <2>2, <3>2, <3>3, <3>4 DEF KeptAt, Kept
  <2>5. CASE step \notin RefundSteps
    <3>1. step \in {"capture.inspect", "order.check", "release"}
      BY <2>1, <2>2, <2>3, <2>5 DEF RefundSteps
    <3> QED BY <1>4, <2>1, <3>1, <1>0
  <2> QED BY <2>4, <2>5
<1>9. CASE InspectCapture(h)
  <2>1. CASE GoTo(h, "release")
    BY <1>4, <2>1, <1>0
  <2>2. CASE ~GoTo(h, "release")
    <3>1. /\ Become(h, [r EXCEPT !.step = "capture.siblings", !.seen = escrow[r.escrow]])
          /\ ~escrow[r.escrow].duplicate
          /\ resolveEscrowPaymentTransition(escrow[r.escrow], "captured", r.escrow)
          /\ r.step = "capture.inspect"
      BY <1>1, <1>9, <2>2 DEF InspectCapture, At
    <3>2. r.escrow \in Escrows
      BY <1>2, <3>1 DEF Scoped, Stage, CaptureSteps
    <3>3. RowWell(escrow[r.escrow])
      BY <3>2 DEF RowsInv
    <3>4. ~Settled(escrow[r.escrow])
      BY <3>1, <3>3 DEF RowWell, Settled, resolveEscrowPaymentTransition
    <3>5. req'[h].step = "capture.siblings" /\ req'[h].seen = escrow[r.escrow]
      BY <1>2, <1>3, <3>1 DEF Requests
    <3> QED BY <3>4, <3>5 DEF KeptAt, Kept, Stage, RefundSteps, Settled
  <2> QED BY <2>1, <2>2
<1>10. CASE FindWinners(h)
  <2>1. /\ Become(h, [r EXCEPT !.step = "capture.bind",
                        !.won = BoundPayments(r.visit) \ {r.escrow} # {}])
        /\ r.step = "capture.siblings" /\ escrow' = escrow
    BY <1>1, <1>10 DEF FindWinners, At
  <2>2. /\ req'[h].step = "capture.bind" /\ req'[h].seen = r.seen /\ req'[h].visit = r.visit
        /\ req'[h].escrow = r.escrow /\ req'[h].won = (BoundPayments(r.visit) \ {r.escrow} # {})
    <3>1. PICK b \in BOOLEAN : b = (BoundPayments(r.visit) \ {r.escrow} # {})
      OBVIOUS
    <3>2. req'[h] = [r EXCEPT !.step = "capture.bind", !.won = b]
      BY <1>3, <2>1, <3>1
    <3>3. /\ req'[h].step = "capture.bind" /\ req'[h].seen = r.seen
          /\ req'[h].visit = r.visit /\ req'[h].escrow = r.escrow
      BY <1>2, <3>2 DEF Requests
    <3>4. req'[h].won = b
      BY <1>2, <3>2 DEF Requests
    <3> QED BY <3>1, <3>3, <3>4
  <2>3. ~Settled(r.seen)
    BY <1>2, <2>1 DEF KeptAt, Kept
  <2>4. req'[h].won => BoundPayments(r.visit)' \ {r.escrow} # {}
    BY <2>1, <2>2 DEF BoundPayments, OrdersOf
  <2> QED BY <2>2, <2>3, <2>4 DEF KeptAt, Kept, Stage, RefundSteps, Settled
<1>11. CASE CheckVisitUnpaid(h)
  <2>1. CASE GoTo(h, "release")
    BY <1>4, <2>1, <1>0
  <2>2. CASE GoTo(h, "order.list") /\ "readError" \in Faults
    <3>1. req'[h].step = "order.list"
      BY <1>4, <2>2
    <3> QED BY <2>2, <3>1 DEF KeptAt, Kept, Stage, RefundSteps
  <2>3. CASE GoTo(h, "order.list") /\ "readError" \notin Faults
    <3>1. /\ req'[h].step = "order.list" /\ req'[h].visit = r.visit
      BY <1>4, <2>3
    <3>2. ~\E e \in OrdersOf(r.visit) : isEscrowPaidRecord(escrow[e])
      BY <1>1, <1>11, <2>3, <3>1, <1>4 DEF CheckVisitUnpaid
    <3>3. BoundPayments(r.visit)' = {}
      BY <1>11, <3>2 DEF CheckVisitUnpaid, BoundPayments, OrdersOf, isVisitBoundPayment
    <3> QED BY <3>1, <3>3 DEF KeptAt, Kept, Stage, RefundSteps
  <2> QED BY <1>11, <2>1, <2>2, <2>3 DEF CheckVisitUnpaid
<1>12. CASE ListUnpaidOrders(h)
  <2>1. r.step = "order.list" /\ escrow' = escrow
    BY <1>1, <1>12 DEF ListUnpaidOrders, At
  <2>2. PICK f \in Escrows \cup {NoPayment}, todo \in SUBSET UnpaidOrders(r.visit) :
          /\ f # NoPayment => todo = UnpaidOrders(r.visit)
          /\ req'[h].step = "order.supersede" /\ req'[h].todo = todo /\ req'[h].escrow = f
          /\ req'[h].visit = r.visit
    <3>1. CASE Become(h, [r EXCEPT !.step = "order.supersede", !.todo = UnpaidOrders(r.visit)])
      <4>1. /\ req'[h].step = "order.supersede" /\ req'[h].todo = UnpaidOrders(r.visit)
            /\ req'[h].escrow = r.escrow /\ req'[h].visit = r.visit
        BY <1>2, <1>3, <3>1 DEF Requests
      <4>2. r.escrow \in Escrows \cup {NoPayment}
        BY <1>2 DEF Requests
      <4> QED BY <4>1, <4>2
    <3>2. ASSUME NEW e \in UnpaidOrders(r.visit),
                 Become(h, [r EXCEPT !.step = "order.supersede",
                                     !.todo = UnpaidOrders(r.visit) \ {e},
                                     !.escrow = NoPayment])
          PROVE  /\ req'[h].step = "order.supersede" /\ req'[h].todo = UnpaidOrders(r.visit) \ {e}
                 /\ req'[h].escrow = NoPayment /\ req'[h].visit = r.visit
      BY <1>2, <1>3, <3>2 DEF Requests
    <3>3. CASE \E e \in UnpaidOrders(r.visit) :
                 Become(h, [r EXCEPT !.step = "order.supersede",
                                     !.todo = UnpaidOrders(r.visit) \ {e},
                                     !.escrow = NoPayment])
      BY <3>2, <3>3
    <3> QED BY <1>1, <1>12, <3>1, <3>3 DEF ListUnpaidOrders
  <2>3. UnpaidOrders(r.visit)' = UnpaidOrders(r.visit) /\ BoundPayments(r.visit)' = BoundPayments(r.visit)
        /\ OrdersOf(r.visit)' = OrdersOf(r.visit)
    BY <2>1 DEF UnpaidOrders, BoundPayments, OrdersOf
  <2>4. "readError" \notin Faults => BoundPayments(r.visit) = {}
    BY <1>2, <2>1 DEF KeptAt, Kept
  <2>5. UnpaidOrders(r.visit) \subseteq OrdersOf(r.visit)
    BY DEF UnpaidOrders
  <2> QED BY <2>2, <2>3, <2>4, <2>5 DEF KeptAt, Kept, Stage, RefundSteps
<1>13. CASE AllSuperseded(h)
  <2>1. CASE GoTo(h, "release")
    BY <1>4, <2>1, <1>0
  <2>2. CASE GoTo(h, "order.create") /\ r.escrow # NoPayment
    <3>1. r.step = "order.supersede" /\ r.todo = {} /\ escrow' = escrow
      BY <1>1, <1>13 DEF AllSuperseded, At
    <3>2. req'[h].step = "order.create" /\ req'[h].visit = r.visit
      BY <1>4, <2>2
    <3>3. UnpaidOrders(r.visit)' = UnpaidOrders(r.visit) /\ BoundPayments(r.visit)' = BoundPayments(r.visit)
      BY <3>1 DEF UnpaidOrders, BoundPayments, OrdersOf
    <3>4. /\ "readError" \notin Faults => BoundPayments(r.visit) = {}
          /\ UnpaidOrders(r.visit) = {}
      BY <1>2, <2>2, <3>1 DEF KeptAt, Kept
    <3> QED BY <3>2, <3>3, <3>4 DEF KeptAt, Kept, Stage, RefundSteps
  <2> QED BY <1>1, <1>13, <2>1, <2>2 DEF AllSuperseded
<1>14. CASE SupersedeOrder(h)
  <2>1. PICK f \in r.todo :
          /\ escrow' = IF Unpaid(escrow[f])
                       THEN [escrow EXCEPT ![f].status = "cancelled"] ELSE escrow
          /\ Become(h, [r EXCEPT !.todo = r.todo \ {f}])
    BY <1>1, <1>14 DEF SupersedeOrder
  <2>2. r.step = "order.supersede" /\ r.visit \in Visits
    BY <1>1, <1>2, <1>14 DEF SupersedeOrder, At, Scoped, LockedSteps
  <2>3. /\ req'[h].step = "order.supersede" /\ req'[h].visit = r.visit
        /\ req'[h].todo = r.todo \ {f} /\ req'[h].escrow = r.escrow
    BY <1>2, <1>3, <2>1, <2>2 DEF Requests
  <2>4. f \in Escrows /\ r.todo \subseteq OrdersOf(r.visit)
    BY <1>2, <2>1, <2>2 DEF KeptAt, Kept, OrdersOf
  <2>5. /\ ~Unpaid(escrow'[f])
        /\ \A e \in Escrows \ {f} : escrow'[e] = escrow[e]
        /\ \A e \in Escrows : escrow'[e].visit = escrow[e].visit
        /\ ~isVisitBoundPayment(escrow'[f]) \/ escrow'[f] = escrow[f]
    <3>1. escrow \in [Escrows -> Rows]
      BY DEF TypeOK
    <3>2. CASE Unpaid(escrow[f])
      <4> DEFINE row == [escrow[f] EXCEPT !.status = "cancelled"]
      <4>1. row.status = "cancelled" /\ row.visit = escrow[f].visit
        BY <2>4, <3>1 DEF Rows
      <4>2. escrow' = [escrow EXCEPT ![f] = row]
        BY <2>1, <3>2
      <4> HIDE DEF row
      <4>3. escrow'[f] = row /\ \A e \in Escrows \ {f} : escrow'[e] = escrow[e]
        BY <2>4, <3>1, <4>2
      <4> QED BY <4>1, <4>3 DEF Unpaid, isVisitBoundPayment
    <3>3. CASE ~Unpaid(escrow[f])
      BY <2>1, <3>3
    <3> QED BY <3>2, <3>3
  <2>6. OrdersOf(r.visit)' = OrdersOf(r.visit)
    BY <2>5 DEF OrdersOf
  <2>7. "readError" \notin Faults => BoundPayments(r.visit)' = {}
    <3>1. SUFFICES ASSUME "readError" \notin Faults, NEW e \in BoundPayments(r.visit)'
                   PROVE  FALSE
      OBVIOUS
    <3>2. e \in OrdersOf(r.visit) /\ isVisitBoundPayment(escrow'[e])
      BY <2>6, <3>1 DEF BoundPayments, isVisitBoundPayment, isEscrowPaidRecord
    <3>3. escrow'[e] = escrow[e]
      BY <2>5, <3>2 DEF OrdersOf
    <3>4. BoundPayments(r.visit) = {}
      BY <1>2, <2>2, <3>1 DEF KeptAt, Kept
    <3> QED BY <3>2, <3>3, <3>4 DEF BoundPayments
  <2>8. r.escrow # NoPayment => UnpaidOrders(r.visit)' \subseteq r.todo \ {f}
    <3>1. SUFFICES ASSUME r.escrow # NoPayment, NEW e \in UnpaidOrders(r.visit)'
                   PROVE  e \in r.todo /\ e # f
      OBVIOUS
    <3>2. e \in OrdersOf(r.visit) /\ Unpaid(escrow'[e])
      BY <2>6, <3>1 DEF UnpaidOrders, Unpaid
    <3>3. e # f /\ escrow'[e] = escrow[e]
      BY <2>5, <3>2 DEF OrdersOf
    <3>4. UnpaidOrders(r.visit) \subseteq r.todo
      BY <1>2, <2>2, <3>1 DEF KeptAt, Kept
    <3> QED BY <3>2, <3>3, <3>4 DEF UnpaidOrders
  <2> QED BY <2>3, <2>4, <2>6, <2>7, <2>8 DEF KeptAt, Kept, Stage, RefundSteps
<1> QED BY <1>5, <1>6, <1>7, <1>8, <1>9, <1>10, <1>11, <1>12, <1>13, <1>14 DEF Continue

\* What requests found out stays true, whoever moves.
LEMMA KeptStep ==
  ASSUME TypeOK, ScopeInv, LockInv, WonInv, ExistInv, KeptInv, RowsInv, Orderly, [Next]_vars,
         req' = req \/ \E h \in Handlers : Moves(h), \A e \in Escrows : RowFits(e)
  PROVE  KeptInv'
<1>1. SUFFICES ASSUME NEW g \in Handlers
               PROVE  KeptAt(g)'
  BY DEF KeptInv
<1>2. CASE req'[g] = req[g]
  BY <1>2, KeptStays
<1>3. CASE req'[g] # req[g]
  <2>1. ASSUME NEW h \in Handlers, h # g, Receive(h) \/ Continue(h) \/ Crash(h)
        PROVE  FALSE
    <3>1. Moves(h) \/ req' = req
      BY <2>1, ReceiveMoves, ContinueMoves DEF ExpireLock
    <3> QED BY <1>3, <2>1, <3>1 DEF Moves
  <2>2. Receive(g) \/ Continue(g) \/ Crash(g)
    BY <1>3, <2>1 DEF Next, vars, External, GatewayMoves, PayOut
  <2>3. ~ExpireLock(g)
    BY <1>3 DEF ExpireLock
  <2> QED BY <2>2, <2>3, KeptReceived, KeptContinued
<1> QED BY <1>2, <1>3

\* An order is created only when its visit has no unpaid one.
LEMMA ActiveStep ==
  ASSUME TypeOK, ScopeInv, KeptInv, RowsInv, OneActiveOrder, Orderly, [Next]_vars,
         \A e \in Escrows : RowFits(e)
  PROVE  OneActiveOrder'
<1>1. SUFFICES ASSUME NEW v \in Visits, NEW e \in UnpaidOrders(v)', NEW f \in UnpaidOrders(v)'
               PROVE  e = f
  BY DEF OneActiveOrder
<1>2. e \in Escrows /\ f \in Escrows
  BY DEF UnpaidOrders, OrdersOf
<1>3. ASSUME NEW a \in UnpaidOrders(v)', a \notin UnpaidOrders(v),
             NEW b \in UnpaidOrders(v)'
      PROVE  a = b
  <2>1. a \in Escrows /\ b \in Escrows
    BY DEF UnpaidOrders, OrdersOf
  <2>2. PICK h \in Handlers : Created(h, a) /\ req[h].visit = v
    BY <1>3, <2>1, VisitTurns
  <2>3. UnpaidOrders(v) = {}
    BY <2>2 DEF Created, Ends, At, KeptInv, KeptAt, Kept
  <2>4. PICK g \in Handlers : Created(g, b) /\ req[g].visit = v
    BY <2>1, <2>3, <1>3, VisitTurns
  <2>5. ASSUME a # b
        PROVE  FALSE
    <3>1. escrow'[b] = escrow[b] /\ escrow[b].visit = NoVisit
      BY <2>1, <2>2, <2>4, <2>5 DEF Created, Only
    <3>2. escrow'[b].visit = v
      BY DEF UnpaidOrders, OrdersOf
    <3> QED BY <3>1, <3>2, VisitAssumption
  <2> QED BY <2>5
<1>4. CASE e \in UnpaidOrders(v) /\ f \in UnpaidOrders(v)
  BY <1>4 DEF OneActiveOrder
<1> QED BY <1>3, <1>4

\* The invariant holds before the first order.
LEMMA ActiveInit == Init => AInv
<1>1. SUFFICES ASSUME Init
               PROVE  RowsInv /\ KeptInv /\ OneActiveOrder
  BY VisitInit DEF AInv
<1>2. \A h \in Handlers : req[h] = Idle /\ Stage(Idle) = "idle"
  BY <1>1 DEF Init, Stage, Idle
<1>3. \A e \in Escrows : escrow[e] = NoRow
  BY <1>1 DEF Init
<1>4. KeptInv
  BY <1>2 DEF KeptInv, KeptAt, Kept, RefundSteps, Idle
<1>5. RowsInv
  <2>1. RowWell(NoRow)
    BY DEF RowWell, NoRow
  <2> QED BY <1>3, <2>1 DEF RowsInv
<1>6. OneActiveOrder
  BY <1>3, VisitAssumption DEF OneActiveOrder, UnpaidOrders, OrdersOf, NoRow
<1> QED BY <1>4, <1>5, <1>6

\* The parts of the invariant, and what a step does to the visit of a row.
LEMMA ActiveFacts ==
  ASSUME Orderly, AInv, [Next]_vars
  PROVE  /\ TypeOK /\ ScopeInv /\ LockInv /\ WonInv /\ ExistInv /\ KeptInv /\ RowsInv
         /\ OneActiveOrder
         /\ \A e \in Escrows : RowFits(e)
BY RowStep DEF AInv, VInv

\* The invariant is inductive.
LEMMA ActiveStays == ASSUME Orderly PROVE AInv /\ [Next]_vars => AInv'
<1>1. SUFFICES ASSUME AInv, [Next]_vars
               PROVE  AInv'
  OBVIOUS
<1>2. VInv' /\ TInv'
  BY <1>1, VisitStep DEF AInv
<1>3. req' = req \/ \E h \in Handlers : Moves(h)
  BY <1>1, RequestStep DEF AInv, VInv
<1>4. RowsInv' /\ KeptInv' /\ OneActiveOrder'
  BY <1>1, <1>3, ActiveFacts, RowsStep, KeptStep, ActiveStep
<1> QED BY <1>2, <1>4 DEF AInv

\* "Only one order stays active": a visit never has two unpaid orders
\* (settlePendingRecurringVisitOrders runs under the visit's lock), when no lock
\* expires under a live holder and no payment is moved to another visit.
THEOREM OneOrderActive ==
  ASSUME "lockExpiry" \notin Faults, "reassign" \notin Operations
  PROVE  Spec => []OneActiveOrder
<1>1. Orderly
  BY DEF Orderly
<1>2. AInv => OneActiveOrder
  BY DEF AInv
<1>3. AInv /\ [Next]_vars => AInv'
  BY <1>1, ActiveStays
<1> QED BY <1>2, <1>3, ActiveInit, PTL DEF Spec

\* A visit with a payment gets no order: createEscrow read its rows under the
\* lock it inserts under.
LEMMA OrderKept ==
  ASSUME Orderly, "readError" \notin Faults, AInv, [Next]_vars, NEW e \in Escrows,
         escrow[e].visit = NoVisit, escrow'[e].visit # NoVisit
  PROVE  BoundPayments(escrow'[e].visit) = {}
<1>1. PICK h \in Handlers : At(h, "order.create") /\ req[h].escrow = e
  BY ActiveFacts DEF RowFits
<1>2. Written(e)
  BY ActiveFacts, Changed
<1>3. PICK k \in Handlers : Created(k, e)
  <2>1. escrow[e] = NoRow /\ escrow[e] \in Rows
    BY ActiveFacts DEF RowsInv, RowWell, TypeOK
  <2>2. ASSUME NEW g \in Handlers, Captured(g, e) \/ Refunded(g, e)
        PROVE  FALSE
    BY <2>2, ActiveFacts, VisitAssumption DEF Captured, Refunded, Ends, At, ScopeInv, Scoped,
       LockedSteps
  <2>3. ~Applied(e) /\ ~Superseded(e) /\ ~PaidOut(e)
    BY <2>1 DEF Applied, Superseded, PaidOut, NoRow
  <2> QED BY <1>2, <2>2, <2>3 DEF Written
<1>4. escrow'[e].visit = req[k].visit
  BY <1>3, IdleTyped DEF Created, Rows
<1>5. At(k, "order.create") /\ Kept(req[k])
  BY <1>3, ActiveFacts DEF Created, Ends, KeptInv, KeptAt
<1> QED BY <1>4, <1>5 DEF At, Kept

\* A paid order is cancelled by its own failure, or because its visit has
\* another payment.
LEMMA CancelKept ==
  ASSUME Orderly, AInv, [Next]_vars, NEW e \in Escrows,
         isEscrowPaidRecord(escrow[e]), escrow'[e].status = "cancelled"
  PROVE  \/ escrow'[e].paymentStatus = "failed"
         \/ escrow'[e].duplicate /\ BoundPayments(escrow[e].visit) # {}
<1>1. Written(e) /\ RowWell(escrow[e]) /\ TypeOK
  <2>1. escrow'[e] # escrow[e]
    BY DEF isEscrowPaidRecord
  <2> QED BY <2>1, ActiveFacts, Changed DEF RowsInv
<1>2. CASE escrow'[e].paymentStatus # "failed"
  <2>1. PICK h \in Handlers : escrow'[e].duplicate /\ Captured(h, e) /\ req[h].won
    BY <1>1, <1>2, RowTurns
  <2>2. At(h, "capture.bind") /\ escrow[e].visit = req[h].visit /\ Kept(req[h])
    BY <2>1, ActiveFacts DEF Captured, Ends, KeptInv, KeptAt
  <2>3. BoundPayments(req[h].visit) # {}
    BY <2>1, <2>2 DEF At, Kept
  <2> QED BY <2>1, <2>2, <2>3
<1> QED BY <1>2

\* The orders of a visit are kept apart from its payment: none is made for a paid
\* visit, and a paid one is not superseded (createEscrow, bindRecurringVisitCapture),
\* when moreover the read of the visit's orders does not fail.
THEOREM PaidOrdersStay ==
  ASSUME "lockExpiry" \notin Faults, "reassign" \notin Operations, "readError" \notin Faults
  PROVE  Spec => PaidOrdersKept
<1>1. Orderly
  BY DEF Orderly
<1>2. AInv /\ [Next]_vars => AInv'
  BY <1>1, ActiveStays
<1>3. AInv /\ [Next]_vars =>
        [\A e \in Escrows :
           escrow[e].visit = NoVisit /\ escrow'[e].visit # NoVisit
             => BoundPayments(escrow'[e].visit) = {}]_vars
  BY <1>1, OrderKept
<1>4. AInv /\ [Next]_vars =>
        [\A e \in Escrows :
           isEscrowPaidRecord(escrow[e]) /\ escrow'[e].status = "cancelled"
             => \/ escrow'[e].paymentStatus = "failed"
                \/ escrow'[e].duplicate /\ BoundPayments(escrow[e].visit) # {}]_vars
  BY <1>1, CancelKept
<1> QED BY <1>2, <1>3, <1>4, ActiveInit, PTL
        DEF Spec, PaidOrdersKept, NoOrderForPaidVisit, PaidOrderNotCancelled

-----------------------------------------------------------------------------
(* The promise kept                                                        *)

\* The outcome of a row, from its columns.
LEMMA OutcomeCases ==
  ASSUME NEW row
  PROVE  /\ Outcome(row) \in {"returned", "bound", "rejected", "open"}
         /\ row.status = "refunded" => Outcome(row) = "returned"
         /\ Outcome(row) = "bound" <=> isVisitBoundPayment(row)
         /\ row.status \notin {"refunded", "held", "released"} =>
              Outcome(row) = IF row.status = "cancelled" /\ row.duplicate
                             THEN "rejected" ELSE "open"
BY DEF Outcome, isVisitBoundPayment, isEscrowPaidRecord

\* What the writers do to the outcome of a row.
LEMMA OutcomeWrites ==
  ASSUME Orderly, AInv, [Next]_vars, NEW e \in Escrows, Written(e)
  PROVE  \/ /\ escrow'[e].visit = escrow[e].visit
            /\ Outcome(escrow'[e]) = Outcome(escrow[e])
         \/ \E h \in Handlers : /\ Created(h, e) /\ escrow'[e].visit = req[h].visit
                                /\ Outcome(escrow'[e]) = Outcome(escrow[e])
         \/ \E h \in Handlers : /\ Captured(h, e) /\ escrow'[e].visit = escrow[e].visit
                                /\ Outcome(escrow[e]) = "open"
                                /\ Outcome(escrow'[e]) = IF req[h].won THEN "rejected" ELSE "bound"
         \/ \E h \in Handlers : /\ Refunded(h, e) /\ escrow'[e].visit = escrow[e].visit
                                /\ Outcome(escrow'[e]) = "returned"
<1>0. /\ escrow[e] \in Rows /\ escrow'[e] \in Rows /\ NoRow \in Rows
      /\ RowWell(escrow[e]) /\ RowFits(e)
  <2>1. TypeOK'
    BY ActiveStays DEF AInv, VInv
  <2> QED BY <2>1, ActiveFacts, IdleTyped DEF TypeOK, RowsInv
<1>1. ASSUME NEW h \in Handlers, Created(h, e)
      PROVE  /\ escrow'[e].visit = req[h].visit
             /\ Outcome(escrow'[e]) = Outcome(escrow[e])
  <2>1. escrow[e].status = "pending"
    BY <1>0, <1>1 DEF Created, RowWell, NoRow
  <2>2. escrow'[e].visit = req[h].visit /\ escrow'[e].status = "pending"
    BY <1>0, <1>1 DEF Created, NoRow
  <2> QED BY <2>1, <2>2, OutcomeCases
<1>2. ASSUME NEW h \in Handlers, Captured(h, e)
      PROVE  /\ escrow'[e].visit = escrow[e].visit
             /\ Outcome(escrow[e]) = "open"
             /\ Outcome(escrow'[e]) = IF req[h].won THEN "rejected" ELSE "bound"
  <2>1. /\ escrow[e].status \notin {"refunded", "held", "released"}
        /\ ~escrow[e].duplicate
    BY <1>0, <1>2 DEF Captured, Settled, RowWell
  <2>2. req[h] \in Requests /\ escrow'[e] = CaptureUpdate(e, req[h])
    BY <1>2, ActiveFacts DEF Captured, TypeOK
  <2>3. CASE req[h].won
    <3>1. escrow'[e].status = "cancelled" /\ escrow'[e].duplicate
      BY <1>0, <2>2, <2>3 DEF CaptureUpdate, PaymentUpdate, Rows
    <3>2. escrow'[e].visit = req[h].seen.visit /\ req[h].seen.visit = req[h].visit
      BY <1>0, <1>2, <2>2, <2>3, ActiveFacts DEF CaptureUpdate, PaymentUpdate, Rows, Captured,
         Ends, At, ScopeInv, Scoped
    <3> QED BY <1>2, <2>1, <2>3, <3>1, <3>2, OutcomeCases DEF Captured
  <2>4. CASE ~req[h].won
    <3>1. /\ escrow'[e].status = "held" /\ escrow'[e].paymentStatus = "captured"
          /\ escrow'[e].visit = escrow[e].visit
      BY <1>0, <2>2, <2>4 DEF CaptureUpdate, PaymentUpdate, Rows
    <3>2. isVisitBoundPayment(escrow'[e])
      BY <3>1 DEF isVisitBoundPayment, isEscrowPaidRecord
    <3> QED BY <2>1, <2>4, <3>1, <3>2, OutcomeCases
  <2> QED BY <2>3, <2>4
<1>3. ASSUME NEW h \in Handlers, Refunded(h, e)
      PROVE  escrow'[e].visit = escrow[e].visit /\ Outcome(escrow'[e]) = "returned"
  <2>1. escrow'[e].status = "refunded" /\ escrow'[e].visit = escrow[e].visit
    BY <1>0, <1>3 DEF Refunded, Rows
  <2> QED BY <2>1, OutcomeCases
<1>4. ASSUME Applied(e)
      PROVE  /\ escrow'[e].visit = escrow[e].visit
             /\ Outcome(escrow'[e]) = Outcome(escrow[e])
  <2>1. PICK event \in {"authorized", "failed"} :
          escrow'[e] = PaymentUpdate(escrow[e], event, e)
    BY <1>4 DEF Applied
  <2>2. /\ escrow'[e].status \in {escrow[e].status, "cancelled"}
        /\ escrow'[e].visit = escrow[e].visit /\ escrow'[e].duplicate = escrow[e].duplicate
    BY <1>0, <2>1 DEF PaymentUpdate, Rows
  <2>3. /\ escrow[e].status \notin {"held", "released", "refunded"}
        /\ ~escrow[e].duplicate
    BY <1>0, <1>4 DEF Applied, Settled, RowWell
  <2> QED BY <2>2, <2>3, OutcomeCases
<1>5. ASSUME PaidOut(e)
      PROVE  /\ escrow'[e].visit = escrow[e].visit
             /\ Outcome(escrow'[e]) = Outcome(escrow[e])
  <2>1. /\ escrow'[e].status = "released" /\ escrow'[e].paymentStatus = escrow[e].paymentStatus
        /\ escrow'[e].visit = escrow[e].visit /\ escrow[e].status = "held"
        /\ escrow[e].paymentStatus = "captured"
    BY <1>0, <1>5 DEF PaidOut, Rows, RowWell
  <2>2. isVisitBoundPayment(escrow'[e]) /\ isVisitBoundPayment(escrow[e])
    BY <2>1 DEF isVisitBoundPayment, isEscrowPaidRecord
  <2> QED BY <2>1, <2>2, OutcomeCases
<1>6. ASSUME Superseded(e)
      PROVE  /\ escrow'[e].visit = escrow[e].visit
             /\ Outcome(escrow'[e]) = Outcome(escrow[e])
  <2>1. /\ escrow'[e].status = "cancelled" /\ escrow'[e].visit = escrow[e].visit
        /\ escrow'[e].duplicate = escrow[e].duplicate
        /\ escrow[e].status = "pending" /\ escrow[e].paymentStatus = "pending"
    BY <1>0, <1>6 DEF Superseded, Unpaid, Rows
  <2>2. ~escrow[e].duplicate
    BY <1>0, <2>1 DEF RowWell
  <2> QED BY <2>1, <2>2, OutcomeCases
<1> QED BY <1>1, <1>2, <1>3, <1>4, <1>5, <1>6 DEF Written

\* The bound orders of VisitPayments are the bound payments of the rows.
LEMMA PromiseBound ==
  ASSUME NEW v
  PROVE  Promise!Bound(v) = BoundPayments(v)
BY OutcomeCases DEF Promise!Bound, BoundPayments, OrdersOf

\* Every step is one of VisitPayments, or changes nothing it sees.
LEMMA PromiseStep ==
  ASSUME Orderly, "readError" \notin Faults, AInv, [Next]_vars
  PROVE  [Promise!PNext]_(Promise!pvars)
<1> DEFINE visit == [e \in Escrows |-> escrow[e].visit]
           state == [e \in Escrows |-> Outcome(escrow[e])]
<1>1. visit' = [e \in Escrows |-> escrow'[e].visit] /\ state' = [e \in Escrows |-> Outcome(escrow'[e])]
  BY DEF Outcome, isVisitBoundPayment, isEscrowPaidRecord
<1>2. CASE UNCHANGED escrow
  BY <1>2 DEF Promise!pvars, Outcome, isVisitBoundPayment, isEscrowPaidRecord
<1>3. ASSUME NEW e \in Escrows, Written(e)
      PROVE  [Promise!PNext]_(Promise!pvars)
  <2>1. \A f \in Escrows \ {e} : escrow'[f] = escrow[f]
    BY <1>3 DEF Written, Created, Captured, Refunded, Applied, PaidOut, Superseded, Only
  <2>2. state' = [state EXCEPT ![e] = Outcome(escrow'[e])]
    BY <1>1, <2>1
  <2>3. visit' = [visit EXCEPT ![e] = escrow'[e].visit]
    BY <1>1, <2>1
  <2>4. CASE escrow'[e].visit = escrow[e].visit /\ Outcome(escrow'[e]) = Outcome(escrow[e])
    <3>1. state' = state /\ visit' = visit
      BY <2>2, <2>3, <2>4
    <3> QED BY <3>1 DEF Promise!pvars
  <2>5. ASSUME NEW h \in Handlers, Created(h, e), escrow'[e].visit = req[h].visit,
               Outcome(escrow'[e]) = Outcome(escrow[e])
        PROVE  Promise!PNext
    <3>1. /\ escrow[e].visit = NoVisit /\ req[h].visit \in Visits
          /\ BoundPayments(req[h].visit) = {}
      BY <2>5, ActiveFacts DEF Created, Ends, At, ScopeInv, Scoped, LockedSteps, KeptInv,
         KeptAt, Kept
    <3>2. state' = state /\ visit' = [visit EXCEPT ![e] = req[h].visit]
      BY <2>2, <2>3, <2>5
    <3>3. PICK v \in Visits : v = req[h].visit
      BY <3>1
    <3>4. Promise!Order(e, v)
      BY <3>1, <3>2, <3>3, PromiseBound DEF Promise!Order
    <3> QED BY <3>4 DEF Promise!PNext
  <2>6. ASSUME NEW h \in Handlers, Captured(h, e), escrow'[e].visit = escrow[e].visit,
               Outcome(escrow[e]) = "open",
               Outcome(escrow'[e]) = IF req[h].won THEN "rejected" ELSE "bound"
        PROVE  Promise!PNext
    <3>1. visit' = visit
      BY <2>3, <2>6
    <3>2. At(h, "capture.bind") /\ Kept(req[h]) /\ escrow[e].visit = req[h].visit
          /\ req[h].escrow = e /\ req[h].visit \in Visits
      BY <2>6, ActiveFacts DEF Captured, Ends, KeptInv, KeptAt, At, ScopeInv, Scoped, LockedSteps
    <3>3. CASE req[h].won
      <4>1. BoundPayments(escrow[e].visit) # {}
        BY <3>2, <3>3 DEF At, Kept
      <4>2. state' = [state EXCEPT ![e] = "rejected"] /\ state[e] = "open"
        BY <2>2, <2>6, <3>3
      <4>3. Promise!Reject(e)
        BY <3>1, <4>1, <4>2, PromiseBound DEF Promise!Reject, Promise!Settles
      <4> QED BY <4>3 DEF Promise!PNext
    <3>4. CASE ~req[h].won
      <4>1. BoundPayments(escrow[e].visit) \subseteq {e}
        BY <3>2, <3>4, ActiveFacts DEF WonInv
      <4>2. e \notin BoundPayments(escrow[e].visit)
        BY <2>6, OutcomeCases DEF BoundPayments
      <4>3. state' = [state EXCEPT ![e] = "bound"] /\ state[e] = "open"
        BY <2>2, <2>6, <3>4
      <4>4. Promise!Bind(e)
        BY <3>1, <3>2, <4>1, <4>2, <4>3, PromiseBound, VisitAssumption
           DEF Promise!Bind, Promise!Settles
      <4> QED BY <4>4 DEF Promise!PNext
    <3> QED BY <3>3, <3>4
  <2>7. ASSUME NEW h \in Handlers, Refunded(h, e), escrow'[e].visit = escrow[e].visit,
               Outcome(escrow'[e]) = "returned", Outcome(escrow[e]) # "returned"
        PROVE  Promise!PNext
    <3>1. visit' = visit
      BY <2>3, <2>7
    <3>2. state' = [state EXCEPT ![e] = "returned"] /\ state[e] \in {"open", "bound", "rejected"}
      BY <2>2, <2>7, OutcomeCases
    <3>3. Promise!Return(e)
      BY <3>1, <3>2 DEF Promise!Return, Promise!Settles
    <3> QED BY <3>3 DEF Promise!PNext
  <2> QED BY <1>3, <2>4, <2>5, <2>6, <2>7, OutcomeWrites
<1> QED BY <1>2, <1>3, ActiveFacts, WriteStep

\* The locked handlers implement VisitPayments: a capture is rejected only while
\* another payment is the visit's payment, a rejected one is never bound, and
\* returned money is never bound again (bindRecurringVisitCapture, processRefund,
\* createEscrow), under the assumptions of PaidOrdersStay.
THEOREM PromiseKept ==
  ASSUME "lockExpiry" \notin Faults, "reassign" \notin Operations, "readError" \notin Faults
  PROVE  Spec => KeepsPromise
<1>1. Orderly
  BY DEF Orderly
<1>2. Init => Promise!PInit
  <2>1. Outcome(NoRow) = "open" /\ NoRow.visit = NoVisit
    BY DEF Outcome, NoRow, isVisitBoundPayment
  <2> QED BY <2>1 DEF Init, Promise!PInit
<1>3. AInv /\ [Next]_vars => AInv'
  BY <1>1, ActiveStays
<1>4. AInv /\ [Next]_vars => [Promise!PNext]_(Promise!pvars)
  BY <1>1, PromiseStep
<1> QED BY <1>2, <1>3, <1>4, ActiveInit, PTL DEF Spec, KeepsPromise, Promise!PSpec

-----------------------------------------------------------------------------
(* Only held payments move                                                 *)
(*                                                                         *)
(* No assumption here: locks may expire under their holders, and payments  *)
(* are moved while they are captured. What the conditional writes rely on  *)
(* is that the state of a row only advances.                               *)

Rank(row) == IF Settled(row) THEN 3
             ELSE IF row.status = "cancelled" THEN 2
             ELSE IF row.paymentStatus = "authorized" THEN 1 ELSE 0

\* RowWell without the rows that do not exist.
RowSound(row) ==
    /\ row.status \in {"held", "released"} => row.paymentStatus = "captured"
    /\ row.paymentStatus = "captured" =>
          \/ row.status \in {"held", "released", "refunded"}
          \/ row.status = "cancelled" /\ row.duplicate
    /\ row.duplicate => row.paymentStatus = "captured"

\* The row a capture inspected has advanced at most; while it has not, the
\* payment was moved only if it was authorized.
Inspected(seen, row) ==
    /\ seen.visit # NoVisit
    /\ ~Settled(seen)
    /\ Rank(seen) <= Rank(row)
    /\ row.visit # seen.visit =>
         Rank(row) >= 1 /\ (Rank(row) = 2 => Rank(seen) < 2)

\* The steps that work on an order that exists.
WorkSteps == CaptureSteps \cup RefundSteps
               \cup {"event.apply", "reassign.target", "reassign.write"}

About(r) ==
    /\ r.step \in LockedSteps \cup {"waiting"} => r.visit \in Visits
    /\ r.step = "waiting" => r.next \in {"capture.inspect", "order.check", "refund.check"}
    /\ Stage(r) \in OrderSteps /\ r.escrow \in Escrows => escrow[r.escrow].visit = NoVisit
    /\ r.step = "order.create" => r.escrow \in Escrows
    /\ Stage(r) \in WorkSteps => r.escrow \in Escrows /\ escrow[r.escrow].visit # NoVisit
    /\ r.step \in {"capture.siblings", "capture.bind"} => Inspected(r.seen, escrow[r.escrow])
    /\ r.step = "event.apply" => r.event # "captured" /\ ~Settled(r.seen)
    /\ r.step \in {"reassign.target", "reassign.write"} =>
         r.visit \in Visits /\ isEscrowActiveHeldRecord(r.seen)

AboutAt(h) == About(req[h])
AboutInv   == \A h \in Handlers : AboutAt(h)
SoundInv   == \A e \in Escrows : RowSound(escrow[e])

GInv == TInv /\ OwnInv /\ ExistInv /\ SoundInv /\ AboutInv

\* What a step makes of row e: a new order; a row further on in the same
\* visit; or a held payment, moved.
Fresh(e) == /\ escrow[e].visit = NoVisit
            /\ RowSound(escrow'[e])
            /\ \E h \in Handlers : Ends(h, "order.create") /\ req[h].escrow = e

Advanced(e) == /\ RowSound(escrow'[e])
               /\ Rank(escrow[e]) <= Rank(escrow'[e])
               /\ escrow'[e].visit = escrow[e].visit

Moved(e) == /\ RowSound(escrow'[e])
            /\ Rank(escrow[e]) <= Rank(escrow'[e])
            /\ Rank(escrow'[e]) \in {1, 3}
            /\ escrow[e].visit # NoVisit /\ escrow'[e].visit # NoVisit
            /\ isEscrowActiveHeldRecord(escrow[e])

Turned(e) == Fresh(e) \/ Advanced(e) \/ Moved(e)

\* The rank of a row, from its columns.
LEMMA RankCases ==
  ASSUME NEW row
  PROVE  /\ Rank(row) \in 0..3
         /\ Rank(row) = 3 <=> Settled(row)
         /\ Rank(row) = 2 => row.status = "cancelled"
         /\ Rank(row) = 1 => row.paymentStatus = "authorized" /\ row.status # "cancelled"
         /\ ~Settled(row) /\ row.status = "cancelled" => Rank(row) = 2
         /\ ~Settled(row) /\ row.status # "cancelled" /\ row.paymentStatus = "authorized" =>
              Rank(row) = 1
         /\ ~Settled(row) /\ row.status # "cancelled" /\ row.paymentStatus # "authorized" =>
              Rank(row) = 0
         /\ isEscrowActiveHeldRecord(row) => Rank(row) \in {1, 3}
<1>1. CASE Settled(row)
  BY <1>1 DEF Rank
<1>2. CASE ~Settled(row)
  <2>1. isEscrowActiveHeldRecord(row) =>
          row.status # "cancelled" /\ row.paymentStatus = "authorized"
    BY <1>2 DEF isEscrowActiveHeldRecord, isEscrowPaidRecord, Settled
  <2> QED BY <1>2, <2>1 DEF Rank
<1> QED BY <1>1, <1>2

\* A payment event that still applies advances the row.
LEMMA EventAdvances ==
  ASSUME NEW row \in Rows, NEW e \in Escrows, NEW event \in {"authorized", "failed"},
         RowSound(row), ~Settled(row)
  PROVE  LET new == PaymentUpdate(row, event, e) IN
         /\ RowSound(new) /\ Rank(row) <= Rank(new) /\ new.visit = row.visit
<1> DEFINE new == PaymentUpdate(row, event, e)
<1>1. /\ new.paymentStatus = event /\ new.visit = row.visit /\ new.duplicate = row.duplicate
      /\ event = "authorized" => new.status = row.status
      /\ event = "failed" => new.status = "cancelled"
  BY DEF PaymentUpdate, Rows
<1>2. /\ row.status \notin {"held", "released", "refunded"} /\ row.paymentStatus # "captured"
      /\ ~row.duplicate
  BY DEF Settled, RowSound
<1> HIDE DEF new
<1>3. RowSound(new) /\ ~Settled(new)
  BY <1>1, <1>2 DEF RowSound, Settled
<1>4. Rank(row) <= Rank(new)
  BY <1>1, <1>3, RankCases
<1> QED BY <1>1, <1>3, <1>4 DEF new

\* A capture that finds the row in the state it inspected settles it, and gives
\* it back its old visit only if the payment was authorized.
LEMMA CaptureAdvances ==
  ASSUME NEW row \in Rows, NEW seen \in Rows, NEW new \in Rows,
         RowSound(row), Inspected(seen, row), SameState(row, seen),
         new.paymentStatus = "captured",
         \/ new.status = "held" /\ new.duplicate = row.duplicate /\ new.visit = row.visit
         \/ new.status = "cancelled" /\ new.duplicate /\ new.visit = seen.visit
  PROVE  /\ RowSound(new) /\ Rank(new) = 3 /\ Rank(row) <= 3
         /\ new.visit # row.visit => isEscrowActiveHeldRecord(row)
<1>1. RowSound(new) /\ Rank(new) = 3 /\ Rank(row) <= 3
  BY RankCases DEF RowSound, Settled
<1>2. ASSUME new.visit # row.visit
      PROVE  isEscrowActiveHeldRecord(row)
  <2>1. Rank(row) >= 1 /\ (Rank(row) = 2 => Rank(seen) < 2) /\ ~Settled(seen)
    BY <1>2 DEF Inspected
  <2>2. Rank(row) = Rank(seen) /\ ~Settled(row)
    BY <2>1 DEF SameState, Rank, Settled
  <2>3. Rank(row) = 1
    BY <2>1, <2>2, RankCases
  <2>4. row.paymentStatus = "authorized" /\ row.status # "cancelled"
    BY <2>3, RankCases
  <2> QED BY <2>2, <2>4 DEF isEscrowActiveHeldRecord, isEscrowPaidRecord, Settled
<1> QED BY <1>1, <1>2

\* Every step turns every row in one of these ways.
LEMMA TurnStep ==
  ASSUME GInv, [Next]_vars, NEW e \in Escrows
  PROVE  Turned(e)
<1>0. /\ TypeOK /\ escrow \in [Escrows -> Rows] /\ escrow[e] \in Rows /\ RowSound(escrow[e])
      /\ \A h \in Handlers : req[h] \in Requests /\ About(req[h])
  BY DEF GInv, TInv, TypeOK, SoundInv, AboutInv, AboutAt
<1>1. CASE escrow'[e] = escrow[e]
  BY <1>0, <1>1, RankCases DEF Turned, Advanced
<1>2. ASSUME NEW f \in Escrows, NEW row, escrow' = [escrow EXCEPT ![f] = row],
             escrow'[e] # escrow[e]
      PROVE  f = e /\ escrow'[e] = row
  BY <1>0, <1>2
<1>3. ASSUME NEW f \in Escrows, PayOut(f), escrow'[e] # escrow[e]
      PROVE  Turned(e)
  <2>1. f = e /\ escrow'[e] = [escrow[e] EXCEPT !.status = "released"] /\ escrow[e].status = "held"
    BY <1>2, <1>3 DEF PayOut
  <2>2. /\ escrow'[e].status = "released" /\ escrow'[e].paymentStatus = escrow[e].paymentStatus
        /\ escrow'[e].duplicate = escrow[e].duplicate /\ escrow'[e].visit = escrow[e].visit
    BY <1>0, <2>1 DEF Rows
  <2>3. Settled(escrow'[e]) /\ RowSound(escrow'[e])
    BY <1>0, <2>1, <2>2 DEF Settled, RowSound
  <2>4. Rank(escrow'[e]) = 3 /\ Rank(escrow[e]) <= 3
    BY <2>3, RankCases
  <2> QED BY <2>2, <2>3, <2>4 DEF Turned, Advanced
<1>4. ASSUME NEW h \in Handlers, Continue(h), escrow'[e] # escrow[e]
      PROVE  Turned(e)
  <2>0. req[h] \in Requests /\ About(req[h])
    BY <1>0
  <2>1. CASE BindCapture(h)
    <3>1. /\ escrow' = [escrow EXCEPT ![req[h].escrow] = CaptureUpdate(req[h].escrow, req[h])]
          /\ SameState(escrow[req[h].escrow], req[h].seen) /\ req[h].step = "capture.bind"
      BY <1>4, <2>1 DEF BindCapture, At
    <3>2. /\ req[h].escrow \in Escrows /\ escrow[req[h].escrow].visit # NoVisit
          /\ Inspected(req[h].seen, escrow[req[h].escrow])
      BY <2>0, <3>1 DEF About, Stage, WorkSteps, CaptureSteps
    <3> DEFINE row == CaptureUpdate(req[h].escrow, req[h])
    <3>3. escrow' = [escrow EXCEPT ![req[h].escrow] = row]
      BY <3>1
    <3> HIDE DEF row
    <3>4. req[h].escrow = e /\ escrow'[e] = row
      BY <1>2, <1>4, <3>2, <3>3
    <3>5. row \in Rows
      BY <1>0, <2>0, <3>2, CaptureUpdateTyped DEF row
    <3>6. /\ row.paymentStatus = "captured"
          /\ \/ row.status = "held" /\ row.duplicate = escrow[e].duplicate
                /\ row.visit = escrow[e].visit
             \/ row.status = "cancelled" /\ row.duplicate /\ row.visit = req[h].seen.visit
      BY <1>0, <3>4 DEF row, CaptureUpdate, PaymentUpdate, Rows
    <3>7. req[h].seen \in Rows /\ Inspected(req[h].seen, escrow[e]) /\ SameState(escrow[e], req[h].seen)
          /\ escrow[e].visit # NoVisit
      BY <2>0, <3>1, <3>2, <3>4 DEF Requests
    <3>8. /\ RowSound(row) /\ Rank(row) = 3 /\ Rank(escrow[e]) <= 3
          /\ row.visit # escrow[e].visit => isEscrowActiveHeldRecord(escrow[e])
      BY <1>0, <3>5, <3>6, <3>7, CaptureAdvances
    <3>9. row.visit # NoVisit
      BY <3>6, <3>7 DEF Inspected
    <3> QED BY <3>4, <3>7, <3>8, <3>9 DEF Turned, Advanced, Moved
  <2>2. CASE SupersedeOrder(h)
    <3>1. PICK f \in req[h].todo : escrow' = IF Unpaid(escrow[f])
                      THEN [escrow EXCEPT ![f].status = "cancelled"] ELSE escrow
      BY <2>2 DEF SupersedeOrder
    <3>2. f \in Escrows
      BY <2>0, <3>1 DEF Requests
    <3>3. Unpaid(escrow[f]) /\ escrow' = [escrow EXCEPT ![f] = [escrow[f] EXCEPT !.status = "cancelled"]]
      BY <1>0, <1>4, <3>1, <3>2
    <3>4. f = e /\ escrow'[e] = [escrow[e] EXCEPT !.status = "cancelled"]
      BY <1>2, <1>4, <3>2, <3>3
    <3>5. /\ escrow[e].status = "pending" /\ escrow[e].paymentStatus = "pending"
          /\ escrow'[e].status = "cancelled" /\ escrow'[e].paymentStatus = "pending"
          /\ escrow'[e].duplicate = escrow[e].duplicate /\ escrow'[e].visit = escrow[e].visit
      BY <1>0, <3>3, <3>4 DEF Unpaid, Rows
    <3>6. RowSound(escrow'[e]) /\ ~Settled(escrow'[e]) /\ ~Settled(escrow[e])
      BY <1>0, <3>5 DEF RowSound, Settled
    <3>7. Rank(escrow'[e]) = 2 /\ Rank(escrow[e]) = 0
      BY <3>5, <3>6, RankCases
    <3> QED BY <3>5, <3>6, <3>7 DEF Turned, Advanced
  <2>3. CASE CreateOrder(h)
    <3> DEFINE row == [NoRow EXCEPT !.visit = req[h].visit]
    <3>1. /\ At(h, "order.create") /\ req'[h].step = "release"
          /\ escrow' = [escrow EXCEPT ![req[h].escrow] = row]
      BY <1>0, <2>3 DEF CreateOrder, GoTo, TypeOK, Requests
    <3>2. req[h].escrow \in Escrows /\ escrow[req[h].escrow].visit = NoVisit
      BY <2>0, <3>1 DEF At, About, Stage, OrderSteps
    <3>3. row.status = "pending" /\ row.paymentStatus = "pending" /\ row.duplicate = FALSE
      BY DEF NoRow
    <3> HIDE DEF row
    <3>4. req[h].escrow = e /\ escrow'[e] = row
      BY <1>2, <1>4, <3>1, <3>2
    <3>5. RowSound(escrow'[e])
      BY <3>3, <3>4 DEF RowSound
    <3> QED BY <3>1, <3>2, <3>4, <3>5 DEF Turned, Fresh, Ends
  <2>4. CASE CommitRefund(h)
    <3>1. /\ At(h, "refund.commit")
          /\ escrow' = [escrow EXCEPT ![req[h].escrow].status = "refunded",
                                      ![req[h].escrow].paymentId = req[h].escrow]
      BY <2>4 DEF CommitRefund
    <3>2. req[h].escrow \in Escrows
      BY <2>0, <3>1 DEF At, About, Stage, WorkSteps, RefundSteps
    <3>3. escrow' = [escrow EXCEPT ![req[h].escrow] =
                       [escrow[req[h].escrow] EXCEPT !.status = "refunded", !.paymentId = req[h].escrow]]
      BY <1>0, <3>1, <3>2
    <3>4. escrow'[e] = [escrow[e] EXCEPT !.status = "refunded", !.paymentId = e]
      BY <1>2, <1>4, <3>2, <3>3
    <3>5. /\ escrow'[e].status = "refunded" /\ escrow'[e].paymentStatus = escrow[e].paymentStatus
          /\ escrow'[e].duplicate = escrow[e].duplicate /\ escrow'[e].visit = escrow[e].visit
      BY <1>0, <3>4 DEF Rows
    <3>6. RowSound(escrow'[e]) /\ Settled(escrow'[e])
      BY <1>0, <3>5 DEF RowSound, Settled
    <3>7. Rank(escrow'[e]) = 3 /\ Rank(escrow[e]) <= 3
      BY <3>6, RankCases
    <3> QED BY <3>5, <3>6, <3>7 DEF Turned, Advanced
  <2>5. CASE ApplyPaymentEvent(h)
    <3>1. At(h, "event.apply")
      BY <2>5 DEF ApplyPaymentEvent
    <3>2. /\ req[h].escrow \in Escrows /\ ~Settled(req[h].seen)
          /\ req[h].event \in {"authorized", "failed"}
      BY <2>0, <3>1 DEF At, About, Stage, WorkSteps, Requests, PaymentEvents
    <3> DEFINE row == PaymentUpdate(escrow[req[h].escrow], req[h].event, req[h].escrow)
    <3>3. /\ escrow' = [escrow EXCEPT ![req[h].escrow] = row]
          /\ SameState(escrow[req[h].escrow], req[h].seen)
      BY <1>0, <1>4, <2>5, <3>2 DEF ApplyPaymentEvent
    <3> HIDE DEF row
    <3>4. req[h].escrow = e /\ escrow'[e] = row
      BY <1>2, <1>4, <3>2, <3>3
    <3>5. escrow'[e] = PaymentUpdate(escrow[e], req[h].event, e) /\ ~Settled(escrow[e])
      BY <3>2, <3>3, <3>4 DEF row, SameState, Settled
    <3>6. RowSound(escrow'[e]) /\ Rank(escrow[e]) <= Rank(escrow'[e]) /\ escrow'[e].visit = escrow[e].visit
      BY <1>0, <3>2, <3>5, EventAdvances
    <3> QED BY <3>6 DEF Turned, Advanced
  <2>6. CASE WriteVisitTag(h)
    <3>1. At(h, "reassign.write") /\ escrow[req[h].escrow] = req[h].seen
          /\ escrow' = [escrow EXCEPT ![req[h].escrow].visit = req[h].visit]
      BY <1>4, <2>6 DEF WriteVisitTag
    <3>2. /\ req[h].escrow \in Escrows /\ escrow[req[h].escrow].visit # NoVisit
          /\ req[h].visit \in Visits /\ isEscrowActiveHeldRecord(req[h].seen)
      BY <2>0, <3>1 DEF At, About, Stage, WorkSteps
    <3>3. escrow' = [escrow EXCEPT ![req[h].escrow] =
                       [escrow[req[h].escrow] EXCEPT !.visit = req[h].visit]]
      BY <1>0, <3>1, <3>2
    <3>4. req[h].escrow = e /\ escrow'[e] = [escrow[e] EXCEPT !.visit = req[h].visit]
      BY <1>2, <1>4, <3>2, <3>3
    <3>5. /\ escrow'[e].status = escrow[e].status /\ escrow'[e].paymentStatus = escrow[e].paymentStatus
          /\ escrow'[e].duplicate = escrow[e].duplicate /\ escrow'[e].visit = req[h].visit
      BY <1>0, <3>4 DEF Rows
    <3>6. RowSound(escrow'[e]) /\ Rank(escrow'[e]) = Rank(escrow[e])
      BY <1>0, <3>5 DEF RowSound, Rank, Settled
    <3>7. isEscrowActiveHeldRecord(escrow[e]) /\ escrow[e].visit # NoVisit /\ escrow'[e].visit # NoVisit
      BY <3>1, <3>2, <3>4, <3>5, VisitAssumption
    <3> QED BY <3>6, <3>7, RankCases DEF Turned, Moved
  <2> QED BY <1>4, <2>1, <2>2, <2>3, <2>4, <2>5, <2>6 DEF Continue, AcquireLock, ExpireLock,
      GiveUpWaiting, ReleaseLock, InspectCapture, FindWinners, CheckVisitUnpaid,
      ListUnpaidOrders, AllSuperseded, CheckRefund, CallGatewayRefund, CheckTargetVisit
<1>5. ASSUME NEW h \in Handlers, Receive(h)
      PROVE  UNCHANGED escrow
  BY <1>5 DEF Receive, BeginCapture, BeginOrder, BeginRefund, ReceivePaymentEvent, BeginReassign
<1>6. CASE escrow'[e] # escrow[e]
  BY <1>3, <1>4, <1>5, <1>6 DEF Next, vars, External, GatewayMoves, Crash
<1> QED BY <1>1, <1>6

\* An inspected row may be captured whatever the others made of it.
LEMMA InspectedStays ==
  ASSUME NEW seen, NEW e \in Escrows, Inspected(seen, escrow[e]), Advanced(e) \/ Moved(e)
  PROVE  Inspected(seen, escrow'[e])
<1>1. /\ Rank(seen) \in 0..3 /\ Rank(escrow[e]) \in 0..3 /\ Rank(escrow'[e]) \in 0..3
      /\ Rank(escrow[e]) <= Rank(escrow'[e])
  BY RankCases DEF Advanced, Moved
<1>2. ASSUME escrow'[e].visit # seen.visit
      PROVE  Rank(escrow'[e]) >= 1 /\ (Rank(escrow'[e]) = 2 => Rank(seen) < 2)
  <2>1. CASE Moved(e)
    BY <1>1, <2>1 DEF Moved
  <2>2. CASE Advanced(e)
    <3>1. Rank(escrow[e]) >= 1 /\ (Rank(escrow[e]) = 2 => Rank(seen) < 2)
      BY <1>2, <2>2 DEF Advanced, Inspected
    <3>2. Rank(seen) <= Rank(escrow[e])
      BY DEF Inspected
    <3> QED BY <1>1, <3>1, <3>2
  <2> QED BY <2>1, <2>2
<1>3. seen.visit # NoVisit /\ ~Settled(seen) /\ Rank(seen) <= Rank(escrow'[e])
  BY <1>1 DEF Inspected
<1> QED BY <1>2, <1>3 DEF Inspected

\* What a request knows of its row stays true while others move.
LEMMA AboutStays ==
  ASSUME GInv, \A e \in Escrows : Turned(e), NEW g \in Handlers, req'[g] = req[g]
  PROVE  AboutAt(g)'
<1>1. PICK r : r = req[g]
  OBVIOUS
<1>2. r = req'[g] /\ About(r)
  BY <1>1 DEF GInv, AboutInv, AboutAt
<1>3. ASSUME Stage(r) \in OrderSteps, r.escrow \in Escrows
      PROVE  escrow'[r.escrow].visit = NoVisit
  <2>1. escrow[r.escrow].visit = NoVisit
    BY <1>2, <1>3 DEF About
  <2>2. ASSUME NEW h \in Handlers, Ends(h, "order.create"), req[h].escrow = r.escrow
        PROVE  FALSE
    <3>1. h # g
      BY <1>2, <1>3, <2>2 DEF Ends, Stage, OrderSteps
    <3>2. Stage(req[h]) \in OrderSteps
      BY <2>2 DEF Ends, At, Stage, OrderSteps
    <3> QED BY <1>1, <1>3, <2>2, <3>1, <3>2 DEF GInv, OwnInv
  <2> QED BY <1>3, <2>1, <2>2 DEF Turned, Fresh, Advanced, Moved
<1>4. ASSUME Stage(r) \in WorkSteps
      PROVE  /\ r.escrow \in Escrows /\ escrow'[r.escrow].visit # NoVisit
             /\ Advanced(r.escrow) \/ Moved(r.escrow)
  <2>1. r.escrow \in Escrows /\ escrow[r.escrow].visit # NoVisit
    BY <1>2, <1>4 DEF About
  <2> QED BY <2>1 DEF Turned, Fresh, Advanced, Moved
<1>5. ASSUME r.step \in {"capture.siblings", "capture.bind"}
      PROVE  Inspected(r.seen, escrow'[r.escrow])
  <2>1. Stage(r) \in WorkSteps
    BY <1>5 DEF Stage, WorkSteps, CaptureSteps
  <2>2. PICK e \in Escrows : e = r.escrow
    BY <1>4, <2>1
  <2>3. Inspected(r.seen, escrow[e]) /\ (Advanced(e) \/ Moved(e))
    BY <1>2, <1>4, <1>5, <2>1, <2>2 DEF About
  <2> QED BY <2>2, <2>3, InspectedStays
<1>6. /\ r.step \in LockedSteps \cup {"waiting"} => r.visit \in Visits
      /\ r.step = "waiting" => r.next \in {"capture.inspect", "order.check", "refund.check"}
      /\ r.step = "order.create" => r.escrow \in Escrows
      /\ r.step = "event.apply" => r.event # "captured" /\ ~Settled(r.seen)
      /\ r.step \in {"reassign.target", "reassign.write"} =>
           r.visit \in Visits /\ isEscrowActiveHeldRecord(r.seen)
  BY <1>2 DEF About
<1>7. Stage(r) \in WorkSteps => r.escrow \in Escrows /\ escrow'[r.escrow].visit # NoVisit
  BY <1>4
<1>8. About(r)'
  BY <1>1, <1>2, <1>3, <1>5, <1>6, <1>7 DEF About
<1> QED BY <1>2, <1>8 DEF AboutAt


\* A request moves alone, and takes no order another one is about to create.
Takes(h) ==
    /\ \A g \in Handlers \ {h} : req'[g] = req[g]
    /\ \/ req'[h].escrow \in {req[h].escrow, NoPayment}
       \/ \A g \in Handlers : Stage(req[g]) \in OrderSteps => req[g].escrow # req'[h].escrow
    /\ Stage(req'[h]) \in OrderSteps /\ req'[h].escrow \in Escrows =>
         \/ Stage(req[h]) \in OrderSteps /\ req'[h].escrow = req[h].escrow
         \/ \A g \in Handlers : req[g].escrow # req'[h].escrow

\* A request that begins knows the row it works on.
LEMMA AboutReceived ==
  ASSUME GInv, NEW h \in Handlers, Receive(h)
  PROVE  Takes(h) /\ AboutAt(h)'
<1>0. TypeOK /\ ExistInv /\ \A g \in Handlers : About(req[g])
  BY DEF GInv, TInv, AboutInv, AboutAt
<1>1. PICK e \in Escrows :
        \/ BeginCapture(h, e)
        \/ \E v \in Visits : BeginOrder(h, e, v)
        \/ BeginRefund(h, e)
        \/ \E event \in PaymentEvents : ReceivePaymentEvent(h, e, event)
        \/ \E v \in Visits : BeginReassign(h, e, v)
  BY DEF Receive
<1>2. escrow[e] \in Rows /\ escrow[e].visit \in Visits \cup {NoVisit}
  BY <1>0 DEF TypeOK, Rows
<1>3. escrow' = escrow
  BY <1>1 DEF BeginCapture, BeginOrder, BeginRefund, ReceivePaymentEvent, BeginReassign
<1>4. ASSUME NEW q, Become(h, q)
      PROVE  req'[h] = q /\ \A g \in Handlers \ {h} : req'[g] = req[g]
  BY <1>0, <1>4 DEF Become, TypeOK
<1>5. ASSUME escrow[e].visit # NoVisit, req'[h].escrow = e, Stage(req'[h]) \in WorkSteps,
             \A g \in Handlers \ {h} : req'[g] = req[g]
      PROVE  Takes(h)
  <2>1. \A g \in Handlers : Stage(req[g]) \in OrderSteps => req[g].escrow # e
    BY <1>0, <1>5 DEF About
  <2>2. Stage(req'[h]) \notin OrderSteps
    BY <1>5 DEF WorkSteps, CaptureSteps, RefundSteps, OrderSteps
  <2> QED BY <1>5, <2>1, <2>2 DEF Takes
<1>6. ASSUME NEW v, NEW next \in {"capture.inspect", "order.check", "refund.check"},
             WaitForLock(h, v, [Idle EXCEPT !.escrow = e, !.next = next])
      PROVE  /\ req'[h].step = "waiting" /\ req'[h].next = next /\ req'[h].escrow = e
             /\ req'[h].visit = v /\ Stage(req'[h]) = next
             /\ \A g \in Handlers \ {h} : req'[g] = req[g]
  <2> DEFINE r == [[Idle EXCEPT !.escrow = e, !.next = next]
                     EXCEPT !.step = "waiting", !.visit = v]
  <2>1. r.step = "waiting" /\ r.next = next /\ r.escrow = e /\ r.visit = v
    BY DEF Idle
  <2>2. Become(h, r)
    BY <1>6 DEF WaitForLock
  <2> HIDE DEF r
  <2> QED BY <1>4, <2>1, <2>2 DEF Stage
<1>7. CASE BeginCapture(h, e) \/ BeginRefund(h, e)
  <2>1. PICK next \in {"capture.inspect", "refund.check"} :
          WaitForLock(h, escrow[e].visit, [Idle EXCEPT !.escrow = e, !.next = next])
    BY <1>7 DEF BeginCapture, BeginRefund
  <2>2. escrow[e].visit \in Visits
    <3>1. escrow[e].visit # NoVisit
      BY <1>0, <1>7 DEF BeginCapture, BeginRefund, Emitted, ExistInv
    <3> QED BY <1>2, <3>1
  <2>3. /\ req'[h].step = "waiting" /\ req'[h].next = next /\ req'[h].escrow = e
        /\ req'[h].visit = escrow[e].visit /\ Stage(req'[h]) = next
        /\ \A g \in Handlers \ {h} : req'[g] = req[g]
    <3>1. PICK v : v = escrow[e].visit
      OBVIOUS
    <3> QED BY <1>6, <2>1, <3>1
  <2>4. escrow[e].visit # NoVisit /\ Stage(req'[h]) \in WorkSteps /\ Stage(req'[h]) \notin OrderSteps
    BY <2>2, <2>3, VisitAssumption DEF WorkSteps, CaptureSteps, RefundSteps, OrderSteps
  <2>5. Takes(h)
    BY <1>5, <2>3, <2>4
  <2> QED BY <1>3, <2>2, <2>3, <2>4, <2>5 DEF AboutAt, About, Stage
<1>8. ASSUME NEW v \in Visits, BeginOrder(h, e, v)
      PROVE  Takes(h) /\ AboutAt(h)'
  <2>1. /\ req'[h].step = "waiting" /\ req'[h].next = "order.check" /\ req'[h].escrow = e
        /\ req'[h].visit = v /\ Stage(req'[h]) = "order.check"
        /\ \A g \in Handlers \ {h} : req'[g] = req[g]
    BY <1>6, <1>8 DEF BeginOrder
  <2>2. escrow[e].visit = NoVisit /\ \A g \in Handlers : req[g].escrow # e
    BY <1>8 DEF BeginOrder
  <2>3. Takes(h)
    BY <2>1, <2>2 DEF Takes
  <2>4. "order.check" \notin WorkSteps
    BY DEF WorkSteps, CaptureSteps, RefundSteps
  <2> QED BY <1>3, <2>1, <2>2, <2>3, <2>4 DEF AboutAt, About, Stage
<1>9. ASSUME NEW event \in PaymentEvents, ReceivePaymentEvent(h, e, event)
      PROVE  Takes(h) /\ AboutAt(h)'
  <2> DEFINE r == [Idle EXCEPT !.step = "event.apply", !.escrow = e,
                               !.seen = escrow[e], !.event = event]
  <2>1. r.step = "event.apply" /\ r.escrow = e /\ r.seen = escrow[e] /\ r.event = event
    BY DEF Idle
  <2>2. Become(h, r)
    BY <1>9 DEF ReceivePaymentEvent
  <2> HIDE DEF r
  <2>3. /\ req'[h].step = "event.apply" /\ req'[h].escrow = e /\ req'[h].seen = escrow[e]
        /\ req'[h].event = event /\ Stage(req'[h]) = "event.apply"
        /\ \A g \in Handlers \ {h} : req'[g] = req[g]
    BY <1>4, <2>1, <2>2 DEF Stage
  <2>4. gateway[e] # "created" /\ event # "captured" /\ ~Settled(escrow[e])
    BY <1>9 DEF ReceivePaymentEvent, Emitted, resolveEscrowPaymentTransition, PaymentEvents
  <2>5. escrow[e].visit # NoVisit
    BY <1>0, <2>4 DEF ExistInv
  <2>6. Takes(h)
    BY <1>5, <2>3, <2>5 DEF WorkSteps
  <2>7. "event.apply" \notin OrderSteps \cup LockedSteps
    BY DEF OrderSteps, LockedSteps
  <2> QED BY <1>3, <2>3, <2>4, <2>5, <2>6, <2>7 DEF AboutAt, About, Stage, Settled
<1>10. ASSUME NEW v \in Visits, BeginReassign(h, e, v)
       PROVE  Takes(h) /\ AboutAt(h)'
  <2> DEFINE r == [Idle EXCEPT !.step = "reassign.target", !.escrow = e,
                               !.visit = v, !.seen = escrow[e]]
  <2>1. r.step = "reassign.target" /\ r.escrow = e /\ r.seen = escrow[e] /\ r.visit = v
    BY DEF Idle
  <2>2. Become(h, r)
    BY <1>10 DEF BeginReassign
  <2> HIDE DEF r
  <2>3. /\ req'[h].step = "reassign.target" /\ req'[h].escrow = e /\ req'[h].seen = escrow[e]
        /\ req'[h].visit = v /\ Stage(req'[h]) = "reassign.target"
        /\ \A g \in Handlers \ {h} : req'[g] = req[g]
    BY <1>4, <2>1, <2>2 DEF Stage
  <2>4. escrow[e].visit # NoVisit /\ isEscrowActiveHeldRecord(escrow[e])
    BY <1>10 DEF BeginReassign
  <2>5. Takes(h)
    BY <1>5, <2>3, <2>4 DEF WorkSteps
  <2>6. "reassign.target" \notin OrderSteps \cup LockedSteps
    BY DEF OrderSteps, LockedSteps
  <2> QED BY <1>3, <2>3, <2>4, <2>5, <2>6 DEF AboutAt, About, Stage,
      isEscrowActiveHeldRecord, isEscrowPaidRecord
<1> QED BY <1>1, <1>7, <1>8, <1>9, <1>10

\* A request that goes on keeps to its row.
LEMMA AboutContinued ==
  ASSUME GInv, NEW h \in Handlers, Continue(h) \/ Crash(h), ~ExpireLock(h)
  PROVE  Takes(h) /\ AboutAt(h)'
<1>1. PICK r : r = req[h]
  OBVIOUS
<1>0. TypeOK /\ r \in Requests /\ About(r) /\ r.escrow \in Escrows \cup {NoPayment}
  BY <1>1 DEF GInv, TInv, TypeOK, AboutInv, AboutAt, Requests
<1>2. ASSUME NEW q, Become(h, q)
      PROVE  req'[h] = q /\ \A g \in Handlers \ {h} : req'[g] = req[g]
  BY <1>0, <1>2 DEF Become, TypeOK
<1>3. ASSUME NEW step, GoTo(h, step)
      PROVE  /\ req'[h].step = step /\ req'[h].visit = r.visit /\ req'[h].escrow = r.escrow
             /\ req'[h].seen = r.seen
             /\ \A g \in Handlers \ {h} : req'[g] = req[g]
  BY <1>0, <1>1, <1>3 DEF GoTo, TypeOK, Requests
<1>4. ASSUME \A g \in Handlers \ {h} : req'[g] = req[g],
             req'[h].escrow \in {r.escrow, NoPayment},
             Stage(req'[h]) \in OrderSteps /\ req'[h].escrow \in Escrows => Stage(r) \in OrderSteps
      PROVE  Takes(h)
  BY <1>1, <1>4, VisitAssumption DEF Takes
<1>5. ASSUME Become(h, Idle)
      PROVE  Takes(h) /\ AboutAt(h)'
  <2>1. req'[h] = Idle /\ \A g \in Handlers \ {h} : req'[g] = req[g]
    BY <1>2, <1>5
  <2>2. /\ Idle.step = "idle" /\ Stage(Idle) = "idle" /\ Idle.escrow = NoPayment
        /\ "idle" \notin LockedSteps \cup OrderSteps \cup WorkSteps
    BY DEF Idle, Stage, LockedSteps, OrderSteps, WorkSteps, CaptureSteps, RefundSteps
  <2>3. Takes(h)
    BY <1>4, <2>1, <2>2
  <2> QED BY <2>1, <2>2, <2>3 DEF AboutAt, About, Stage
<1>6. ASSUME GoTo(h, "release"), r.step \in LockedSteps
      PROVE  Takes(h) /\ AboutAt(h)'
  <2>1. /\ req'[h].step = "release" /\ req'[h].visit = r.visit /\ req'[h].escrow = r.escrow
        /\ \A g \in Handlers \ {h} : req'[g] = req[g]
    BY <1>3, <1>6
  <2>2. Stage(req'[h]) = "release" /\ "release" \notin OrderSteps \cup WorkSteps
    BY <2>1 DEF Stage, OrderSteps, WorkSteps, CaptureSteps, RefundSteps
  <2>3. Takes(h)
    BY <1>4, <2>1, <2>2
  <2>4. r.visit \in Visits
    BY <1>0, <1>6 DEF About
  <2> QED BY <2>1, <2>2, <2>3, <2>4 DEF AboutAt, About, Stage
<1>7. CASE \/ GiveUpWaiting(h) \/ ReleaseLock(h) \/ Crash(h) \/ ApplyPaymentEvent(h)
           \/ WriteVisitTag(h)
  BY <1>5, <1>7 DEF GiveUpWaiting, ReleaseLock, Crash, ApplyPaymentEvent, WriteVisitTag
<1>8. CASE BindCapture(h) \/ CreateOrder(h) \/ CommitRefund(h)
  <2>1. GoTo(h, "release") /\ r.step \in LockedSteps
    BY <1>1, <1>8 DEF BindCapture, CreateOrder, CommitRefund, At, LockedSteps
  <2> QED BY <1>6, <2>1
<1>9. CASE AcquireLock(h)
  <2>1. r.step = "waiting" /\ GoTo(h, r.next) /\ escrow' = escrow
    BY <1>1, <1>9 DEF AcquireLock, At
  <2>2. r.next \in {"capture.inspect", "order.check", "refund.check"} /\ r.visit \in Visits
    BY <1>0, <2>1 DEF About
  <2>3. /\ req'[h].step = r.next /\ req'[h].visit = r.visit /\ req'[h].escrow = r.escrow
        /\ \A g \in Handlers \ {h} : req'[g] = req[g]
    BY <1>3, <2>1
  <2>4. Stage(req'[h]) = Stage(r) /\ Stage(r) = r.next
    BY <2>1, <2>2, <2>3 DEF Stage
  <2>5. Takes(h)
    BY <1>4, <2>3, <2>4
  <2>6. /\ Stage(r) \in OrderSteps /\ r.escrow \in Escrows => escrow[r.escrow].visit = NoVisit
        /\ Stage(r) \in WorkSteps => r.escrow \in Escrows /\ escrow[r.escrow].visit # NoVisit
    BY <1>0 DEF About
  <2> QED BY <2>1, <2>2, <2>3, <2>4, <2>5, <2>6 DEF AboutAt, About, Stage
<1>10. CASE InspectCapture(h)
  <2>1. r.step = "capture.inspect" /\ escrow' = escrow
    BY <1>1, <1>10 DEF InspectCapture, At
  <2>2. CASE GoTo(h, "release")
    BY <1>6, <2>1, <2>2 DEF LockedSteps
  <2>3. CASE ~GoTo(h, "release")
    <3>1. /\ Become(h, [r EXCEPT !.step = "capture.siblings", !.seen = escrow[r.escrow]])
          /\ ~escrow[r.escrow].duplicate
          /\ resolveEscrowPaymentTransition(escrow[r.escrow], "captured", r.escrow)
      BY <1>1, <1>10, <2>3 DEF InspectCapture
    <3>2. r.escrow \in Escrows /\ escrow[r.escrow].visit # NoVisit /\ r.visit \in Visits
      BY <1>0, <2>1 DEF About, Stage, WorkSteps, CaptureSteps, LockedSteps
    <3>3. ~Settled(escrow[r.escrow])
      BY <3>1, <3>2 DEF GInv, SoundInv, RowSound, Settled, resolveEscrowPaymentTransition
    <3>4. Inspected(escrow[r.escrow], escrow[r.escrow])
      BY <3>2, <3>3, RankCases DEF Inspected
    <3>0. req'[h] = [r EXCEPT !.step = "capture.siblings", !.seen = escrow[r.escrow]]
          /\ \A g \in Handlers \ {h} : req'[g] = req[g]
      BY <1>2, <3>1
    <3>5. /\ req'[h].step = "capture.siblings" /\ req'[h].seen = escrow[r.escrow]
          /\ req'[h].escrow = r.escrow /\ req'[h].visit = r.visit
          /\ \A g \in Handlers \ {h} : req'[g] = req[g]
      BY <1>0, <3>0 DEF Requests
    <3>6. Stage(req'[h]) = "capture.siblings" /\ "capture.siblings" \notin OrderSteps
      BY <3>5 DEF Stage, OrderSteps
    <3>7. Takes(h)
      BY <1>4, <3>5, <3>6
    <3> QED BY <2>1, <3>2, <3>4, <3>5, <3>6, <3>7 DEF AboutAt, About, Stage, Inspected, Rank, Settled
  <2> QED BY <2>2, <2>3
<1>11. CASE FindWinners(h)
  <2>1. /\ Become(h, [r EXCEPT !.step = "capture.bind",
                        !.won = BoundPayments(r.visit) \ {r.escrow} # {}])
        /\ r.step = "capture.siblings" /\ escrow' = escrow
    BY <1>1, <1>11 DEF FindWinners, At
  <2>0. req'[h] = [r EXCEPT !.step = "capture.bind",
                        !.won = BoundPayments(r.visit) \ {r.escrow} # {}]
        /\ \A g \in Handlers \ {h} : req'[g] = req[g]
    BY <1>2, <2>1
  <2>2. /\ req'[h].step = "capture.bind" /\ req'[h].seen = r.seen /\ req'[h].visit = r.visit
        /\ req'[h].escrow = r.escrow
        /\ \A g \in Handlers \ {h} : req'[g] = req[g]
    BY <1>0, <2>0 DEF Requests
  <2>3. /\ r.escrow \in Escrows /\ escrow[r.escrow].visit # NoVisit /\ r.visit \in Visits
        /\ Inspected(r.seen, escrow[r.escrow])
    BY <1>0, <2>1 DEF About, Stage, WorkSteps, CaptureSteps, LockedSteps
  <2>4. Stage(req'[h]) = "capture.bind" /\ "capture.bind" \notin OrderSteps
    BY <2>2 DEF Stage, OrderSteps
  <2>5. Takes(h)
    BY <1>4, <2>2, <2>4
  <2> QED BY <2>1, <2>2, <2>3, <2>4, <2>5 DEF AboutAt, About, Stage, Inspected, Rank, Settled
<1>12. ASSUME req'[h].step \in {"order.list", "order.supersede", "order.create"},
              r.step \in {"order.check", "order.list", "order.supersede"},
              req'[h].visit = r.visit, req'[h].escrow \in {r.escrow, NoPayment},
              req'[h].step = "order.create" => req'[h].escrow # NoPayment,
              \A g \in Handlers \ {h} : req'[g] = req[g],
              \A e \in Escrows : escrow'[e].visit = escrow[e].visit
       PROVE  Takes(h) /\ AboutAt(h)'
  <2>1. Stage(r) = r.step /\ Stage(r) \in OrderSteps /\ r.visit \in Visits
    BY <1>0, <1>12 DEF Stage, OrderSteps, About, LockedSteps
  <2>2. /\ Stage(req'[h]) = req'[h].step /\ Stage(req'[h]) \in OrderSteps
        /\ Stage(req'[h]) \notin WorkSteps
    BY <1>12 DEF Stage, OrderSteps, WorkSteps, CaptureSteps, RefundSteps
  <2>3. Takes(h)
    BY <1>4, <1>12, <2>1
  <2>4. req'[h].escrow \in Escrows => escrow'[req'[h].escrow].visit = NoVisit
    BY <1>0, <1>12, <2>1, VisitAssumption DEF About
  <2>5. req'[h].step = "order.create" => req'[h].escrow \in Escrows
    BY <1>0, <1>12
  <2> QED BY <1>12, <2>1, <2>2, <2>3, <2>4, <2>5 DEF AboutAt, About, Stage
<1>13. CASE CheckVisitUnpaid(h)
  <2>1. r.step = "order.check" /\ escrow' = escrow
    BY <1>1, <1>13 DEF CheckVisitUnpaid, At
  <2>2. CASE GoTo(h, "release")
    BY <1>6, <2>1, <2>2 DEF LockedSteps
  <2>3. CASE GoTo(h, "order.list")
    BY <1>3, <1>12, <2>1, <2>3
  <2> QED BY <1>13, <2>2, <2>3 DEF CheckVisitUnpaid
<1>14. CASE ListUnpaidOrders(h)
  <2>1. r.step = "order.list" /\ escrow' = escrow
    BY <1>1, <1>14 DEF ListUnpaidOrders, At
  <2>2. CASE Become(h, [r EXCEPT !.step = "order.supersede", !.todo = UnpaidOrders(r.visit)])
    <3>0. req'[h] = [r EXCEPT !.step = "order.supersede", !.todo = UnpaidOrders(r.visit)]
          /\ \A g \in Handlers \ {h} : req'[g] = req[g]
      BY <1>2, <2>2
    <3>1. /\ req'[h].step = "order.supersede" /\ req'[h].escrow = r.escrow
          /\ req'[h].visit = r.visit /\ \A g \in Handlers \ {h} : req'[g] = req[g]
      BY <1>0, <3>0 DEF Requests
    <3> QED BY <1>12, <2>1, <3>1
  <2>3. ASSUME NEW e \in UnpaidOrders(r.visit),
               Become(h, [r EXCEPT !.step = "order.supersede",
                                   !.todo = UnpaidOrders(r.visit) \ {e},
                                   !.escrow = NoPayment])
        PROVE  Takes(h) /\ AboutAt(h)'
    <3>0. req'[h] = [r EXCEPT !.step = "order.supersede",
                                   !.todo = UnpaidOrders(r.visit) \ {e},
                                   !.escrow = NoPayment]
          /\ \A g \in Handlers \ {h} : req'[g] = req[g]
      BY <1>2, <2>3
    <3>1. /\ req'[h].step = "order.supersede" /\ req'[h].escrow = NoPayment
          /\ req'[h].visit = r.visit /\ \A g \in Handlers \ {h} : req'[g] = req[g]
      BY <1>0, <3>0 DEF Requests
    <3> QED BY <1>12, <2>1, <3>1
  <2> QED BY <1>1, <1>14, <2>2, <2>3 DEF ListUnpaidOrders
<1>15. CASE AllSuperseded(h)
  <2>1. r.step = "order.supersede" /\ escrow' = escrow
    BY <1>1, <1>15 DEF AllSuperseded, At
  <2>2. CASE GoTo(h, "release")
    BY <1>6, <2>1, <2>2 DEF LockedSteps
  <2>3. CASE GoTo(h, "order.create") /\ r.escrow # NoPayment
    BY <1>3, <1>12, <2>1, <2>3
  <2> QED BY <1>1, <1>15, <2>2, <2>3 DEF AllSuperseded
<1>16. CASE SupersedeOrder(h)
  <2>1. PICK f \in r.todo :
          /\ escrow' = IF Unpaid(escrow[f])
                       THEN [escrow EXCEPT ![f].status = "cancelled"] ELSE escrow
          /\ Become(h, [r EXCEPT !.todo = r.todo \ {f}])
    BY <1>1, <1>16 DEF SupersedeOrder
  <2>2. r.step = "order.supersede"
    BY <1>1, <1>16 DEF SupersedeOrder, At
  <2>3. /\ req'[h].step = "order.supersede" /\ req'[h].escrow = r.escrow
        /\ req'[h].visit = r.visit /\ \A g \in Handlers \ {h} : req'[g] = req[g]
    BY <1>0, <1>2, <2>1, <2>2 DEF Requests
  <2>4. ASSUME NEW e \in Escrows
        PROVE  escrow'[e].visit = escrow[e].visit
    <3>1. f \in Escrows /\ escrow \in [Escrows -> Rows]
      BY <1>0, <2>1 DEF Requests, TypeOK
    <3>2. [escrow[f] EXCEPT !.status = "cancelled"].visit = escrow[f].visit
      BY <3>1 DEF Rows
    <3> QED BY <2>1, <3>1, <3>2
  <2> QED BY <1>12, <2>2, <2>3, <2>4
<1>17. CASE CheckRefund(h) \/ CallGatewayRefund(h)
  <2>1. r.step \in {"refund.check", "refund.call"} /\ escrow' = escrow
    BY <1>1, <1>17 DEF CheckRefund, CallGatewayRefund, At
  <2>2. CASE GoTo(h, "release")
    BY <1>6, <2>1, <2>2 DEF LockedSteps
  <2>3. ASSUME NEW step \in {"refund.call", "refund.commit"}, GoTo(h, step)
        PROVE  Takes(h) /\ AboutAt(h)'
    <3>1. /\ req'[h].step = step /\ req'[h].visit = r.visit /\ req'[h].escrow = r.escrow
          /\ \A g \in Handlers \ {h} : req'[g] = req[g]
      BY <1>3, <2>3
    <3>2. r.escrow \in Escrows /\ escrow[r.escrow].visit # NoVisit /\ r.visit \in Visits
      BY <1>0, <2>1 DEF About, Stage, WorkSteps, RefundSteps, LockedSteps
    <3>3. Stage(req'[h]) = step /\ step \notin OrderSteps
      BY <2>3, <3>1 DEF Stage, OrderSteps
    <3>4. Takes(h)
      BY <1>4, <3>1, <3>3
    <3> QED BY <2>1, <3>1, <3>2, <3>3, <3>4 DEF AboutAt, About, Stage
  <2> QED BY <1>17, <2>2, <2>3 DEF CheckRefund, CallGatewayRefund
<1>18. CASE CheckTargetVisit(h)
  <2>1. r.step = "reassign.target" /\ escrow' = escrow
    BY <1>1, <1>18 DEF CheckTargetVisit, At
  <2>2. CASE GoTo(h, "reassign.write")
    <3>1. /\ req'[h].step = "reassign.write" /\ req'[h].visit = r.visit
          /\ req'[h].escrow = r.escrow /\ req'[h].seen = r.seen
          /\ \A g \in Handlers \ {h} : req'[g] = req[g]
      BY <1>3, <2>2
    <3>2. /\ r.escrow \in Escrows /\ escrow[r.escrow].visit # NoVisit
          /\ r.visit \in Visits /\ isEscrowActiveHeldRecord(r.seen)
      BY <1>0, <2>1 DEF About, Stage, WorkSteps
    <3>3. Stage(req'[h]) = "reassign.write" /\ "reassign.write" \notin OrderSteps
      BY <3>1 DEF Stage, OrderSteps
    <3>4. Takes(h)
      BY <1>4, <3>1, <3>3
    <3> QED BY <2>1, <3>1, <3>2, <3>3, <3>4 DEF AboutAt, About, Stage,
        isEscrowActiveHeldRecord, isEscrowPaidRecord
  <2> QED BY <1>5, <1>18, <2>2 DEF CheckTargetVisit
<1> QED BY <1>7, <1>8, <1>9, <1>10, <1>11, <1>13, <1>14, <1>15, <1>16, <1>17, <1>18 DEF Continue

\* The invariant of all runs, whatever the faults and the operations.
LEMMA MovesInit == Init => GInv
<1>1. SUFFICES ASSUME Init
               PROVE  OwnInv /\ ExistInv /\ SoundInv /\ AboutInv
  BY TypeInit DEF GInv
<1>2. OwnInv /\ ExistInv
  BY <1>1, VisitInit DEF VInv
<1>3. SoundInv
  <2>1. RowSound(NoRow)
    BY DEF RowSound, NoRow
  <2> QED BY <1>1, <2>1 DEF Init, SoundInv
<1>4. AboutInv
  <2>1. \A h \in Handlers : req[h] = Idle
    BY <1>1 DEF Init
  <2>2. /\ Idle.step = "idle" /\ Stage(Idle) = "idle"
        /\ "idle" \notin LockedSteps \cup OrderSteps \cup WorkSteps
    BY DEF Idle, Stage, LockedSteps, OrderSteps, WorkSteps, CaptureSteps, RefundSteps
  <2> QED BY <2>1, <2>2 DEF AboutInv, AboutAt, About
<1> QED BY <1>2, <1>3, <1>4

\* The invariant is inductive.
LEMMA MovesStep == GInv /\ [Next]_vars => GInv'
<1>1. SUFFICES ASSUME GInv, [Next]_vars
               PROVE  GInv'
  OBVIOUS
<1>2. TInv'
  BY <1>1, TypeStep DEF GInv
<1>3. \A e \in Escrows : Turned(e)
  BY <1>1, TurnStep
<1>4. SoundInv'
  <2>1. ASSUME NEW e \in Escrows
        PROVE  RowSound(escrow'[e])
    BY <1>3 DEF Turned, Fresh, Advanced, Moved
  <2> QED BY <2>1 DEF SoundInv, RowSound
<1>5. ExistInv'
  <2>1. \A e \in Escrows : escrow[e].visit # NoVisit => escrow'[e].visit # NoVisit
    BY <1>3 DEF Turned, Fresh, Advanced, Moved
  <2> QED BY <1>1, <2>1, ExistStep DEF GInv, TInv
<1>6. req' = req \/ \E h \in Handlers : Takes(h) /\ AboutAt(h)'
  <2>1. CASE \E h \in Handlers : Receive(h)
    BY <1>1, <2>1, AboutReceived
  <2>2. CASE \E h \in Handlers : Continue(h) \/ Crash(h)
    BY <1>1, <2>2, AboutContinued DEF ExpireLock
  <2> QED BY <1>1, <2>1, <2>2 DEF Next, vars, External, GatewayMoves, PayOut
<1>7. AboutInv'
  <2>1. ASSUME NEW g \in Handlers
        PROVE  AboutAt(g)'
    <3>1. CASE req'[g] = req[g]
      BY <1>1, <1>3, <3>1, AboutStays
    <3>2. CASE req'[g] # req[g]
      BY <1>6, <3>2 DEF Takes
    <3> QED BY <3>1, <3>2
  <2> QED BY <2>1 DEF AboutInv
<1>8. OwnInv'
  <2>1. SUFFICES ASSUME NEW g \in Handlers, NEW k \in Handlers, g # k,
                        Stage(req'[k]) \in OrderSteps, req'[k].escrow \in Escrows
                 PROVE  req'[g].escrow # req'[k].escrow
    BY DEF OwnInv, Stage
  <2>2. OwnInv
    BY <1>1 DEF GInv
  <2>3. CASE req' = req
    BY <2>1, <2>2, <2>3 DEF OwnInv
  <2>4. ASSUME NEW h \in Handlers, Takes(h)
        PROVE  req'[g].escrow # req'[k].escrow
    <3>1. CASE k = h
      BY <2>1, <2>2, <2>4, <3>1 DEF Takes, OwnInv
    <3>2. CASE g = h
      BY <2>1, <2>2, <2>4, <3>2, VisitAssumption DEF Takes, OwnInv
    <3>3. CASE k # h /\ g # h
      BY <2>1, <2>2, <2>4, <3>3 DEF Takes, OwnInv
    <3> QED BY <3>1, <3>2, <3>3
  <2> QED BY <1>6, <2>3, <2>4
<1> QED BY <1>2, <1>4, <1>5, <1>7, <1>8 DEF GInv

\* A payment moves to another visit only while it is held, however the move and
\* the captures, refunds and payouts beside it were delayed, even when locks
\* expire (reassignRecurringVisitEscrow, bindRecurringVisitCapture).
THEOREM HeldPaymentsMove == Spec => OnlyHeldPaymentsMove
<1>1. GInv /\ [Next]_vars =>
        [\A e \in Escrows :
           escrow[e].visit # NoVisit /\ escrow'[e].visit # escrow[e].visit
             => isEscrowActiveHeldRecord(escrow[e])]_vars
  BY TurnStep DEF Turned, Fresh, Advanced, Moved
<1> QED BY <1>1, MovesInit, MovesStep, PTL DEF Spec, OnlyHeldPaymentsMove
=============================================================================
