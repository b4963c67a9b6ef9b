---------------------------- MODULE PaymentIntake ----------------------------
(***************************************************************************)
(* From checkout to a booked payment: createEscrow, create-order with its  *)
(* idempotency rows, the Razorpay webhook with its event log,              *)
(* verify-payment with its background repeat, and everything               *)
(* updateEscrowOnPaymentCapture does around the escrow row: the coupon,    *)
(* the Transaction row, the ledger and the call that materializes the      *)
(* booked tasks.  (EscrowLifecycle has what races for the row afterwards,  *)
(* VisitBinding the orders of recurring visits, CoinWallet the coins.)     *)
(*                                                                         *)
(* One action is what a request does between two awaits; the Razorpay      *)
(* side, the coupon service and task-service are external.                 *)
(***************************************************************************)
EXTENDS EscrowPaymentState, FiniteSets, Naturals

CONSTANTS
    Orders,     \* Razorpay orders, reserved for the requests that make them
    Keys,       \* idempotency keys of clients
    NoKey,      \* a request without a key
    Handlers,   \* slots: requests in flight, on any instance
    Subscribed, \* payment events the webhook is configured to deliver
    Faults      \* subset of {"crash", "dbError", "lostCall", "rejected"}

ASSUME IntakeAssumption ==
    /\ NoKey \notin Keys
    /\ Subscribed \subseteq PaymentEvents
    /\ Orders # {}

Environments == {"live", "test"}
NoOrder == [kind |-> "none", key |-> NoKey, coupon |-> FALSE, free |-> FALSE, environment |-> "live"]
NoRow == [status |-> "cancelled", paymentStatus |-> "none", paymentId |-> NoPayment]

VARIABLES
    order,      \* what each order is for, once Razorpay (or the free path) made it
    answered,   \* orders returned to the client that asked for them
    keyRow,     \* PaymentOrderIdempotency: orders saved under each key
    tester,     \* the environment user-service puts the customer in
    gateway,    \* order and state of each payment attempt
    escrow,     \* the Escrow row of each order
    exists,     \* orders that have a row
    coupon,     \* the coupon redemption of each order
    txn,        \* status of the Transaction row of each payment
    ledger,     \* payment entries in the ledger of each escrow
    booked,     \* calls that told task-service an order is paid
    audit,      \* AuditLog row of each webhook event
    req,        \* the request each slot is serving
    overlapped, \* history: orders two events, or two requests for the key, of which overlapped
    faulted     \* history: orders one of whose requests met a fault

intake == <<order, answered, keyRow, tester>>
books == <<coupon, txn, ledger, booked>>
history == <<overlapped, faulted>>
vars == <<intake, gateway, escrow, exists, books, audit, req, history>>

Kinds == {"none", "checkout", "task", "goods"}
OrderTypes == [kind : Kinds, key : Keys \cup {NoKey}, coupon : BOOLEAN, free : BOOLEAN, environment : Environments]
GatewayStates == {"none", "authorized", "captured", "failed"}
Events == Subscribed \X Payments

EventSteps == {"receive", "log", "find", "recover", "apply", "release", "record",
               "confirm", "book", "notify", "reconfirm", "mark"}
Steps == {"idle", "reserve", "make", "insert", "free", "keyed", "save"} \cup EventSteps

Requests ==
    [step : Steps, order : Orders, wants : OrderTypes,
     event : PaymentEvents, payment : Payments \cup {NoPayment}, seen : EscrowRows,
     webhook : BOOLEAN, owner : BOOLEAN]

Idle == [step |-> "idle", order |-> CHOOSE o \in Orders : TRUE, wants |-> NoOrder,
         event |-> "captured", payment |-> NoPayment, seen |-> NoRow, webhook |-> FALSE, owner |-> FALSE]

TypeOK ==
    /\ order \in [Orders -> OrderTypes]
    /\ answered \subseteq Orders
    /\ keyRow \in [Keys -> SUBSET Orders]
    /\ tester \in Environments
    /\ gateway \in [Payments -> [order : Orders, state : GatewayStates]]
    /\ escrow \in [Orders -> EscrowRows]
    /\ exists \subseteq Orders
    /\ coupon \in [Orders -> {"none", "reserved", "confirmed", "cancelled"}]
    /\ txn \in [Payments -> PaymentStatuses]
    /\ ledger \in [Orders -> Nat]
    /\ booked \subseteq Orders
    /\ audit \in [Events -> {"none", "received", "processed"}]
    /\ req \in [Handlers -> Requests]
    /\ overlapped \subseteq Orders
    /\ faulted \subseteq Orders

Init ==
    /\ order = [o \in Orders |-> NoOrder]
    /\ answered = {}
    /\ keyRow = [k \in Keys |-> {}]
    /\ tester \in Environments
    /\ gateway = [p \in Payments |-> [order |-> Idle.order, state |-> "none"]]
    /\ escrow = [o \in Orders |-> NoRow]
    /\ exists = {}
    /\ coupon = [o \in Orders |-> "none"]
    /\ txn = [p \in Payments |-> "none"]
    /\ ledger = [o \in Orders |-> 0]
    /\ booked = {}
    /\ audit = [e \in Events |-> "none"]
    /\ req = [h \in Handlers |-> Idle]
    /\ overlapped = {}
    /\ faulted = {}

-------------------------------------------------------------------------------
(* Requests                                                                *)

At(h, step) == req[h].step = step
GoTo(h, step) == req' = [req EXCEPT ![h].step = step]
Return(h) == req' = [req EXCEPT ![h] = Idle]
EventOf(h) == <<req[h].event, req[h].payment>>
Fault(h) == faulted' = faulted \cup {req[h].order}

\* An order nobody made and nobody is making.
Unused(o) == order[o].kind = "none" /\ \A h \in Handlers : At(h, "idle") \/ req[h].order # o

-------------------------------------------------------------------------------
(* Checkout: createEscrow                                                  *)

BeginCheckout(h, o, coup, free) ==
    /\ At(h, "idle")
    /\ Unused(o)
    /\ req' = [req EXCEPT ![h] = [Idle EXCEPT !.step = IF coup THEN "reserve" ELSE "make", !.order = o,
                    !.wants = [kind |-> "checkout", key |-> NoKey, coupon |-> coup, free |-> free,
                               environment |-> tester]]]
    /\ UNCHANGED <<intake, gateway, escrow, exists, books, audit, history>>

\* Wrong on purpose: the coupon is used up with the reservation.
ReserveCoupon_Used(h) ==
    /\ At(h, "reserve")
    /\ coupon' = [coupon EXCEPT ![req[h].order] = "confirmed"]
    /\ GoTo(h, "make")
    /\ UNCHANGED <<intake, gateway, escrow, exists, txn, ledger, booked, audit, history>>

ReserveCoupon(h) ==
    /\ At(h, "reserve")
    /\ coupon' = [coupon EXCEPT ![req[h].order] = "reserved"]
    /\ GoTo(h, "make")
    /\ UNCHANGED <<intake, gateway, escrow, exists, txn, ledger, booked, audit, history>>

\* Wrong on purpose: the cancellation writes a status of its own.
CancelCoupon_Expired(o, held) == coupon' = IF held THEN [coupon EXCEPT ![o] = "expired"] ELSE coupon

CancelCoupon(o, held) == coupon' = IF held THEN [coupon EXCEPT ![o] = "cancelled"] ELSE coupon

\* A free order is made without Razorpay, under an id of its own.
MakeOrder(h) ==
    LET o == req[h].order IN
    /\ At(h, "make")
    /\ order' = [order EXCEPT ![o] = req[h].wants]
    /\ GoTo(h, IF req[h].wants.kind = "checkout" THEN "insert" ELSE "save")
    /\ UNCHANGED <<answered, keyRow, tester, gateway, escrow, exists, books, audit, history>>

\* Razorpay rejects the order (or the coupon service the coupon): the
\* reservation is cancelled and the client told.
OrderRejected(h) ==
    /\ "rejected" \in Faults
    /\ req[h].step \in {"reserve", "make"}
    /\ CancelCoupon(req[h].order, At(h, "make") /\ req[h].wants.coupon)
    /\ Return(h)
    /\ UNCHANGED <<intake, gateway, escrow, exists, txn, ledger, booked, audit, history>>

InsertRow(o, row) ==
    /\ escrow' = [escrow EXCEPT ![o] = row]
    /\ exists' = exists \cup {o}

InsertEscrow(h) ==
    LET o == req[h].order
        free == req[h].wants.free IN
    /\ At(h, "insert")
    /\ InsertRow(o, [status |-> IF free THEN "held" ELSE "pending",
                     paymentStatus |-> IF free THEN "captured" ELSE "pending", paymentId |-> NoPayment])
    /\ IF free /\ req[h].wants.coupon
       THEN GoTo(h, "free") /\ UNCHANGED answered
       ELSE answered' = answered \cup {o} /\ Return(h)
    /\ UNCHANGED <<order, keyRow, tester, gateway, books, audit, history>>

\* A free order is paid by its coupon, which is confirmed at once.
ConfirmFree(h) ==
    LET o == req[h].order IN
    /\ At(h, "free")
    /\ coupon' = [coupon EXCEPT ![o] = "confirmed"]
    /\ answered' = answered \cup {o}
    /\ Return(h)
    /\ UNCHANGED <<order, keyRow, tester, gateway, escrow, exists, txn, ledger, booked, audit, history>>

\* The row is not written: the order stays at Razorpay, the client never gets it.
InsertFails(h) ==
    /\ "dbError" \in Faults
    /\ At(h, "insert")
    /\ CancelCoupon(req[h].order, req[h].wants.coupon)
    /\ Return(h)
    /\ Fault(h)
    /\ UNCHANGED <<intake, gateway, escrow, exists, txn, ledger, booked, audit, overlapped>>

-------------------------------------------------------------------------------
(* Orders without an escrow: create-order and its idempotency rows         *)

\* Notes that name a task and a poster let a capture rebuild the escrow.
BeginCreateOrder(h, o, k, kind) ==
    /\ At(h, "idle")
    /\ Unused(o)
    /\ req' = [req EXCEPT ![h] = [Idle EXCEPT !.step = "keyed", !.order = o,
                    !.wants = [NoOrder EXCEPT !.kind = kind, !.key = k, !.environment = tester]]]
    /\ LET rivals == {req[g].order : g \in {i \in Handlers : k # NoKey /\ req[i].wants.key = k}} IN
       overlapped' = overlapped \cup rivals \cup IF rivals = {} THEN {} ELSE {o}
    /\ UNCHANGED <<intake, gateway, escrow, exists, books, audit, faulted>>

\* Wrong on purpose: a saved order is never found again.
Reusable_Never(k, environment) == {}

\* The same key gets the same order, unless it was made in the other environment.
Reusable(k, environment) ==
    {o \in Orders : k # NoKey /\ o \in keyRow[k] /\ order[o].environment = environment}

FindKeyedOrder(h) ==
    LET found == Reusable(req[h].wants.key, req[h].wants.environment) IN
    /\ At(h, "keyed")
    /\ IF found = {} THEN GoTo(h, "make") ELSE Return(h)
    /\ UNCHANGED <<intake, gateway, escrow, exists, books, audit, history>>

\* A key that has its row keeps it.
SavedRow(k, o) == IF keyRow[k] = {} THEN {o} ELSE keyRow[k]

SaveKey(h) ==
    LET k == req[h].wants.key IN
    /\ At(h, "save")
    /\ keyRow' = IF k = NoKey THEN keyRow ELSE [keyRow EXCEPT ![k] = SavedRow(k, req[h].order)]
    /\ answered' = answered \cup {req[h].order}
    /\ Return(h)
    /\ UNCHANGED <<order, tester, gateway, escrow, exists, books, audit, history>>

\* Without its row the order is returned all the same.
SaveFails(h) ==
    /\ "dbError" \in Faults
    /\ At(h, "save")
    /\ answered' = answered \cup {req[h].order}
    /\ Return(h)
    /\ Fault(h)
    /\ UNCHANGED <<order, keyRow, tester, gateway, escrow, exists, books, audit, overlapped>>

\* The customer is made a payment tester, or no longer is one.
SwitchEnvironment ==
    /\ tester' \in Environments \ {tester}
    /\ UNCHANGED <<order, answered, keyRow, gateway, escrow, exists, books, audit, req, history>>

-------------------------------------------------------------------------------
(* Razorpay (external)                                                     *)

Captured(o) == \E p \in Payments : gateway[p].state = "captured" /\ gateway[p].order = o

GatewayMoves(p, o, from, to) ==
    /\ gateway[p].state = from
    /\ gateway' = [gateway EXCEPT ![p] = [order |-> o, state |-> to]]
    /\ UNCHANGED <<intake, escrow, exists, books, audit, req, history>>

\* The customer pays an order that was answered: the attempt is authorized or fails.
Attempt(p, o) ==
    /\ o \in answered
    /\ ~order[o].free
    /\ ~Captured(o)
    /\ GatewayMoves(p, o, "none", "authorized") \/ GatewayMoves(p, o, "none", "failed")

\* Razorpay captures one payment of an order.
Capture(p) == ~Captured(gateway[p].order) /\ GatewayMoves(p, gateway[p].order, "authorized", "captured")

\* Webhooks arrive late, repeatedly and in any order, but never early.
Emitted(event, p) ==
    CASE event = "authorized" -> gateway[p].state \in {"authorized", "captured"}
      [] event = "captured" -> gateway[p].state = "captured"
      [] OTHER -> gateway[p].state = "failed"

-------------------------------------------------------------------------------
(* Payment events: the webhook and verify-payment                          *)

Working(h, o) == req[h].step \in EventSteps /\ req[h].order = o

BeginEvent(h, event, p, webhook) ==
    LET o == gateway[p].order IN
    /\ At(h, "idle")
    /\ gateway[p].state # "none"
    /\ Emitted(event, p)
    /\ req' = [req EXCEPT ![h] = [Idle EXCEPT !.step = IF webhook THEN "receive" ELSE "find",
                    !.order = o, !.event = event, !.payment = p, !.webhook = webhook]]
    /\ overlapped' = IF \E g \in Handlers : Working(g, o) THEN overlapped \cup {o} ELSE overlapped
    /\ UNCHANGED <<intake, gateway, escrow, exists, books, audit, faulted>>

\* verify-payment, called again, and its repeat in the background once
\* Razorpay has answered.
BeginVerify(h, p) == BeginEvent(h, "captured", p, FALSE)
BeginWebhook(h, event, p) == BeginEvent(h, event, p, TRUE)

\* An event that has a row is not handled again, whatever became of it.
Deduplicate(h) ==
    LET e == EventOf(h) IN
    /\ At(h, "receive")
    /\ IF audit[e] = "none" THEN GoTo(h, "log") ELSE Return(h)
    /\ UNCHANGED <<intake, gateway, escrow, exists, books, audit, history>>

\* The event id is unique; a delivery whose row is refused is handled without one.
LogReceived(h) ==
    LET e == EventOf(h) IN
    /\ At(h, "log")
    /\ audit' = IF audit[e] = "none" THEN [audit EXCEPT ![e] = "received"] ELSE audit
    /\ req' = [req EXCEPT ![h].step = "find", ![h].owner = (audit[e] = "none")]
    /\ UNCHANGED <<intake, gateway, escrow, exists, books, history>>

\* The handlers catch every failure, so an event counts as processed whatever came of it.
MarkProcessed(h) ==
    /\ At(h, "mark")
    /\ audit' = IF req[h].owner THEN [audit EXCEPT ![EventOf(h)] = "processed"] ELSE audit
    /\ Return(h)
    /\ UNCHANGED <<intake, gateway, escrow, exists, books, history>>

Finish(h) == IF req[h].webhook THEN GoTo(h, "mark") ELSE Return(h)

-------------------------------------------------------------------------------
(* updateEscrowOnPaymentCapture                                            *)

\* Wrong on purpose: a missing row is never rebuilt.
Recoverable_Never(o) == FALSE

\* The order's notes name a task and a poster, and Razorpay is asked with the
\* live keys, whichever keys made the order.
Recoverable(o) == order[o].kind # "goods" /\ order[o].environment = "live"

FindEscrow(h) ==
    LET o == req[h].order
        e == escrow[o] IN
    /\ At(h, "find")
    /\ CASE o \notin exists -> IF Recoverable(o) THEN GoTo(h, "recover") ELSE Finish(h)
         [] o \in exists /\ CaptureAlreadyApplied(e, req[h].event, req[h].payment) -> GoTo(h, "reconfirm")
         [] OTHER ->
              IF resolveEscrowPaymentTransition(e, req[h].event, req[h].payment)
              THEN req' = [req EXCEPT ![h].step = "apply", ![h].seen = e]
              ELSE Finish(h)
    /\ UNCHANGED <<intake, gateway, escrow, exists, books, audit, history>>

\* recoverEscrowFromRazorpayOrder.  Only one row per order: who comes second
\* finds no escrow.
Recover(h) ==
    LET o == req[h].order
        row == [status |-> "pending", paymentStatus |-> "none", paymentId |-> NoPayment] IN
    /\ At(h, "recover")
    /\ IF o \in exists
       THEN Finish(h) /\ UNCHANGED <<escrow, exists>>
       ELSE InsertRow(o, row) /\ req' = [req EXCEPT ![h].step = "apply", ![h].seen = row]
    /\ UNCHANGED <<intake, gateway, books, audit, history>>

\* Wrong on purpose: the write does not look at the row.
Wins_Blind(o, seen) == TRUE

\* The conditional write, after which the winner alone books.
Wins(o, seen) == SameState(escrow[o], seen)

ApplyEvent(h) ==
    LET o == req[h].order IN
    /\ At(h, "apply")
    /\ IF Wins(o, req[h].seen)
       THEN /\ escrow' = [escrow EXCEPT ![o] = PaymentUpdate(@, req[h].event, req[h].payment)]
            /\ GoTo(h, IF req[h].event = "failed" /\ order[o].coupon THEN "release" ELSE "record")
       ELSE UNCHANGED escrow /\ Finish(h)
    /\ UNCHANGED <<intake, gateway, exists, books, audit, history>>

\* A failed attempt gives the coupon back.
ReleaseCoupon(h) ==
    /\ At(h, "release")
    /\ CancelCoupon(req[h].order, TRUE)
    /\ GoTo(h, "record")
    /\ UNCHANGED <<intake, gateway, escrow, exists, txn, ledger, booked, audit, history>>

\* Wrong on purpose: an order without a coupon stops here.
RecordTransaction_CouponOnly(h) ==
    /\ At(h, "record")
    /\ txn' = [txn EXCEPT ![req[h].payment] = req[h].event]
    /\ IF req[h].event = "captured" /\ order[req[h].order].coupon THEN GoTo(h, "confirm") ELSE Finish(h)
    /\ UNCHANGED <<intake, gateway, escrow, exists, coupon, ledger, booked, audit, history>>

\* transaction.upsert by payment id; only a capture has more to book.
RecordTransaction(h) ==
    /\ At(h, "record")
    /\ txn' = [txn EXCEPT ![req[h].payment] = req[h].event]
    /\ IF req[h].event = "captured"
       THEN GoTo(h, IF order[req[h].order].coupon THEN "confirm" ELSE "book")
       ELSE Finish(h)
    /\ UNCHANGED <<intake, gateway, escrow, exists, coupon, ledger, booked, audit, history>>

\* Wrong on purpose: a coupon given back is not taken again.
ConfirmCoupon_IfReserved(h) ==
    /\ At(h, "confirm")
    /\ coupon' = [coupon EXCEPT ![req[h].order] = IF @ = "reserved" THEN "confirmed" ELSE @]
    /\ GoTo(h, "book")
    /\ UNCHANGED <<intake, gateway, escrow, exists, txn, ledger, booked, audit, history>>

ConfirmCoupon(h) ==
    /\ At(h, "confirm")
    /\ coupon' = [coupon EXCEPT ![req[h].order] = "confirmed"]
    /\ GoTo(h, "book")
    /\ UNCHANGED <<intake, gateway, escrow, exists, txn, ledger, booked, audit, history>>

BookCapture(h) ==
    /\ At(h, "book")
    /\ ledger' = [ledger EXCEPT ![req[h].order] = @ + 1]
    /\ GoTo(h, "notify")
    /\ UNCHANGED <<intake, gateway, escrow, exists, coupon, txn, booked, audit, history>>

NotifyBooking(h) ==
    /\ At(h, "notify")
    /\ booked' = booked \cup {req[h].order}
    /\ Finish(h)
    /\ UNCHANGED <<intake, gateway, escrow, exists, coupon, txn, ledger, audit, history>>

\* The same capture again: the coupon (and the coins) are settled again, the
\* books and task-service are not.
Reconfirm(h) ==
    /\ At(h, "reconfirm")
    /\ coupon' = IF order[req[h].order].coupon THEN [coupon EXCEPT ![req[h].order] = "confirmed"] ELSE coupon
    /\ Finish(h)
    /\ UNCHANGED <<intake, gateway, escrow, exists, txn, ledger, booked, audit, history>>

-------------------------------------------------------------------------------
(* Faults                                                                  *)

\* The process stops.  A webhook's row stays as it is.
Crash(h) ==
    /\ "crash" \in Faults
    /\ ~At(h, "idle")
    /\ Return(h)
    /\ Fault(h)
    /\ UNCHANGED <<intake, gateway, escrow, exists, books, audit, overlapped>>

\* A query of updateEscrowOnPaymentCapture fails: the failure is returned and
\* the webhook handler drops it.  createLedgerEntry only logs its own.
DbError(h) ==
    /\ "dbError" \in Faults
    /\ \/ req[h].step \in {"find", "recover", "apply", "record"} /\ Finish(h)
       \/ At(h, "book") /\ GoTo(h, "notify")
    /\ Fault(h)
    /\ UNCHANGED <<intake, gateway, escrow, exists, books, audit, overlapped>>

\* A call to the coupon service or task-service fails; it is only logged.
LostCall(h) ==
    /\ "lostCall" \in Faults
    /\ CASE At(h, "release") -> GoTo(h, "record")
         [] At(h, "confirm") -> GoTo(h, "book")
         [] req[h].step \in {"notify", "reconfirm"} -> Finish(h)
         [] OTHER -> FALSE
    /\ Fault(h)
    /\ UNCHANGED <<intake, gateway, escrow, exists, books, audit, overlapped>>

-------------------------------------------------------------------------------
Start(h) ==
    \/ \E o \in Orders, coup, free \in BOOLEAN : BeginCheckout(h, o, coup, free)
    \/ \E o \in Orders, k \in Keys \cup {NoKey}, kind \in {"task", "goods"} : BeginCreateOrder(h, o, k, kind)
    \/ \E p \in Payments : BeginVerify(h, p) \/ \E event \in Subscribed : BeginWebhook(h, event, p)

CreateOrder(h) ==
    \/ ReserveCoupon(h)
    \/ MakeOrder(h)
    \/ InsertEscrow(h)
    \/ ConfirmFree(h)
    \/ FindKeyedOrder(h)
    \/ SaveKey(h)

HandleEvent(h) ==
    \/ Deduplicate(h)
    \/ LogReceived(h)
    \/ FindEscrow(h)
    \/ Recover(h)
    \/ ApplyEvent(h)
    \/ ReleaseCoupon(h)
    \/ RecordTransaction(h)
    \/ ConfirmCoupon(h)
    \/ BookCapture(h)
    \/ NotifyBooking(h)
    \/ Reconfirm(h)
    \/ MarkProcessed(h)

Fail(h) == OrderRejected(h) \/ InsertFails(h) \/ SaveFails(h) \/ Crash(h) \/ DbError(h) \/ LostCall(h)

Next ==
    \/ \E h \in Handlers : Start(h) \/ CreateOrder(h) \/ HandleEvent(h) \/ Fail(h)
    \/ \E p \in Payments : Capture(p) \/ \E o \in Orders : Attempt(p, o)
    \/ SwitchEnvironment

Spec == Init /\ [][Next]_vars

-------------------------------------------------------------------------------
Quiet(o) == \A h \in Handlers : ~Working(h, o)
Paid(o) == o \in exists /\ escrow[o].paymentStatus = "captured"
Undisturbed(o) == Quiet(o) /\ o \notin faulted

\* A capture enters the ledger once, however often and through whichever of
\* webhook, verify call and background repeat it is reported, and never
\* without the row that holds it (updateEscrowOnPaymentCapture's conditional
\* write comes before createLedgerEntry).
CaptureBookedOnce == \A o \in Orders : ledger[o] <= 1 /\ (ledger[o] = 1 => Paid(o))

\* Of racing reports the one that writes the row does the rest: no captured
\* order without a fault is left out of the ledger or untold to task-service.
CaptureBooked ==
    \A o \in Orders :
        Undisturbed(o) /\ Paid(o) /\ ~order[o].free => ledger[o] = 1 /\ o \in booked

\* Reports handled one after the other, in any order and any number of times,
\* leave the coupon used and the Transaction row captured, also when an
\* earlier attempt at the order failed.
FollowedUp ==
    \A o \in Orders :
        Undisturbed(o) /\ o \notin overlapped /\ Paid(o) /\ ~order[o].free =>
            /\ order[o].coupon => coupon[o] = "confirmed"
            /\ txn[escrow[o].paymentId] = "captured"

\* A coupon is used up only by an order that is paid (or free), whatever races
\* or fails: no customer loses a coupon to an order that was not paid.
CouponUsedByPaidOrder == \A o \in Orders : coupon[o] = "confirmed" => Paid(o)

\* Orders whose payment an escrow row can hold: a checkout stores its row before
\* the customer gets the order; the row of a task's create-order is rebuilt from
\* Razorpay, if the order was made with the live keys.
HasEscrow(o) == \/ order[o].kind = "checkout"
                \/ order[o].kind = "task" /\ order[o].environment = "live"

\* A capture whose event is marked processed holds the money, when its order's
\* events did not overlap and nothing failed.  (The webhook marks every event
\* processed: also that of a test order without a row, which no retry can apply.)
ProcessedIsApplied ==
    \A p \in Payments :
        LET o == gateway[p].order IN
        /\ "captured" \in Subscribed
        /\ audit[<<"captured", p>>] = "processed"
        /\ Undisturbed(o)
        /\ o \notin overlapped
        /\ HasEscrow(o)
        => Paid(o)

\* One key makes one order in the environment of its row, unless its requests
\* overlapped or failed.
OneOrderPerKey ==
    \A k \in Keys : \A saved \in keyRow[k] : \A o \in Orders \ (faulted \cup overlapped) :
        order[o].key = k /\ order[o].environment = order[saved].environment => o = saved

\* What holds of orders, keys and coupons at every moment.
IntakeInv == TypeOK /\ OneOrderPerKey /\ CouponUsedByPaidOrder

\* A capture enters the books exactly once.
BookedExactlyOnce == CaptureBookedOnce /\ CaptureBooked
=============================================================================
