------------------------ MODULE PaymentIntake_proofs ------------------------
(***************************************************************************)
(* Proofs about PaymentIntake, for any number of orders, payments, keys    *)
(* and requests, any subscription and any combination of faults.           *)
(*                                                                         *)
(*   IntakeCorrect       Spec => []IntakeInv                               *)
(*   BookedOnce          Spec => []BookedExactlyOnce                       *)
(*   CapturesFollowedUp  Spec => []FollowedUp                              *)
(*   ProcessedApplied    Spec => []ProcessedIsApplied                      *)
(*                                                                         *)
(* The invariant is stated for one order, OrderInv(o), because a request   *)
(* works on one order: lemma OneOrder says that a step on order o keeps    *)
(* OrderInv of every order if it keeps that of o.  Keys relate orders to   *)
(* each other and have an invariant of their own, KeyInv.                  *)
(***************************************************************************)
EXTENDS PaymentIntake, TLAPS

-----------------------------------------------------------------------------
(* The inductive invariant                                                 *)

\* Request h is about order o.
On(h, o) == req[h].step # "idle" /\ req[h].order = o

\* Steps of the request that makes an order.
OwnSteps == {"reserve", "make", "insert", "free", "keyed", "save"}

\* A request that wrote the capture into the row and has yet to book it.
Booking(h) == /\ req[h].step \in {"record", "confirm", "book", "notify"}
              /\ req[h].event = "captured"

\* Who makes an order is the first to know of it.
OwnerKnows(h) ==
    LET o == req[h].order IN
    req[h].step \in OwnSteps =>
        /\ o \notin answered
        /\ req[h].wants.kind # "none"
        /\ req[h].step \in {"reserve", "make", "keyed"} => order[o].kind = "none"
        /\ req[h].step \in {"insert", "free", "save"} => order[o] = req[h].wants
        /\ req[h].step = "save" => req[h].wants.kind # "checkout"
        /\ req[h].step # "free" => o \notin exists
        /\ req[h].step = "free" => Paid(o) /\ order[o].free

\* An event is about a payment of its order.
EventKnows(h) ==
    req[h].step \in EventSteps =>
        /\ req[h].payment \in Payments
        /\ gateway[req[h].payment].state # "none"
        /\ gateway[req[h].payment].order = req[h].order
        /\ req[h].webhook => req[h].event \in Subscribed
        /\ req[h].step \in {"receive", "log", "mark"} => req[h].webhook

\* What an event found out is still true, whatever other requests did since.
StepKnows(h) ==
    LET o == req[h].order IN
    /\ req[h].step = "apply" =>
          /\ o \in exists
          /\ resolveEscrowPaymentTransition(req[h].seen, req[h].event, req[h].payment)
    /\ req[h].step = "release" => req[h].event = "failed"
    /\ req[h].step \in {"confirm", "book", "notify", "reconfirm"} => req[h].event = "captured"
    /\ req[h].step = "reconfirm" => Paid(o)
    /\ Booking(h) => /\ Paid(o)
                     /\ escrow[o].paymentId = req[h].payment
                     /\ IF req[h].step = "notify" THEN ledger[o] = 1 \/ o \in faulted
                                                  ELSE ledger[o] = 0

Knows(h) == OwnerKnows(h) /\ EventKnows(h) /\ StepKnows(h)

\* What it found out is also complete, if it works on the order alone.
Fresh(h) ==
    LET o == req[h].order IN
    /\ req[h].step = "apply" => req[h].seen = escrow[o]
    /\ req[h].step = "recover" => o \notin exists
    /\ req[h].step = "release" => ~Paid(o)
    /\ req[h].step = "record" /\ req[h].event # "captured" => ~Paid(o)
    /\ req[h].step = "mark" /\ req[h].event = "captured" /\ o \notin faulted /\ HasEscrow(o)
          => Paid(o)

\* The row, its coupon and its ledger entry.
RowInv(o) ==
    /\ o \in exists \/ o \in answered => order[o].kind # "none"
    /\ o \in answered /\ order[o].kind = "checkout" => o \in exists
    /\ escrow[o].paymentStatus = "captured" <=> escrow[o].status = "held"
    /\ escrow[o].status \notin {"released", "refunded"}
    /\ Paid(o) /\ ~order[o].free =>
          /\ escrow[o].paymentId \in Payments
          /\ gateway[escrow[o].paymentId].state # "none"
          /\ gateway[escrow[o].paymentId].order = o
    /\ ledger[o] <= 1
    /\ ledger[o] = 1 => Paid(o)
    /\ coupon[o] = "confirmed" => Paid(o)

\* Only an answered order that costs something has payments, only payments have events.
PaymentInv(o) ==
    \A p \in Payments : gateway[p].order = o =>
        /\ gateway[p].state # "none" => o \in answered /\ ~order[o].free
        /\ \A event \in Subscribed : audit[<<event, p>>] # "none" => gateway[p].state # "none"

\* Nobody else knows of an order in the making, and one request books a capture.
ShareInv(o) ==
    \A g, h \in Handlers : On(g, o) /\ On(h, o) /\ g # h =>
        Working(g, o) /\ Working(h, o) /\ ~(Booking(g) /\ Booking(h))

\* A capture is booked, or a request is about to, or a fault stopped it.
BookedInv(o) ==
    Paid(o) /\ ~order[o].free /\ o \notin faulted =>
        \/ ledger[o] = 1 /\ o \in booked
        \/ \E h \in Handlers : On(h, o) /\ Booking(h)

\* The coupon and the Transaction row of a capture that no other event overlapped.
FollowInv(o) ==
    Paid(o) /\ ~order[o].free /\ o \notin faulted =>
        \/ \E h \in Handlers : On(h, o) /\ Booking(h) /\ At(h, "record")
        \/ /\ txn[escrow[o].paymentId] = "captured"
           /\ order[o].coupon => \/ coupon[o] = "confirmed"
                                 \/ \E h \in Handlers : On(h, o) /\ At(h, "confirm")

ProcessedInv(o) ==
    \A p \in Payments :
        /\ gateway[p].order = o
        /\ "captured" \in Subscribed
        /\ audit[<<"captured", p>>] = "processed"
        /\ o \notin faulted
        /\ HasEscrow(o)
        => Paid(o)

\* What holds of an order whose events did not overlap.
AloneInv(o) ==
    o \notin overlapped =>
        /\ \A g, h \in Handlers : Working(g, o) /\ Working(h, o) => g = h
        /\ \A h \in Handlers : On(h, o) => Fresh(h)
        /\ FollowInv(o)
        /\ ProcessedInv(o)

OrderInv(o) ==
    /\ RowInv(o)
    /\ PaymentInv(o)
    /\ \A h \in Handlers : On(h, o) => Knows(h)
    /\ ShareInv(o)
    /\ BookedInv(o)
    /\ AloneInv(o)

\* Orders made under a key.  A request that overlaps no other one of its key is
\* alone with it, and found no order that it could have used.
KeyInv ==
    /\ \A k \in Keys : \A saved \in keyRow[k] : order[saved].key = k /\ saved \in answered
    /\ \A h \in Handlers : req[h].wants.key \in Keys =>
          /\ req[h].step \in {"keyed", "make", "save"}
          /\ req[h].wants.kind # "checkout"
    /\ \A h \in Handlers : req[h].wants.key \in Keys /\ req[h].order \notin overlapped =>
          /\ \A g \in Handlers \ {h} : req[g].wants.key # req[h].wants.key
          /\ req[h].step \in {"make", "save"} =>
                Reusable(req[h].wants.key, req[h].wants.environment) = {}
    /\ \A o \in Orders \ (faulted \cup overlapped) :
          order[o].key \in Keys /\ keyRow[order[o].key] = {} =>
              \E h \in Handlers : On(h, o) /\ At(h, "save")
    /\ OneOrderPerKey

IInv == TypeOK /\ (\A o \in Orders : OrderInv(o)) /\ KeyInv

-----------------------------------------------------------------------------
(* One step concerns one order                                             *)

\* Only the slot of h changes.
Only(h) == /\ req' \in [Handlers -> Requests]
           /\ \A g \in Handlers \ {h} : req'[g] = req[g]

\* h works on o, before and after the step.
Acts(h, o) == /\ Only(h)
              /\ At(h, "idle") \/ req[h].order = o
              /\ req'[h].step = "idle" \/ req'[h].order = o

\* Orders other than o, and their payments, are left alone.
Elsewhere(o) ==
    /\ gateway' = gateway
    /\ \A x \in Orders \ {o} :
          /\ order'[x] = order[x] /\ (x \in answered' <=> x \in answered)
          /\ escrow'[x] = escrow[x] /\ (x \in exists' <=> x \in exists)
          /\ coupon'[x] = coupon[x] /\ ledger'[x] = ledger[x]
          /\ (x \in booked' <=> x \in booked)
          /\ (x \in faulted' <=> x \in faulted)
          /\ (x \in overlapped => x \in overlapped')
    /\ \A p \in Payments : gateway[p].order # o =>
          txn'[p] = txn[p] /\ \A event \in Subscribed : audit'[<<event, p>>] = audit[<<event, p>>]

\* What the other requests for o rely on.
Beside(h, o) ==
    \A g \in Handlers \ {h} : On(g, o) =>
        /\ Working(g, o)
        /\ req'[h].step # "idle" => req'[h].step \in EventSteps
        /\ order'[o] = order[o] /\ (o \in answered' <=> o \in answered)
        /\ o \in exists => o \in exists'
        /\ o \in faulted => o \in faulted'
        /\ Paid(o) => escrow'[o] = escrow[o]
        /\ Booking(g) => ledger'[o] = ledger[o] /\ ~Booking(h)'

\* The invariant of o and of h, for itself.
Keeps(h, o) ==
    /\ RowInv(o)'
    /\ PaymentInv(o)'
    /\ On(h, o)' => Knows(h)'
    /\ BookedInv(o)'
    /\ o \notin overlapped' =>
          /\ \A g \in Handlers \ {h} : ~Working(g, o)
          /\ On(h, o)' => Fresh(h)'
          /\ FollowInv(o)'
          /\ ProcessedInv(o)'

\* An order that a step is not about keeps its invariant.
LEMMA OtherOrder ==
    ASSUME IInv, NEW h \in Handlers, NEW o \in Orders, Acts(h, o), Elsewhere(o),
           NEW x \in Orders, x # o
    PROVE  OrderInv(x)'
<1>1. OrderInv(x) /\ TypeOK
  BY DEF IInv
<1>2. \A g \in Handlers : /\ (On(g, x)' <=> On(g, x))
                          /\ On(g, x) => req'[g] = req[g]
  BY DEF Acts, Only, On, At
<1>3. /\ order'[x] = order[x] /\ (x \in answered' <=> x \in answered)
      /\ escrow'[x] = escrow[x] /\ (x \in exists' <=> x \in exists)
      /\ coupon'[x] = coupon[x] /\ ledger'[x] = ledger[x]
      /\ (x \in booked' <=> x \in booked)
      /\ (x \in faulted' <=> x \in faulted)
      /\ (x \in overlapped => x \in overlapped')
      /\ gateway' = gateway
  BY DEF Elsewhere
<1>4. \A p \in Payments : gateway[p].order = x =>
         txn'[p] = txn[p] /\ \A event \in Subscribed : audit'[<<event, p>>] = audit[<<event, p>>]
  BY DEF Elsewhere
<1>5. Paid(x)' <=> Paid(x)
  BY <1>3 DEF Paid
<1>6. RowInv(x)'
  BY <1>1, <1>3, <1>5 DEF OrderInv, RowInv
<1>7. PaymentInv(x)'
  BY <1>1, <1>3, <1>4 DEF OrderInv, PaymentInv
<1>8. \A g \in Handlers : On(g, x) => (Booking(g)' <=> Booking(g)) /\ (Working(g, x)' <=> Working(g, x))
  BY <1>2 DEF Booking, Working
<1>9. \A g \in Handlers : Working(g, x) => On(g, x)
  BY DEF Working, On, EventSteps
<1>10. \A g \in Handlers : Working(g, x)' => On(g, x)'
  BY DEF Working, On, EventSteps
<1>11. ASSUME NEW g \in Handlers, On(g, x)' PROVE Knows(g)'
  <2>1. On(g, x) /\ Knows(g) /\ req'[g] = req[g] /\ req[g].order = x
    BY <1>1, <1>2, <1>11 DEF OrderInv, On
  <2>2. OwnerKnows(g)'
    BY <1>3, <1>5, <2>1 DEF Knows, OwnerKnows
  <2>3. EventKnows(g)'
    BY <1>3, <2>1 DEF Knows, EventKnows
  <2>4. StepKnows(g)'
    BY <1>3, <1>5, <1>8, <2>1 DEF Knows, StepKnows
  <2>5. QED
    BY <2>2, <2>3, <2>4 DEF Knows
<1>12. ShareInv(x)'
  BY <1>1, <1>2, <1>8 DEF OrderInv, ShareInv
<1>13. BookedInv(x)'
  BY <1>1, <1>2, <1>3, <1>5, <1>8 DEF OrderInv, BookedInv
<1>14. ASSUME x \notin overlapped'
       PROVE  /\ \A g, i \in Handlers : Working(g, x)' /\ Working(i, x)' => g = i
              /\ \A g \in Handlers : On(g, x)' => Fresh(g)'
              /\ FollowInv(x)'
              /\ ProcessedInv(x)'
  <2>1. /\ \A g, i \in Handlers : Working(g, x) /\ Working(i, x) => g = i
        /\ \A g \in Handlers : On(g, x) => Fresh(g)
        /\ FollowInv(x)
        /\ ProcessedInv(x)
    BY <1>1, <1>3, <1>14 DEF OrderInv, AloneInv
  <2>2. \A g, i \in Handlers : Working(g, x)' /\ Working(i, x)' => g = i
    BY <1>2, <1>8, <1>10, <2>1
  <2>3. ASSUME NEW g \in Handlers, On(g, x)' PROVE Fresh(g)'
    <3>1. Fresh(g) /\ req'[g] = req[g] /\ req[g].order = x
      BY <1>2, <2>1, <2>3 DEF On
    <3>2. QED
      BY <1>3, <1>5, <3>1 DEF Fresh, HasEscrow
  <2>4. ASSUME Paid(x)', ~order'[x].free, x \notin faulted'
        PROVE  \/ \E g \in Handlers : On(g, x)' /\ Booking(g)' /\ At(g, "record")'
               \/ /\ txn'[escrow'[x].paymentId] = "captured"
                  /\ order'[x].coupon => \/ coupon'[x] = "confirmed"
                                         \/ \E g \in Handlers : On(g, x)' /\ At(g, "confirm")'
    <3>1. Paid(x) /\ ~order[x].free /\ x \notin faulted
      BY <1>3, <1>5, <2>4
    <3>2. escrow[x].paymentId \in Payments /\ gateway[escrow[x].paymentId].order = x
      BY <1>1, <3>1 DEF OrderInv, RowInv
    <3>3. txn'[escrow'[x].paymentId] = txn[escrow[x].paymentId]
      BY <1>3, <1>4, <3>2
    <3>4. \A g \in Handlers : On(g, x) => (At(g, "record")' <=> At(g, "record"))
                                       /\ (At(g, "confirm")' <=> At(g, "confirm"))
      BY <1>2 DEF At
    <3>5. CASE \E g \in Handlers : On(g, x) /\ Booking(g) /\ At(g, "record")
      BY <1>2, <1>8, <3>4, <3>5
    <3>6. CASE /\ txn[escrow[x].paymentId] = "captured"
               /\ order[x].coupon => \/ coupon[x] = "confirmed"
                                     \/ \E g \in Handlers : On(g, x) /\ At(g, "confirm")
      BY <1>2, <1>3, <3>3, <3>4, <3>6
    <3>7. QED
      BY <2>1, <3>1, <3>5, <3>6 DEF FollowInv
  <2>5. FollowInv(x)'
    BY <2>4 DEF FollowInv
  <2>6. ProcessedInv(x)'
    BY <1>3, <1>4, <1>5, <2>1 DEF ProcessedInv, HasEscrow
  <2>7. QED
    BY <2>2, <2>3, <2>5, <2>6
<1>15. AloneInv(x)'
  BY <1>14 DEF AloneInv
<1>16. QED
  BY <1>6, <1>7, <1>11, <1>12, <1>13, <1>15 DEF OrderInv

\* A step of h on o keeps the invariant of every order, if it keeps its own part
\* of the invariant of o and what the others rely on.
LEMMA OneOrder ==
    ASSUME IInv, NEW h \in Handlers, NEW o \in Orders, Acts(h, o), Elsewhere(o),
           Beside(h, o), Keeps(h, o)
    PROVE  \A x \in Orders : OrderInv(x)'
<1>1. OrderInv(o)
  BY DEF IInv
<1>2. \A g \in Handlers \ {h} : req'[g] = req[g] /\ (On(g, o)' <=> On(g, o))
                              /\ (Booking(g)' <=> Booking(g)) /\ (Working(g, o)' <=> Working(g, o))
  BY DEF Acts, Only, On, Booking, Working
<1>3. \A g \in Handlers : /\ Working(g, o) => On(g, o)
                          /\ Working(g, o)' => On(g, o)'
  BY DEF Working, On, EventSteps
<1>4. ASSUME NEW g \in Handlers, On(g, o)' PROVE Knows(g)'
  <2>1. CASE g = h
    BY <1>4, <2>1 DEF Keeps
  <2>2. CASE g # h
    <3>1. On(g, o) /\ Knows(g) /\ req'[g] = req[g] /\ req[g].order = o
      BY <1>1, <1>2, <1>4, <2>2 DEF OrderInv, On
    <3>2. /\ Working(g, o)
          /\ order'[o] = order[o] /\ (o \in answered' <=> o \in answered)
          /\ o \in exists => o \in exists'
          /\ o \in faulted => o \in faulted'
          /\ Paid(o) => escrow'[o] = escrow[o]
          /\ Booking(g) => ledger'[o] = ledger[o]
      BY <2>2, <3>1 DEF Beside
    <3>3. Paid(o) => Paid(o)'
      BY <3>2 DEF Paid
    <3>4. OwnerKnows(g)'
      BY <3>1, <3>2 DEF Working, OwnerKnows, OwnSteps, EventSteps
    <3>5. EventKnows(g)'
      BY <3>1 DEF Elsewhere, Knows, EventKnows
    <3>6. StepKnows(g)'
      BY <1>2, <2>2, <3>1, <3>2, <3>3 DEF Knows, StepKnows
    <3>7. QED
      BY <3>4, <3>5, <3>6 DEF Knows
  <2>3. QED
    BY <2>1, <2>2
<1>5. ShareInv(o)'
  <2>1. SUFFICES ASSUME NEW f \in Handlers, NEW g \in Handlers, On(f, o)', On(g, o)', f # g
                 PROVE  Working(f, o)' /\ Working(g, o)' /\ ~(Booking(f)' /\ Booking(g)')
    BY DEF ShareInv
  <2>2. \A i \in Handlers \ {h} : On(i, o) => /\ Working(i, o)'
                                              /\ On(h, o)' => Working(h, o)'
                                              /\ Booking(i)' => ~Booking(h)'
    BY <1>2 DEF Beside, Working, On
  <2>3. CASE f # h /\ g # h
    BY <1>1, <1>2, <2>1, <2>2, <2>3 DEF OrderInv, ShareInv
  <2>4. CASE f = h \/ g = h
    BY <1>2, <2>1, <2>2, <2>4
  <2>5. QED
    BY <2>3, <2>4
<1>6. ASSUME o \notin overlapped'
      PROVE  /\ \A f, g \in Handlers : Working(f, o)' /\ Working(g, o)' => f = g
             /\ \A g \in Handlers : On(g, o)' => Fresh(g)'
             /\ FollowInv(o)'
             /\ ProcessedInv(o)'
  <2>1. /\ \A g \in Handlers \ {h} : ~Working(g, o)
        /\ On(h, o)' => Fresh(h)'
        /\ FollowInv(o)'
        /\ ProcessedInv(o)'
    BY <1>6 DEF Keeps
  <2>2. \A g \in Handlers \ {h} : ~On(g, o)
    BY <2>1 DEF Beside
  <2>3. QED
    BY <1>2, <2>1, <2>2
<1>7. AloneInv(o)'
  BY <1>6 DEF AloneInv
<1>8. OrderInv(o)'
  BY <1>4, <1>5, <1>7 DEF Keeps, OrderInv
<1>9. QED
  BY <1>8, OtherOrder

-----------------------------------------------------------------------------
(* What a step does to its slot                                            *)

\* The request goes on to a step and keeps what it is about.
Moved(h, step) ==
    /\ Only(h)
    /\ req'[h].step = step
    /\ req'[h].order = req[h].order /\ req'[h].wants = req[h].wants
    /\ req'[h].event = req[h].event /\ req'[h].payment = req[h].payment
    /\ req'[h].webhook = req[h].webhook

\* The slot is free again.
Left(h) == Only(h) /\ req'[h] = Idle

\* A slot that is free knows nothing.
LEMMA IdleSlot ==
    /\ Idle \in Requests
    /\ Idle.step = "idle" /\ Idle.wants.key = NoKey /\ Idle.order \in Orders
    /\ Idle.wants = NoOrder
<1>1. (CHOOSE o \in Orders : TRUE) \in Orders
  BY IntakeAssumption
<1>2. NoOrder \in OrderTypes
  BY DEF NoOrder, OrderTypes, Kinds, Environments
<1>3. NoRow \in EscrowRows
  BY DEF NoRow, EscrowRows, EscrowStatuses, PaymentStatuses
<1>4. QED
  BY <1>1, <1>2, <1>3 DEF Idle, Requests, Steps, PaymentEvents, NoOrder

\* GoTo moves the request.
LEMMA Moves ==
    ASSUME TypeOK, NEW h \in Handlers, NEW step \in Steps, GoTo(h, step)
    PROVE  Moved(h, step) /\ req'[h].seen = req[h].seen /\ req'[h].owner = req[h].owner
<1> DEFINE r == [req[h] EXCEPT !.step = step]
<1>1. req \in [Handlers -> Requests] /\ req[h] \in Requests
  BY DEF TypeOK
<1>2. req' = [req EXCEPT ![h] = r]
  BY DEF GoTo
<1>3. r \in Requests
  BY <1>1 DEF Requests
<1>4. /\ r.step = step /\ r.order = req[h].order /\ r.wants = req[h].wants
      /\ r.event = req[h].event /\ r.payment = req[h].payment /\ r.webhook = req[h].webhook
      /\ r.seen = req[h].seen /\ r.owner = req[h].owner
  BY <1>1 DEF Requests
<1> HIDE DEF r
<1>5. req'[h] = r /\ Only(h)
  BY <1>1, <1>2, <1>3 DEF Only
<1>6. QED
  BY <1>4, <1>5 DEF Moved

\* Seeing the row moves the request to its write.
LEMMA Sees ==
    ASSUME TypeOK, NEW h \in Handlers, NEW row \in EscrowRows,
           req' = [req EXCEPT ![h].step = "apply", ![h].seen = row]
    PROVE  Moved(h, "apply") /\ req'[h].seen = row
<1> DEFINE r == [req[h] EXCEPT !.step = "apply", !.seen = row]
<1>1. req \in [Handlers -> Requests] /\ req[h] \in Requests
  BY DEF TypeOK
<1>2. req' = [req EXCEPT ![h] = r]
  OBVIOUS
<1>3. r \in Requests
  BY <1>1 DEF Requests, Steps, EventSteps
<1>4. /\ r.step = "apply" /\ r.order = req[h].order /\ r.wants = req[h].wants
      /\ r.event = req[h].event /\ r.payment = req[h].payment /\ r.webhook = req[h].webhook
      /\ r.seen = row
  BY <1>1 DEF Requests
<1> HIDE DEF r
<1>5. req'[h] = r /\ Only(h)
  BY <1>1, <1>2, <1>3 DEF Only
<1>6. QED
  BY <1>4, <1>5 DEF Moved

\* Owning the row of a delivery moves the request to its handling.
LEMMA Owns ==
    ASSUME TypeOK, NEW h \in Handlers, NEW owner \in BOOLEAN,
           req' = [req EXCEPT ![h].step = "find", ![h].owner = owner]
    PROVE  Moved(h, "find")
<1> DEFINE r == [req[h] EXCEPT !.step = "find", !.owner = owner]
<1>1. req \in [Handlers -> Requests] /\ req[h] \in Requests
  BY DEF TypeOK
<1>2. req' = [req EXCEPT ![h] = r]
  OBVIOUS
<1>3. r \in Requests
  BY <1>1 DEF Requests, Steps, EventSteps
<1>4. /\ r.step = "find" /\ r.order = req[h].order /\ r.wants = req[h].wants
      /\ r.event = req[h].event /\ r.payment = req[h].payment /\ r.webhook = req[h].webhook
  BY <1>1 DEF Requests
<1> HIDE DEF r
<1>5. req'[h] = r /\ Only(h)
  BY <1>1, <1>2, <1>3 DEF Only
<1>6. QED
  BY <1>4, <1>5 DEF Moved

\* Return frees the slot.
LEMMA Leaves ==
    ASSUME TypeOK, NEW h \in Handlers, Return(h)
    PROVE  Left(h)
BY IdleSlot DEF TypeOK, Return, Left, Only

\* Finish goes on to the event log, or frees the slot.
LEMMA Finishes ==
    ASSUME TypeOK, NEW h \in Handlers, Finish(h)
    PROVE  Left(h) \/ (req[h].webhook /\ Moved(h, "mark"))
<1>1. CASE req[h].webhook
  <2>1. GoTo(h, "mark")
    BY <1>1 DEF Finish
  <2>2. "mark" \in Steps
    BY DEF Steps, EventSteps
  <2>3. QED
    BY <1>1, <2>1, <2>2, Moves
<1>2. CASE ~req[h].webhook
  BY <1>2, Leaves DEF Finish
<1>3. QED
  BY <1>1, <1>2

-----------------------------------------------------------------------------
(* Steps of payment events                                                 *)

\* What h was sent for: it is free, or still about the same event.
SameEvent(h) ==
    \/ Left(h)
    \/ \E step \in EventSteps : /\ Moved(h, step)
                                /\ step \in {"receive", "log", "mark"} => req[h].webhook

\* A step of an event keeps the invariant of every order if it keeps its part.
LEMMA EventStep ==
    ASSUME IInv, NEW h \in Handlers, NEW o \in Orders, Working(h, o), SameEvent(h),
           Elsewhere(o),
           order' = order, answered' = answered, overlapped' = overlapped,
           o \in exists => o \in exists', o \in faulted => o \in faulted',
           Paid(o) => escrow'[o] = escrow[o],
           Booking(h) \/ ledger'[o] = ledger[o],
           On(h, o)' /\ Booking(h)' => Booking(h) \/ ~Paid(o),
           RowInv(o)', PaymentInv(o)', BookedInv(o)',
           On(h, o)' => StepKnows(h)',
           o \notin overlapped => /\ On(h, o)' => Fresh(h)'
                                  /\ FollowInv(o)'
                                  /\ ProcessedInv(o)'
    PROVE  \A x \in Orders : OrderInv(x)'
<1>1. OrderInv(o) /\ On(h, o) /\ req[h].order = o
  BY DEF IInv, Working, On, EventSteps
<1>2. Only(h) /\ (req'[h].step = "idle" \/ (req'[h].step \in EventSteps /\ req'[h].order = o))
  BY <1>1, IdleSlot DEF SameEvent, Left, Moved
<1>3. Acts(h, o)
  BY <1>1, <1>2 DEF Acts
<1>4. ASSUME NEW g \in Handlers \ {h}, On(g, o)
      PROVE  Working(g, o) /\ ~(Booking(g) /\ Booking(h)) /\ Knows(g)
  BY <1>1, <1>4 DEF OrderInv, ShareInv
<1>5. Beside(h, o)
  <2>1. SUFFICES ASSUME NEW g \in Handlers \ {h}, On(g, o)
                 PROVE  /\ Working(g, o)
                        /\ req'[h].step # "idle" => req'[h].step \in EventSteps
                        /\ Booking(g) => ledger'[o] = ledger[o] /\ ~Booking(h)'
    BY DEF Beside
  <2>2. Booking(g) => Paid(o)
    BY <1>4, <2>1 DEF Knows, StepKnows, On
  <2>3. Booking(h)' => On(h, o)'
    BY <1>2 DEF Booking, On
  <2>4. QED
    BY <1>2, <1>4, <2>1, <2>2, <2>3
<1>6. ASSUME On(h, o)' PROVE Knows(h)'
  <2>1. PICK step \in EventSteps : Moved(h, step) /\ (step \in {"receive", "log", "mark"} => req[h].webhook)
    BY <1>6, IdleSlot DEF SameEvent, Left, On
  <2>2. Knows(h)
    BY <1>1 DEF OrderInv
  <2>3. req[h].step \in EventSteps
    BY DEF Working
  <2>4. EventKnows(h)'
    BY <2>1, <2>2, <2>3 DEF Knows, EventKnows, Moved, Elsewhere
  <2>5. OwnerKnows(h)'
    BY <2>1 DEF Moved, OwnerKnows, OwnSteps, EventSteps
  <2>6. QED
    BY <1>6, <2>4, <2>5 DEF Knows
<1>7. ASSUME o \notin overlapped'
      PROVE  /\ \A g \in Handlers \ {h} : ~Working(g, o)
             /\ On(h, o)' => Fresh(h)'
             /\ FollowInv(o)'
             /\ ProcessedInv(o)'
  <2>1. \A f, g \in Handlers : Working(f, o) /\ Working(g, o) => f = g
    BY <1>1, <1>7 DEF OrderInv, AloneInv
  <2>2. QED
    BY <1>7, <2>1
<1>8. Keeps(h, o)
  BY <1>6, <1>7 DEF Keeps
<1>9. QED
  BY <1>3, <1>5, <1>8, OneOrder

\* A step that changes no row and no book, and that only a fault keeps from
\* booking a capture.
LEMMA PassingStep ==
    ASSUME IInv, NEW h \in Handlers, NEW o \in Orders, Working(h, o), SameEvent(h),
           UNCHANGED <<order, answered, gateway, escrow, exists, books, overlapped>>,
           faulted' = faulted \/ faulted' = faulted \cup {o},
           \A p \in Payments : gateway[p].order # o =>
               \A event \in Subscribed : audit'[<<event, p>>] = audit[<<event, p>>],
           PaymentInv(o)',
           o \notin overlapped => ProcessedInv(o)',
           On(h, o)' => StepKnows(h)',
           o \notin overlapped => (On(h, o)' => Fresh(h)'),
           On(h, o)' /\ Booking(h)' => Booking(h),
           Booking(h) => o \in faulted',
           At(h, "confirm") => o \in faulted'
    PROVE  \A x \in Orders : OrderInv(x)'
<1>1. OrderInv(o) /\ On(h, o)
  BY DEF IInv, Working, On, EventSteps
<1>2. /\ coupon' = coupon /\ txn' = txn /\ ledger' = ledger /\ booked' = booked
  BY DEF books
<1>3. Elsewhere(o)
  BY <1>2 DEF Elsewhere
<1>4. (Paid(o)' <=> Paid(o)) /\ (o \in faulted => o \in faulted')
  BY DEF Paid
<1>5. RowInv(o)'
  BY <1>1, <1>2, <1>4 DEF OrderInv, RowInv
<1>6. \A g \in Handlers \ {h} : /\ On(g, o)' <=> On(g, o)
                                /\ Booking(g)' <=> Booking(g)
                                /\ At(g, "record")' <=> At(g, "record")
                                /\ At(g, "confirm")' <=> At(g, "confirm")
  BY DEF SameEvent, Left, Moved, Only, On, Booking, At
<1>7. BookedInv(o)'
  <2>1. SUFFICES ASSUME Paid(o), ~order[o].free, o \notin faulted'
                 PROVE  \/ ledger[o] = 1 /\ o \in booked
                        \/ \E g \in Handlers : On(g, o)' /\ Booking(g)'
    BY <1>2, <1>4 DEF BookedInv
  <2>2. CASE ledger[o] = 1 /\ o \in booked
    BY <2>2
  <2>3. CASE \E g \in Handlers : On(g, o) /\ Booking(g)
    <3>1. PICK g \in Handlers : On(g, o) /\ Booking(g)
      BY <2>3
    <3>2. g # h
      BY <2>1, <3>1
    <3>3. QED
      BY <1>6, <3>1, <3>2
  <2>4. QED
    BY <1>1, <1>4, <2>1, <2>2, <2>3 DEF OrderInv, BookedInv
<1>8. ASSUME o \notin overlapped PROVE FollowInv(o)'
  <2>1. SUFFICES ASSUME Paid(o), ~order[o].free, o \notin faulted'
                 PROVE  \/ \E g \in Handlers : On(g, o)' /\ Booking(g)' /\ At(g, "record")'
                        \/ /\ txn[escrow[o].paymentId] = "captured"
                           /\ order[o].coupon => \/ coupon[o] = "confirmed"
                                                 \/ \E g \in Handlers : On(g, o)' /\ At(g, "confirm")'
    BY <1>2, <1>4 DEF FollowInv
  <2>2. FollowInv(o) /\ o \notin faulted
    BY <1>1, <1>4, <1>8, <2>1 DEF OrderInv, AloneInv
  <2>3. CASE \E g \in Handlers : On(g, o) /\ Booking(g) /\ At(g, "record")
    <3>1. PICK g \in Handlers : On(g, o) /\ Booking(g) /\ At(g, "record")
      BY <2>3
    <3>2. g # h
      BY <2>1, <3>1
    <3>3. QED
      BY <1>6, <3>1, <3>2
  <2>4. CASE \E g \in Handlers : On(g, o) /\ At(g, "confirm")
    <3>1. PICK g \in Handlers : On(g, o) /\ At(g, "confirm")
      BY <2>4
    <3>2. g # h
      BY <2>1, <3>1
    <3>3. QED
      BY <1>6, <2>1, <2>2, <2>3, <3>1, <3>2 DEF FollowInv
  <2>5. CASE ~\E g \in Handlers : On(g, o) /\ At(g, "confirm")
    BY <2>1, <2>2, <2>3, <2>5 DEF FollowInv
  <2>6. QED
    BY <2>4, <2>5
<1>9. QED
  BY <1>2, <1>3, <1>5, <1>7, <1>8, EventStep

\* What is left unchanged leaves what the event log says of o true.
LEMMA LogKept ==
    ASSUME IInv, NEW o \in Orders, order' = order, answered' = answered, gateway' = gateway,
           audit' = audit, Paid(o) => Paid(o)', o \in faulted => o \in faulted'
    PROVE  /\ PaymentInv(o)'
           /\ o \notin overlapped => ProcessedInv(o)'
<1>1. PaymentInv(o) /\ (o \notin overlapped => ProcessedInv(o))
  BY DEF IInv, OrderInv, AloneInv
<1>2. PaymentInv(o)'
  BY <1>1 DEF PaymentInv
<1>3. ASSUME o \notin overlapped PROVE ProcessedInv(o)'
  BY <1>1, <1>3 DEF ProcessedInv, HasEscrow
<1>4. QED
  BY <1>2, <1>3

\* An event that ends without having booked anything: it has nothing to book,
\* or a fault stopped it.  If it goes on to the event log, the capture it is
\* about was applied.
LEMMA EventEnds ==
    ASSUME IInv, NEW h \in Handlers, NEW o \in Orders, Working(h, o),
           Left(h) \/ (req[h].webhook /\ Moved(h, "mark")),
           UNCHANGED <<order, answered, gateway, escrow, exists, books, audit, overlapped>>,
           faulted' = faulted \/ faulted' = faulted \cup {o},
           Booking(h) => o \in faulted',
           o \notin overlapped /\ req[h].event = "captured" /\ o \notin faulted' /\ HasEscrow(o)
              => Paid(o)
    PROVE  \A x \in Orders : OrderInv(x)'
<1>1. req[h].order = o /\ Knows(h)
  BY DEF IInv, OrderInv, Working, On, EventSteps
<1>2. SameEvent(h)
  BY DEF SameEvent, EventSteps
<1>3. At(h, "confirm") => Booking(h)
  BY <1>1 DEF At, Booking, Knows, StepKnows
<1>4. Paid(o)' <=> Paid(o)
  BY DEF Paid
<1>5. PaymentInv(o)' /\ (o \notin overlapped => ProcessedInv(o)')
  BY <1>4, LogKept
<1>6. CASE Left(h)
  <2>1. ~On(h, o)'
    BY <1>6, IdleSlot DEF Left, On
  <2>2. QED
    BY <1>2, <1>3, <1>5, <2>1, PassingStep
<1>7. CASE Moved(h, "mark")
  <2>1. /\ req'[h].step = "mark" /\ req'[h].event = req[h].event /\ req'[h].order = o
        /\ ~Booking(h)'
    BY <1>1, <1>7 DEF Moved, Booking
  <2>2. StepKnows(h)'
    BY <2>1 DEF StepKnows
  <2>3. o \notin overlapped => Fresh(h)'
    BY <1>4, <2>1 DEF Fresh, HasEscrow
  <2>4. QED
    BY <1>2, <1>3, <1>5, <2>1, <2>2, <2>3, PassingStep
<1>8. QED
  BY <1>6, <1>7

\* An event that goes on to a step that relies on nothing but the missing row.
LEMMA EventGoesOn ==
    ASSUME IInv, NEW h \in Handlers, NEW o \in Orders, Working(h, o),
           NEW step \in {"log", "find", "recover"}, Moved(h, step), step = "log" => req[h].webhook,
           step = "recover" => o \notin exists,
           UNCHANGED <<order, answered, gateway, escrow, exists, books, overlapped, faulted>>,
           \A p \in Payments : gateway[p].order # o =>
               \A event \in Subscribed : audit'[<<event, p>>] = audit[<<event, p>>],
           PaymentInv(o)',
           o \notin overlapped => ProcessedInv(o)',
           req[h].step \notin {"record", "confirm", "book", "notify"}
    PROVE  \A x \in Orders : OrderInv(x)'
<1>1. SameEvent(h)
  BY DEF SameEvent, EventSteps
<1>2. req'[h].step = step /\ req'[h].order = o
  BY DEF Moved, Working
<1>3. StepKnows(h)' /\ Fresh(h)'
  BY <1>2 DEF StepKnows, Fresh, Booking
<1>4. ~Booking(h) /\ ~Booking(h)' /\ ~At(h, "confirm")
  BY <1>2 DEF Booking, At
<1>5. QED
  BY <1>1, <1>3, <1>4, PassingStep

\* The order an event is about, and what it knows.
LEMMA EventFacts ==
    ASSUME IInv, NEW h \in Handlers, NEW o \in Orders, req[h].order = o, req[h].step \in EventSteps
    PROVE  /\ TypeOK /\ req[h] \in Requests
           /\ Working(h, o) /\ On(h, o)
           /\ OrderInv(o) /\ Knows(h)
           /\ req[h].payment \in Payments /\ req[h].event \in PaymentEvents
           /\ gateway[req[h].payment].order = o
           /\ gateway[req[h].payment].state # "none"
           /\ o \notin overlapped => Fresh(h)
<1>1. TypeOK /\ req[h] \in Requests
  BY DEF IInv, TypeOK
<1>2. req[h].event \in PaymentEvents
  BY <1>1 DEF Requests
<1>3. Working(h, o) /\ On(h, o)
  BY DEF Working, On, EventSteps
<1>4. OrderInv(o)
  BY DEF IInv
<1>5. Knows(h)
  BY <1>3, <1>4 DEF OrderInv
<1>6. o \notin overlapped => Fresh(h)
  BY <1>3, <1>4 DEF OrderInv, AloneInv
<1>7. QED
  BY <1>1, <1>2, <1>3, <1>4, <1>5, <1>6 DEF Knows, EventKnows

\* The check of the event log.
LEMMA DeduplicateKeeps ==
    ASSUME IInv, NEW h \in Handlers, NEW o \in Orders, req[h].order = o, Deduplicate(h)
    PROVE  \A x \in Orders : OrderInv(x)'
<1>1. req[h].step = "receive" /\ UNCHANGED <<intake, gateway, escrow, exists, books, audit, history>>
  BY DEF Deduplicate, At
<1>2. /\ TypeOK /\ Working(h, o) /\ Knows(h)
  BY <1>1, EventFacts DEF EventSteps
<1>3. UNCHANGED <<order, answered, gateway, escrow, exists, books, audit, overlapped, faulted>>
  BY <1>1 DEF intake, history
<1>4. ~Booking(h) /\ ~At(h, "confirm") /\ req[h].webhook
  BY <1>1, <1>2 DEF Booking, At, Knows, EventKnows, EventSteps
<1>5. Paid(o)' <=> Paid(o)
  BY <1>3 DEF Paid
<1>6. PaymentInv(o)' /\ (o \notin overlapped => ProcessedInv(o)')
  BY <1>2, <1>3, <1>5, LogKept
<1>7. CASE GoTo(h, "log")
  <2>1. Moved(h, "log")
    BY <1>2, <1>7, Moves DEF Steps, EventSteps
  <2>2. QED
    BY <1>1, <1>2, <1>3, <1>4, <1>6, <2>1, EventGoesOn
<1>8. CASE Return(h)
  <2>1. Left(h)
    BY <1>2, <1>8, Leaves
  <2>2. ~On(h, o)' /\ SameEvent(h)
    BY <2>1, IdleSlot DEF Left, On, SameEvent
  <2>3. QED
    BY <1>2, <1>3, <1>4, <1>6, <2>2, PassingStep
<1>9. QED
  BY <1>7, <1>8 DEF Deduplicate

\* The row of a delivery is written, by the first one.
LEMMA LogReceivedKeeps ==
    ASSUME IInv, NEW h \in Handlers, NEW o \in Orders, req[h].order = o, LogReceived(h)
    PROVE  \A x \in Orders : OrderInv(x)'
<1>1. /\ req[h].step = "log" /\ UNCHANGED <<intake, gateway, escrow, exists, books, history>>
      /\ audit' = IF audit[EventOf(h)] = "none" THEN [audit EXCEPT ![EventOf(h)] = "received"] ELSE audit
      /\ req' = [req EXCEPT ![h].step = "find", ![h].owner = (audit[EventOf(h)] = "none")]
  BY DEF LogReceived, At
<1>2. /\ TypeOK /\ Working(h, o) /\ Knows(h) /\ OrderInv(o)
      /\ req[h].payment \in Payments /\ gateway[req[h].payment].order = o
      /\ gateway[req[h].payment].state # "none"
  BY <1>1, EventFacts DEF EventSteps
<1>3. UNCHANGED <<order, answered, gateway, escrow, exists, books, overlapped, faulted>>
  BY <1>1 DEF intake, history
<1>4. (audit[EventOf(h)] = "none") \in BOOLEAN
  OBVIOUS
<1>5. Moved(h, "find")
  BY <1>1, <1>2, <1>4, Owns
<1>6. audit \in [Events -> {"none", "received", "processed"}]
  BY <1>2 DEF TypeOK
<1>7. \A event \in Subscribed, p \in Payments :
         /\ <<event, p>> # EventOf(h) => audit'[<<event, p>>] = audit[<<event, p>>]
         /\ audit'[<<event, p>>] = audit[<<event, p>>] \/ audit'[<<event, p>>] = "received"
  BY <1>1, <1>6 DEF Events
<1>8. EventOf(h) = <<req[h].event, req[h].payment>>
  BY DEF EventOf
<1>9. PaymentInv(o)'
  BY <1>2, <1>3, <1>7, <1>8 DEF OrderInv, PaymentInv
<1>10. Paid(o)' <=> Paid(o)
  BY <1>3 DEF Paid
<1>11. ASSUME o \notin overlapped PROVE ProcessedInv(o)'
  BY <1>2, <1>3, <1>7, <1>10, <1>11 DEF OrderInv, AloneInv, ProcessedInv, HasEscrow
<1>12. \A p \in Payments : gateway[p].order # o =>
         \A event \in Subscribed : audit'[<<event, p>>] = audit[<<event, p>>]
  BY <1>2, <1>7, <1>8
<1>13. QED
  BY <1>1, <1>2, <1>3, <1>5, <1>9, <1>11, <1>12, EventGoesOn

\* The row of a delivery is marked: its capture is in the row of the escrow.
LEMMA MarkProcessedKeeps ==
    ASSUME IInv, NEW h \in Handlers, NEW o \in Orders, req[h].order = o, MarkProcessed(h)
    PROVE  \A x \in Orders : OrderInv(x)'
<1>1. /\ req[h].step = "mark" /\ UNCHANGED <<intake, gateway, escrow, exists, books, history>>
      /\ audit' = IF req[h].owner THEN [audit EXCEPT ![EventOf(h)] = "processed"] ELSE audit
      /\ Return(h)
  BY DEF MarkProcessed, At
<1>2. /\ TypeOK /\ Working(h, o) /\ Knows(h) /\ OrderInv(o)
      /\ req[h].payment \in Payments /\ gateway[req[h].payment].order = o
      /\ gateway[req[h].payment].state # "none"
      /\ o \notin overlapped => Fresh(h)
  BY <1>1, EventFacts DEF EventSteps
<1>3. UNCHANGED <<order, answered, gateway, escrow, exists, books, overlapped, faulted>>
  BY <1>1 DEF intake, history
<1>4. Left(h)
  BY <1>1, <1>2, Leaves
<1>5. ~On(h, o)' /\ SameEvent(h) /\ ~Booking(h) /\ ~At(h, "confirm")
  BY <1>1, <1>4, IdleSlot DEF Left, On, SameEvent, Booking, At
<1>6. audit \in [Events -> {"none", "received", "processed"}]
  BY <1>2 DEF TypeOK
<1>7. \A event \in Subscribed, p \in Payments :
         <<event, p>> # EventOf(h) => audit'[<<event, p>>] = audit[<<event, p>>]
  BY <1>1, <1>6 DEF Events
<1>8. EventOf(h) = <<req[h].event, req[h].payment>>
  BY DEF EventOf
<1>9. PaymentInv(o)'
  BY <1>2, <1>3, <1>7, <1>8 DEF OrderInv, PaymentInv
<1>10. Paid(o)' <=> Paid(o)
  BY <1>3 DEF Paid
<1>11. ASSUME o \notin overlapped PROVE ProcessedInv(o)'
  <2>1. SUFFICES ASSUME NEW p \in Payments, gateway[p].order = o, "captured" \in Subscribed,
                        audit'[<<"captured", p>>] = "processed", o \notin faulted,
                        HasEscrow(o)
                 PROVE  Paid(o)
    BY <1>3, <1>10 DEF ProcessedInv, HasEscrow
  <2>2. CASE <<"captured", p>> = EventOf(h)
    BY <1>1, <1>2, <1>8, <1>11, <2>1, <2>2 DEF Fresh
  <2>3. CASE <<"captured", p>> # EventOf(h)
    BY <1>2, <1>7, <1>11, <2>1, <2>3 DEF OrderInv, AloneInv, ProcessedInv
  <2>4. QED
    BY <2>2, <2>3
<1>12. \A p \in Payments : gateway[p].order # o =>
         \A event \in Subscribed : audit'[<<event, p>>] = audit[<<event, p>>]
  BY <1>2, <1>7, <1>8
<1>13. QED
  BY <1>2, <1>3, <1>5, <1>9, <1>11, <1>12, PassingStep

\* The escrow is looked for: it is missing, the event is refused or it may apply.
LEMMA FindEscrowKeeps ==
    ASSUME IInv, NEW h \in Handlers, NEW o \in Orders, req[h].order = o, FindEscrow(h)
    PROVE  \A x \in Orders : OrderInv(x)'
<1>1. req[h].step = "find" /\ UNCHANGED <<intake, gateway, escrow, exists, books, audit, history>>
  BY DEF FindEscrow, At
<1>2. /\ TypeOK /\ Working(h, o) /\ On(h, o) /\ Knows(h) /\ OrderInv(o)
      /\ req[h].payment \in Payments /\ req[h].event \in PaymentEvents
  BY <1>1, EventFacts DEF EventSteps
<1>3. UNCHANGED <<order, answered, gateway, escrow, exists, books, audit, overlapped, faulted>>
  BY <1>1 DEF intake, history
<1>4. ~Booking(h) /\ ~At(h, "confirm")
  BY <1>1 DEF Booking, At
<1>5. Paid(o)' <=> Paid(o)
  BY <1>3 DEF Paid
<1>6. PaymentInv(o)' /\ (o \notin overlapped => ProcessedInv(o)')
  BY <1>2, <1>3, <1>5, LogKept
<1>7. ASSUME Finish(h), HasEscrow(o) /\ req[h].event = "captured" => Paid(o)
      PROVE  \A x \in Orders : OrderInv(x)'
  <2>1. Left(h) \/ (req[h].webhook /\ Moved(h, "mark"))
    BY <1>2, <1>7, Finishes
  <2>2. QED
    BY <1>2, <1>3, <1>4, <1>7, <2>1, EventEnds
<1>8. CASE o \notin exists /\ Recoverable(o)
  <2>1. GoTo(h, "recover")
    BY <1>8 DEF FindEscrow
  <2>2. Moved(h, "recover")
    BY <1>2, <2>1, Moves DEF Steps, EventSteps
  <2>3. QED
    BY <1>1, <1>2, <1>3, <1>6, <1>8, <2>2, EventGoesOn
<1>9. CASE o \notin exists /\ ~Recoverable(o)
  <2>1. Finish(h)
    BY <1>9 DEF FindEscrow
  <2>2. o \in answered
    BY <1>2 DEF Knows, EventKnows, OrderInv, PaymentInv, Working
  <2>3. ~HasEscrow(o)
    BY <1>2, <1>9, <2>2 DEF Recoverable, HasEscrow, OrderInv, RowInv
  <2>4. QED
    BY <1>7, <2>1, <2>3
<1>10. CASE o \in exists /\ CaptureAlreadyApplied(escrow[o], req[h].event, req[h].payment)
  <2>1. GoTo(h, "reconfirm")
    BY <1>10 DEF FindEscrow
  <2>2. Moved(h, "reconfirm")
    BY <1>2, <2>1, Moves DEF Steps, EventSteps
  <2>3. SameEvent(h)
    BY <2>2 DEF SameEvent, EventSteps
  <2>4. req[h].event = "captured" /\ Paid(o)
    BY <1>10 DEF CaptureAlreadyApplied, Paid
  <2>5. req'[h].step = "reconfirm" /\ req'[h].event = "captured" /\ req'[h].order = o
    BY <2>2, <2>4 DEF Moved
  <2>6. StepKnows(h)' /\ Fresh(h)' /\ ~Booking(h)'
    BY <1>5, <2>4, <2>5 DEF StepKnows, Fresh, Booking
  <2>7. QED
    BY <1>2, <1>3, <1>4, <1>6, <2>3, <2>6, PassingStep
<1>11. CASE /\ o \in exists /\ ~CaptureAlreadyApplied(escrow[o], req[h].event, req[h].payment)
            /\ resolveEscrowPaymentTransition(escrow[o], req[h].event, req[h].payment)
  <2>1. req' = [req EXCEPT ![h].step = "apply", ![h].seen = escrow[o]]
    BY <1>11 DEF FindEscrow
  <2>2. escrow[o] \in EscrowRows
    BY <1>2 DEF TypeOK
  <2>3. Moved(h, "apply") /\ req'[h].seen = escrow[o]
    BY <1>2, <2>1, <2>2, Sees
  <2>4. SameEvent(h)
    BY <2>3 DEF SameEvent, EventSteps
  <2>5. /\ req'[h].step = "apply" /\ req'[h].event = req[h].event /\ req'[h].order = o
        /\ req'[h].payment = req[h].payment /\ req'[h].seen = escrow[o]
    BY <2>3 DEF Moved
  <2>6. StepKnows(h)' /\ Fresh(h)' /\ ~Booking(h)'
    BY <1>3, <1>11, <2>5 DEF StepKnows, Fresh, Booking
  <2>7. QED
    BY <1>2, <1>3, <1>4, <1>6, <2>4, <2>6, PassingStep
<1>12. CASE /\ o \in exists /\ ~CaptureAlreadyApplied(escrow[o], req[h].event, req[h].payment)
            /\ ~resolveEscrowPaymentTransition(escrow[o], req[h].event, req[h].payment)
  <2>1. Finish(h)
    BY <1>12 DEF FindEscrow
  <2>2. req[h].event = "captured" => Paid(o)
    BY <1>2, <1>12 DEF resolveEscrowPaymentTransition, OrderInv, RowInv, Paid
  <2>3. QED
    BY <1>7, <2>1, <2>2
<1>13. QED
  BY <1>8, <1>9, <1>10, <1>11, <1>12

\* Only the row of o changes.
LEMMA RowStep ==
    ASSUME IInv, NEW h \in Handlers, NEW o \in Orders, Working(h, o), SameEvent(h),
           UNCHANGED <<order, answered, gateway, books, audit, overlapped, faulted>>,
           \A x \in Orders \ {o} : escrow'[x] = escrow[x] /\ (x \in exists' <=> x \in exists),
           o \in exists => o \in exists', ~Paid(o), ~Booking(h),
           RowInv(o)',
           Paid(o)' => On(h, o)' /\ Booking(h)' /\ At(h, "record")',
           On(h, o)' => StepKnows(h)',
           o \notin overlapped => (On(h, o)' => Fresh(h)')
    PROVE  \A x \in Orders : OrderInv(x)'
<1>1. coupon' = coupon /\ txn' = txn /\ ledger' = ledger /\ booked' = booked
  BY DEF books
<1>2. Elsewhere(o)
  BY <1>1 DEF Elsewhere
<1>3. PaymentInv(o)' /\ (o \notin overlapped => ProcessedInv(o)')
  BY LogKept
<1>4. BookedInv(o)' /\ FollowInv(o)'
  BY DEF BookedInv, FollowInv
<1>5. QED
  BY <1>1, <1>2, <1>3, <1>4, EventStep

\* The escrow is rebuilt, unless it has a row by now.
LEMMA RecoverKeeps ==
    ASSUME IInv, NEW h \in Handlers, NEW o \in Orders, req[h].order = o, Recover(h)
    PROVE  \A x \in Orders : OrderInv(x)'
<1>1. req[h].step = "recover" /\ UNCHANGED <<intake, gateway, books, audit, history>>
  BY DEF Recover, At
<1>2. /\ TypeOK /\ Working(h, o) /\ On(h, o) /\ Knows(h) /\ OrderInv(o)
      /\ req[h].payment \in Payments /\ req[h].event \in PaymentEvents
      /\ gateway[req[h].payment].order = o /\ gateway[req[h].payment].state # "none"
      /\ o \notin overlapped => Fresh(h)
  BY <1>1, EventFacts DEF EventSteps
<1>3. UNCHANGED <<order, answered, gateway, books, audit, overlapped, faulted>>
  BY <1>1 DEF intake, history
<1>4. ~Booking(h)
  BY <1>1 DEF Booking
<1>5. CASE o \in exists
  <2>1. Finish(h) /\ UNCHANGED <<escrow, exists>>
    BY <1>5 DEF Recover
  <2>2. Left(h) \/ (req[h].webhook /\ Moved(h, "mark"))
    BY <1>2, <2>1, Finishes
  <2>3. o \in overlapped
    BY <1>1, <1>2, <1>5 DEF Fresh
  <2>4. QED
    BY <1>2, <1>3, <1>4, <2>1, <2>2, <2>3, EventEnds
<1>6. CASE o \notin exists
  <2> DEFINE row == [status |-> "pending", paymentStatus |-> "none", paymentId |-> NoPayment]
  <2>1. InsertRow(o, row) /\ req' = [req EXCEPT ![h].step = "apply", ![h].seen = row]
    BY <1>6 DEF Recover
  <2>2. row \in EscrowRows /\ row.status = "pending" /\ row.paymentStatus = "none"
    BY DEF EscrowRows, EscrowStatuses, PaymentStatuses
  <2> HIDE DEF row
  <2>3. Moved(h, "apply") /\ req'[h].seen = row
    BY <1>2, <2>1, <2>2, Sees
  <2>4. SameEvent(h)
    BY <2>3 DEF SameEvent, EventSteps
  <2>5. escrow \in [Orders -> EscrowRows]
    BY <1>2 DEF TypeOK
  <2>6. /\ escrow'[o] = row /\ o \in exists'
        /\ \A x \in Orders \ {o} : escrow'[x] = escrow[x] /\ (x \in exists' <=> x \in exists)
    BY <2>1, <2>5 DEF InsertRow
  <2>7. ~Paid(o) /\ ~Paid(o)'
    BY <1>6, <2>2, <2>6 DEF Paid
  <2>8. ledger' = ledger /\ coupon' = coupon
    BY <1>3 DEF books
  <2>9. order[o].kind # "none"
    BY <1>2 DEF OrderInv, RowInv, PaymentInv
  <2>10. RowInv(o)'
    BY <1>2, <1>3, <2>2, <2>6, <2>7, <2>8, <2>9 DEF OrderInv, RowInv
  <2>11. /\ req'[h].step = "apply" /\ req'[h].event = req[h].event /\ req'[h].order = o
         /\ req'[h].payment = req[h].payment /\ req'[h].seen = row
    BY <2>3 DEF Moved
  <2>12. resolveEscrowPaymentTransition(row, req[h].event, req[h].payment)
    BY <2>2 DEF resolveEscrowPaymentTransition, Settled, FailureAlreadyRecorded
  <2>13. StepKnows(h)' /\ Fresh(h)' /\ ~Booking(h)'
    BY <2>6, <2>11, <2>12 DEF StepKnows, Fresh, Booking
  <2>14. QED
    BY <1>2, <1>3, <1>4, <2>4, <2>6, <2>7, <2>10, <2>13, RowStep
<1>7. QED
  BY <1>5, <1>6

\* The row an event saw is not paid, when the event may still change it.
LEMMA SeenUnpaid ==
    ASSUME NEW o \in Orders, RowInv(o), NEW seen, NEW event, NEW p,
           resolveEscrowPaymentTransition(seen, event, p), SameState(escrow[o], seen)
    PROVE  ~Paid(o)
BY DEF RowInv, Paid, SameState, resolveEscrowPaymentTransition, Settled

\* The conditional write: who wins it goes on to book, who loses it was overlapped.
LEMMA ApplyEventKeeps ==
    ASSUME IInv, NEW h \in Handlers, NEW o \in Orders, req[h].order = o, ApplyEvent(h)
    PROVE  \A x \in Orders : OrderInv(x)'
<1>1. req[h].step = "apply" /\ UNCHANGED <<intake, gateway, exists, books, audit, history>>
  BY DEF ApplyEvent, At
<1>2. /\ TypeOK /\ Working(h, o) /\ On(h, o) /\ Knows(h) /\ OrderInv(o) /\ req[h] \in Requests
      /\ req[h].payment \in Payments /\ req[h].event \in PaymentEvents
      /\ gateway[req[h].payment].order = o /\ gateway[req[h].payment].state # "none"
      /\ o \notin overlapped => Fresh(h)
  BY <1>1, EventFacts DEF EventSteps
<1>3. UNCHANGED <<order, answered, gateway, exists, books, audit, overlapped, faulted>>
  BY <1>1 DEF intake, history
<1>4. ~Booking(h)
  BY <1>1 DEF Booking
<1>5. o \in exists /\ resolveEscrowPaymentTransition(req[h].seen, req[h].event, req[h].payment)
  BY <1>1, <1>2 DEF Knows, StepKnows
<1>6. CASE ~Wins(o, req[h].seen)
  <2>1. Finish(h) /\ escrow' = escrow
    BY <1>6 DEF ApplyEvent
  <2>2. Left(h) \/ (req[h].webhook /\ Moved(h, "mark"))
    BY <1>2, <2>1, Finishes
  <2>3. o \in overlapped
    BY <1>1, <1>2, <1>6 DEF Fresh, Wins, SameState
  <2>4. QED
    BY <1>2, <1>3, <1>4, <2>1, <2>2, <2>3, EventEnds
<1>7. CASE Wins(o, req[h].seen)
  <2>1. ~Paid(o)
    BY <1>2, <1>5, <1>7, SeenUnpaid DEF OrderInv, Wins
  <2>2. PICK step \in {"release", "record"} :
           /\ GoTo(h, step)
           /\ step = "release" => req[h].event = "failed"
           /\ req[h].event = "captured" => step = "record"
    BY <1>7 DEF ApplyEvent
  <2>3. Moved(h, step)
    BY <1>2, <2>2, Moves DEF Steps, EventSteps
  <2>4. SameEvent(h)
    BY <2>3 DEF SameEvent, EventSteps
  <2>5. escrow \in [Orders -> EscrowRows] /\ ledger \in [Orders -> Nat]
    BY <1>2 DEF TypeOK
  <2>6. escrow' = [escrow EXCEPT ![o] = PaymentUpdate(escrow[o], req[h].event, req[h].payment)]
    BY <1>7, <2>5 DEF ApplyEvent
  <2>7. /\ escrow'[o].paymentId = req[h].payment
        /\ escrow'[o].paymentStatus = req[h].event
        /\ escrow'[o].status = CASE req[h].event = "captured" -> "held"
                                 [] req[h].event = "failed" -> "cancelled"
                                 [] OTHER -> escrow[o].status
        /\ \A x \in Orders \ {o} : escrow'[x] = escrow[x]
    BY <2>5, <2>6 DEF PaymentUpdate, EscrowRows
  <2>8. Paid(o)' <=> req[h].event = "captured"
    BY <1>3, <1>5, <2>7 DEF Paid
  <2>9. ledger' = ledger /\ coupon' = coupon
    BY <1>3 DEF books
  <2>10. ledger[o] = 0
    BY <1>2, <2>1, <2>5 DEF OrderInv, RowInv
  <2>11. escrow'[o].paymentStatus = "captured" <=> escrow'[o].status = "held"
    BY <1>2, <1>5, <2>1, <2>7 DEF OrderInv, RowInv, Paid, PaymentEvents
  <2>12. escrow'[o].status \notin {"released", "refunded"}
    BY <1>2, <2>7 DEF OrderInv, RowInv, PaymentEvents
  <2>13. RowInv(o)'
    BY <1>2, <1>3, <2>1, <2>7, <2>9, <2>10, <2>11, <2>12 DEF OrderInv, RowInv
  <2>14. /\ req'[h].step = step /\ req'[h].event = req[h].event /\ req'[h].order = o
         /\ req'[h].payment = req[h].payment
    BY <2>3 DEF Moved
  <2>15. StepKnows(h)'
    BY <2>2, <2>7, <2>8, <2>9, <2>10, <2>14 DEF StepKnows, Booking
  <2>16. Fresh(h)'
    BY <2>2, <2>8, <2>14 DEF Fresh
  <2>17. Paid(o)' => On(h, o)' /\ Booking(h)' /\ At(h, "record")'
    BY <2>2, <2>8, <2>14 DEF On, Booking, At
  <2>18. QED
    BY <1>2, <1>3, <1>4, <2>1, <2>4, <2>7, <2>13, <2>15, <2>16, <2>17, RowStep
<1>8. QED
  BY <1>6, <1>7

\* A step that writes a book of o: the coupon, the Transaction row, the ledger
\* or the call to task-service.
LEMMA BookStep ==
    ASSUME IInv, NEW h \in Handlers, NEW o \in Orders, Working(h, o), SameEvent(h),
           UNCHANGED <<order, answered, gateway, escrow, exists, audit, overlapped, faulted>>,
           \A x \in Orders \ {o} : coupon'[x] = coupon[x] /\ ledger'[x] = ledger[x]
                                   /\ (x \in booked' <=> x \in booked),
           \A p \in Payments : gateway[p].order # o => txn'[p] = txn[p],
           Booking(h) \/ ledger'[o] = ledger[o],
           On(h, o)' /\ Booking(h)' => Booking(h),
           RowInv(o)', BookedInv(o)', o \notin overlapped => FollowInv(o)',
           On(h, o)' => StepKnows(h)',
           o \notin overlapped => (On(h, o)' => Fresh(h)')
    PROVE  \A x \in Orders : OrderInv(x)'
<1>1. Elsewhere(o)
  BY DEF Elsewhere
<1>2. Paid(o)' <=> Paid(o)
  BY DEF Paid
<1>3. PaymentInv(o)' /\ (o \notin overlapped => ProcessedInv(o)')
  BY <1>2, LogKept
<1>4. QED
  BY <1>1, <1>3, EventStep

\* Other requests for o stay where they are, in what FollowInv and BookedInv ask of them.
LEMMA OthersStay ==
    ASSUME NEW h \in Handlers, NEW o \in Orders, Only(h)
    PROVE  \A g \in Handlers \ {h} : /\ On(g, o)' <=> On(g, o)
                                     /\ Booking(g)' <=> Booking(g)
                                     /\ At(g, "record")' <=> At(g, "record")
                                     /\ At(g, "confirm")' <=> At(g, "confirm")
BY DEF Only, On, Booking, At

\* The coupon of a failed attempt is given back.
LEMMA ReleaseCouponKeeps ==
    ASSUME IInv, NEW h \in Handlers, NEW o \in Orders, req[h].order = o, ReleaseCoupon(h)
    PROVE  \A x \in Orders : OrderInv(x)'
<1>1. /\ req[h].step = "release" /\ CancelCoupon(o, TRUE) /\ GoTo(h, "record")
      /\ UNCHANGED <<intake, gateway, escrow, exists, txn, ledger, booked, audit, history>>
  BY DEF ReleaseCoupon, At
<1>2. /\ TypeOK /\ Working(h, o) /\ On(h, o) /\ Knows(h) /\ OrderInv(o)
      /\ o \notin overlapped => Fresh(h)
  BY <1>1, EventFacts DEF EventSteps
<1>3. UNCHANGED <<order, answered, gateway, escrow, exists, txn, ledger, booked, audit, overlapped, faulted>>
  BY <1>1 DEF intake, history
<1>4. req[h].event = "failed"
  BY <1>1, <1>2 DEF Knows, StepKnows
<1>5. Moved(h, "record")
  BY <1>1, <1>2, Moves DEF Steps, EventSteps
<1>6. SameEvent(h) /\ Only(h)
  BY <1>5 DEF SameEvent, EventSteps, Moved
<1>7. req'[h].step = "record" /\ req'[h].event = "failed" /\ req'[h].order = o
  BY <1>4, <1>5 DEF Moved
<1>8. ~Booking(h) /\ ~Booking(h)'
  BY <1>4, <1>7 DEF Booking
<1>9. Paid(o)' <=> Paid(o)
  BY <1>3 DEF Paid
<1>10. coupon'[o] = "cancelled" /\ \A x \in Orders \ {o} : coupon'[x] = coupon[x]
  BY <1>1, <1>2 DEF CancelCoupon, TypeOK
<1>11. RowInv(o)'
  BY <1>2, <1>3, <1>9, <1>10 DEF OrderInv, RowInv
<1>12. StepKnows(h)'
  BY <1>7, <1>8 DEF StepKnows
<1>13. o \notin overlapped => Fresh(h)'
  BY <1>1, <1>2, <1>7, <1>9 DEF Fresh
<1>14. BookedInv(o)'
  BY <1>2, <1>3, <1>6, <1>8, <1>9, OthersStay DEF OrderInv, BookedInv
<1>15. o \notin overlapped => FollowInv(o)'
  BY <1>1, <1>2, <1>9 DEF Fresh, FollowInv
<1>16. QED
  BY <1>2, <1>3, <1>6, <1>8, <1>10, <1>11, <1>12, <1>13, <1>14, <1>15, BookStep

\* The Transaction row of the payment; a capture goes on to its coupon or the ledger.
LEMMA RecordTransactionKeeps ==
    ASSUME IInv, NEW h \in Handlers, NEW o \in Orders, req[h].order = o, RecordTransaction(h)
    PROVE  \A x \in Orders : OrderInv(x)'
<1>1. /\ req[h].step = "record" /\ txn' = [txn EXCEPT ![req[h].payment] = req[h].event]
      /\ UNCHANGED <<intake, gateway, escrow, exists, coupon, ledger, booked, audit, history>>
  BY DEF RecordTransaction, At
<1>2. /\ TypeOK /\ Working(h, o) /\ On(h, o) /\ Knows(h) /\ OrderInv(o)
      /\ req[h].payment \in Payments /\ gateway[req[h].payment].order = o
      /\ o \notin overlapped => Fresh(h)
  BY <1>1, EventFacts DEF EventSteps
<1>3. UNCHANGED <<order, answered, gateway, escrow, exists, coupon, ledger, booked, audit, overlapped, faulted>>
  BY <1>1 DEF intake, history
<1>4. Paid(o)' <=> Paid(o)
  BY <1>3 DEF Paid
<1>5. RowInv(o)'
  BY <1>2, <1>3, <1>4 DEF OrderInv, RowInv
<1>6. /\ \A p \in Payments : gateway[p].order # o => txn'[p] = txn[p]
      /\ txn'[req[h].payment] = req[h].event
  BY <1>1, <1>2 DEF TypeOK
<1>7. CASE req[h].event = "captured"
  <2>1. Booking(h) /\ Paid(o) /\ escrow[o].paymentId = req[h].payment /\ ledger[o] = 0
    BY <1>1, <1>2, <1>7 DEF Booking, Knows, StepKnows
  <2>2. PICK step \in {"confirm", "book"} : GoTo(h, step) /\ (order[o].coupon => step = "confirm")
    BY <1>7 DEF RecordTransaction
  <2>3. Moved(h, step)
    BY <1>2, <2>2, Moves DEF Steps, EventSteps
  <2>4. SameEvent(h) /\ Only(h)
    BY <2>3 DEF SameEvent, EventSteps, Moved
  <2>5. /\ req'[h].step = step /\ req'[h].event = "captured" /\ req'[h].order = o
        /\ req'[h].payment = req[h].payment
    BY <1>7, <2>3 DEF Moved
  <2>6. On(h, o)' /\ Booking(h)' /\ (step = "confirm" => At(h, "confirm")')
    BY <2>2, <2>5 DEF On, Booking, At
  <2>7. StepKnows(h)'
    BY <1>3, <1>4, <2>1, <2>2, <2>5 DEF StepKnows, Booking
  <2>8. Fresh(h)'
    BY <2>2, <2>5 DEF Fresh
  <2>9. BookedInv(o)'
    BY <2>6 DEF BookedInv
  <2>10. FollowInv(o)'
    BY <1>3, <1>6, <1>7, <2>1, <2>2, <2>6 DEF FollowInv
  <2>11. QED
    BY <1>2, <1>3, <1>5, <1>6, <2>1, <2>4, <2>7, <2>8, <2>9, <2>10, BookStep
<1>8. CASE req[h].event # "captured"
  <2>1. ~Booking(h)
    BY <1>8 DEF Booking
  <2>2. Finish(h)
    BY <1>8 DEF RecordTransaction
  <2>3. Left(h) \/ (req[h].webhook /\ Moved(h, "mark"))
    BY <1>2, <2>2, Finishes
  <2>4. SameEvent(h) /\ Only(h)
    BY <2>3 DEF SameEvent, Left, Moved, EventSteps
  <2>5. On(h, o)' => req'[h].step = "mark" /\ req'[h].event # "captured"
    BY <1>8, <2>3, IdleSlot DEF Left, Moved, On
  <2>6. On(h, o)' => StepKnows(h)' /\ Fresh(h)' /\ ~Booking(h)'
    BY <2>5 DEF StepKnows, Fresh, Booking
  <2>7. BookedInv(o)'
    BY <1>2, <1>3, <1>4, <2>1, <2>4, OthersStay DEF OrderInv, BookedInv
  <2>8. o \notin overlapped => FollowInv(o)'
    BY <1>1, <1>2, <1>4, <1>8 DEF Fresh, FollowInv
  <2>9. QED
    BY <1>2, <1>3, <1>5, <1>6, <2>4, <2>6, <2>7, <2>8, BookStep
<1>9. QED
  BY <1>7, <1>8

\* The coupon of a capture is used.
LEMMA ConfirmCouponKeeps ==
    ASSUME IInv, NEW h \in Handlers, NEW o \in Orders, req[h].order = o, ConfirmCoupon(h)
    PROVE  \A x \in Orders : OrderInv(x)'
<1>1. /\ req[h].step = "confirm" /\ coupon' = [coupon EXCEPT ![o] = "confirmed"] /\ GoTo(h, "book")
      /\ UNCHANGED <<intake, gateway, escrow, exists, txn, ledger, booked, audit, history>>
  BY DEF ConfirmCoupon, At
<1>2. /\ TypeOK /\ Working(h, o) /\ On(h, o) /\ Knows(h) /\ OrderInv(o)
  BY <1>1, EventFacts DEF EventSteps
<1>3. UNCHANGED <<order, answered, gateway, escrow, exists, txn, ledger, booked, audit, overlapped, faulted>>
  BY <1>1 DEF intake, history
<1>4. req[h].event = "captured"
  BY <1>1, <1>2 DEF Knows, StepKnows
<1>5. Booking(h) /\ Paid(o) /\ escrow[o].paymentId = req[h].payment /\ ledger[o] = 0
  BY <1>1, <1>2, <1>4 DEF Booking, Knows, StepKnows
<1>6. Moved(h, "book")
  BY <1>1, <1>2, Moves DEF Steps, EventSteps
<1>7. SameEvent(h) /\ Only(h)
  BY <1>6 DEF SameEvent, EventSteps, Moved
<1>8. /\ req'[h].step = "book" /\ req'[h].event = "captured" /\ req'[h].order = o
      /\ req'[h].payment = req[h].payment
  BY <1>4, <1>6 DEF Moved
<1>9. Paid(o)' <=> Paid(o)
  BY <1>3 DEF Paid
<1>10. coupon'[o] = "confirmed" /\ \A x \in Orders \ {o} : coupon'[x] = coupon[x]
  BY <1>1, <1>2 DEF TypeOK
<1>11. RowInv(o)'
  BY <1>2, <1>3, <1>5, <1>9, <1>10 DEF OrderInv, RowInv
<1>12. On(h, o)' /\ Booking(h)'
  BY <1>8 DEF On, Booking
<1>13. StepKnows(h)'
  BY <1>3, <1>5, <1>8, <1>9 DEF StepKnows, Booking
<1>14. Fresh(h)'
  BY <1>8 DEF Fresh
<1>15. BookedInv(o)'
  BY <1>12 DEF BookedInv
<1>16. ASSUME o \notin overlapped PROVE FollowInv(o)'
  <2>1. FollowInv(o) /\ \A g \in Handlers : Working(g, o) => g = h
    BY <1>2, <1>16 DEF OrderInv, AloneInv
  <2>2. \A g \in Handlers : On(g, o) /\ At(g, "record") => FALSE
    BY <1>1, <2>1 DEF On, At, Working, EventSteps
  <2>3. QED
    BY <1>3, <1>9, <1>10, <2>1, <2>2 DEF FollowInv
<1>17. QED
  BY <1>2, <1>3, <1>5, <1>7, <1>10, <1>11, <1>13, <1>14, <1>15, <1>16, BookStep

\* The capture enters the ledger, where it was not before.
LEMMA BookCaptureKeeps ==
    ASSUME IInv, NEW h \in Handlers, NEW o \in Orders, req[h].order = o, BookCapture(h)
    PROVE  \A x \in Orders : OrderInv(x)'
<1>1. /\ req[h].step = "book" /\ ledger' = [ledger EXCEPT ![o] = @ + 1] /\ GoTo(h, "notify")
      /\ UNCHANGED <<intake, gateway, escrow, exists, coupon, txn, booked, audit, history>>
  BY DEF BookCapture, At
<1>2. /\ TypeOK /\ Working(h, o) /\ On(h, o) /\ Knows(h) /\ OrderInv(o)
  BY <1>1, EventFacts DEF EventSteps
<1>3. UNCHANGED <<order, answered, gateway, escrow, exists, coupon, txn, booked, audit, overlapped, faulted>>
  BY <1>1 DEF intake, history
<1>4. req[h].event = "captured"
  BY <1>1, <1>2 DEF Knows, StepKnows
<1>5. Booking(h) /\ Paid(o) /\ escrow[o].paymentId = req[h].payment /\ ledger[o] = 0
  BY <1>1, <1>2, <1>4 DEF Booking, Knows, StepKnows
<1>6. Moved(h, "notify")
  BY <1>1, <1>2, Moves DEF Steps, EventSteps
<1>7. SameEvent(h) /\ Only(h)
  BY <1>6 DEF SameEvent, EventSteps, Moved
<1>8. /\ req'[h].step = "notify" /\ req'[h].event = "captured" /\ req'[h].order = o
      /\ req'[h].payment = req[h].payment
  BY <1>4, <1>6 DEF Moved
<1>9. Paid(o)' <=> Paid(o)
  BY <1>3 DEF Paid
<1>10. ledger'[o] = 1 /\ \A x \in Orders \ {o} : ledger'[x] = ledger[x]
  BY <1>1, <1>2, <1>5 DEF TypeOK
<1>11. RowInv(o)'
  BY <1>2, <1>3, <1>5, <1>9, <1>10 DEF OrderInv, RowInv
<1>12. On(h, o)' /\ Booking(h)'
  BY <1>8 DEF On, Booking
<1>13. StepKnows(h)'
  BY <1>3, <1>5, <1>8, <1>9, <1>10 DEF StepKnows, Booking
<1>14. Fresh(h)'
  BY <1>8 DEF Fresh
<1>15. BookedInv(o)'
  BY <1>12 DEF BookedInv
<1>16. ASSUME o \notin overlapped PROVE FollowInv(o)'
  <2>1. FollowInv(o) /\ \A g \in Handlers : Working(g, o) => g = h
    BY <1>2, <1>16 DEF OrderInv, AloneInv
  <2>2. \A g \in Handlers : On(g, o) /\ (At(g, "record") \/ At(g, "confirm")) => FALSE
    BY <1>1, <2>1 DEF On, At, Working, EventSteps
  <2>3. QED
    BY <1>3, <1>9, <2>1, <2>2 DEF FollowInv
<1>17. QED
  BY <1>2, <1>3, <1>5, <1>7, <1>10, <1>11, <1>13, <1>14, <1>15, <1>16, BookStep

\* task-service is told.
LEMMA NotifyBookingKeeps ==
    ASSUME IInv, NEW h \in Handlers, NEW o \in Orders, req[h].order = o, NotifyBooking(h)
    PROVE  \A x \in Orders : OrderInv(x)'
<1>1. /\ req[h].step = "notify" /\ booked' = booked \cup {o} /\ Finish(h)
      /\ UNCHANGED <<intake, gateway, escrow, exists, coupon, txn, ledger, audit, history>>
  BY DEF NotifyBooking, At
<1>2. /\ TypeOK /\ Working(h, o) /\ On(h, o) /\ Knows(h) /\ OrderInv(o)
  BY <1>1, EventFacts DEF EventSteps
<1>3. UNCHANGED <<order, answered, gateway, escrow, exists, coupon, txn, ledger, audit, overlapped, faulted>>
  BY <1>1 DEF intake, history
<1>4. req[h].event = "captured"
  BY <1>1, <1>2 DEF Knows, StepKnows
<1>5. Booking(h) /\ Paid(o) /\ (ledger[o] = 1 \/ o \in faulted)
  BY <1>1, <1>2, <1>4 DEF Booking, Knows, StepKnows
<1>6. Left(h) \/ (req[h].webhook /\ Moved(h, "mark"))
  BY <1>1, <1>2, Finishes
<1>7. SameEvent(h) /\ Only(h)
  BY <1>6 DEF SameEvent, Left, Moved, EventSteps
<1>8. On(h, o)' => req'[h].step = "mark" /\ req'[h].order = o
  BY <1>2, <1>6, IdleSlot DEF Left, Moved, On
<1>9. Paid(o)' <=> Paid(o)
  BY <1>3 DEF Paid
<1>10. On(h, o)' => StepKnows(h)' /\ Fresh(h)' /\ ~Booking(h)'
  BY <1>5, <1>8, <1>9 DEF StepKnows, Fresh, Booking
<1>11. RowInv(o)'
  BY <1>2, <1>3, <1>9 DEF OrderInv, RowInv
<1>12. BookedInv(o)'
  BY <1>1, <1>3, <1>5 DEF BookedInv
<1>13. ASSUME o \notin overlapped PROVE FollowInv(o)'
  <2>1. FollowInv(o) /\ \A g \in Handlers : Working(g, o) => g = h
    BY <1>2, <1>13 DEF OrderInv, AloneInv
  <2>2. \A g \in Handlers : On(g, o) /\ (At(g, "record") \/ At(g, "confirm")) => FALSE
    BY <1>1, <2>1 DEF On, At, Working, EventSteps
  <2>3. QED
    BY <1>3, <1>9, <2>1, <2>2 DEF FollowInv
<1>14. \A x \in Orders \ {o} : x \in booked' <=> x \in booked
  BY <1>1
<1>15. QED
  BY <1>2, <1>3, <1>5, <1>7, <1>10, <1>11, <1>12, <1>13, <1>14, BookStep

\* The same capture again settles the coupon again.
LEMMA ReconfirmKeeps ==
    ASSUME IInv, NEW h \in Handlers, NEW o \in Orders, req[h].order = o, Reconfirm(h)
    PROVE  \A x \in Orders : OrderInv(x)'
<1>1. /\ req[h].step = "reconfirm" /\ Finish(h)
      /\ coupon' = IF order[o].coupon THEN [coupon EXCEPT ![o] = "confirmed"] ELSE coupon
      /\ UNCHANGED <<intake, gateway, escrow, exists, txn, ledger, booked, audit, history>>
  BY DEF Reconfirm, At
<1>2. /\ TypeOK /\ Working(h, o) /\ On(h, o) /\ Knows(h) /\ OrderInv(o)
  BY <1>1, EventFacts DEF EventSteps
<1>3. UNCHANGED <<order, answered, gateway, escrow, exists, txn, ledger, booked, audit, overlapped, faulted>>
  BY <1>1 DEF intake, history
<1>4. Paid(o) /\ ~Booking(h)
  BY <1>1, <1>2 DEF Booking, Knows, StepKnows
<1>5. Left(h) \/ (req[h].webhook /\ Moved(h, "mark"))
  BY <1>1, <1>2, Finishes
<1>6. SameEvent(h) /\ Only(h)
  BY <1>5 DEF SameEvent, Left, Moved, EventSteps
<1>7. On(h, o)' => req'[h].step = "mark" /\ req'[h].order = o
  BY <1>2, <1>5, IdleSlot DEF Left, Moved, On
<1>8. Paid(o)' <=> Paid(o)
  BY <1>3 DEF Paid
<1>9. On(h, o)' => StepKnows(h)' /\ Fresh(h)' /\ ~Booking(h)'
  BY <1>4, <1>7, <1>8 DEF StepKnows, Fresh, Booking
<1>10. /\ coupon'[o] = coupon[o] \/ coupon'[o] = "confirmed"
       /\ \A x \in Orders \ {o} : coupon'[x] = coupon[x]
  BY <1>1, <1>2 DEF TypeOK
<1>11. RowInv(o)'
  BY <1>2, <1>3, <1>4, <1>8, <1>10 DEF OrderInv, RowInv
<1>12. BookedInv(o)'
  BY <1>2, <1>3, <1>4, <1>6, <1>8, OthersStay DEF OrderInv, BookedInv
<1>13. ASSUME o \notin overlapped PROVE FollowInv(o)'
  <2>1. FollowInv(o) /\ \A g \in Handlers : Working(g, o) => g = h
    BY <1>2, <1>13 DEF OrderInv, AloneInv
  <2>2. \A g \in Handlers : On(g, o) /\ (At(g, "record") \/ At(g, "confirm")) => FALSE
    BY <1>1, <2>1 DEF On, At, Working, EventSteps
  <2>3. QED
    BY <1>3, <1>8, <1>10, <2>1, <2>2 DEF FollowInv
<1>14. QED
  BY <1>2, <1>3, <1>6, <1>9, <1>10, <1>11, <1>12, <1>13, BookStep

\* A fault in the handling of an event ends it, or skips a call.
LEMMA EventFaultKeeps ==
    ASSUME IInv, NEW h \in Handlers, NEW o \in Orders, req[h].order = o,
           req[h].step \in EventSteps, Crash(h) \/ DbError(h) \/ LostCall(h)
    PROVE  \A x \in Orders : OrderInv(x)'
<1>1. /\ TypeOK /\ Working(h, o) /\ On(h, o) /\ Knows(h) /\ OrderInv(o)
      /\ req[h] \in Requests
      /\ o \notin overlapped => Fresh(h)
  BY EventFacts
<1>2. faulted' = faulted \cup {o}
  BY DEF Crash, DbError, LostCall, Fault
<1>3. UNCHANGED <<order, answered, gateway, escrow, exists, books, audit, overlapped>>
  BY DEF Crash, DbError, LostCall, intake
<1>4. CASE Finish(h) \/ Return(h)
  <2>1. Left(h) \/ (req[h].webhook /\ Moved(h, "mark"))
    BY <1>1, <1>4, Finishes, Leaves
  <2>2. QED
    BY <1>1, <1>2, <1>3, <2>1, EventEnds
<1>5. ASSUME NEW step \in {"record", "book", "notify"}, GoTo(h, step),
             step = "record" => req[h].step = "release", step = "book" => req[h].step = "confirm",
             step = "notify" => req[h].step = "book"
      PROVE  \A x \in Orders : OrderInv(x)'
  <2>1. Moved(h, step)
    BY <1>1, <1>5, Moves DEF Steps, EventSteps
  <2>2. SameEvent(h)
    BY <2>1 DEF SameEvent, EventSteps
  <2>3. /\ req'[h].step = step /\ req'[h].event = req[h].event /\ req'[h].order = o
        /\ req'[h].payment = req[h].payment
    BY <2>1 DEF Moved
  <2>4. Paid(o)' <=> Paid(o)
    BY <1>3 DEF Paid
  <2>5. PaymentInv(o)' /\ (o \notin overlapped => ProcessedInv(o)')
    BY <1>2, <1>3, <2>4, LogKept
  <2>6. ledger' = ledger
    BY <1>3 DEF books
  <2>7. /\ step = "record" => req[h].event = "failed"
        /\ step \in {"book", "notify"} => req[h].event = "captured"
    BY <1>1, <1>5 DEF Knows, StepKnows
  <2>8. step \in {"book", "notify"} => Paid(o) /\ escrow[o].paymentId = req[h].payment /\ ledger[o] = 0
    BY <1>1, <1>5, <2>7 DEF Knows, StepKnows, Booking
  <2>9. Booking(h)' => Booking(h)
    BY <1>5, <2>3, <2>7 DEF Booking
  <2>10. StepKnows(h)'
    BY <1>2, <1>3, <1>5, <2>3, <2>4, <2>6, <2>7, <2>8 DEF StepKnows, Booking
  <2>11. o \notin overlapped => Fresh(h)'
    BY <1>1, <1>5, <2>3, <2>4, <2>7 DEF Fresh
  <2>12. QED
    BY <1>1, <1>2, <1>3, <2>2, <2>5, <2>9, <2>10, <2>11, PassingStep
<1>6. Finish(h) \/ Return(h) \/ (At(h, "release") /\ GoTo(h, "record")) \/ (At(h, "confirm") /\ GoTo(h, "book"))
      \/ (At(h, "book") /\ GoTo(h, "notify"))
  BY DEF Crash, DbError, LostCall
<1>7. QED
  BY <1>4, <1>5, <1>6 DEF At

-----------------------------------------------------------------------------
(* A payment event begins                                                  *)

\* An event is about an answered order, whose maker is done with it.
LEMMA BeginEventKeeps ==
    ASSUME IInv, NEW h \in Handlers, NEW o \in Orders, NEW p \in Payments, NEW event \in PaymentEvents,
           NEW webhook \in BOOLEAN, gateway[p].order = o, webhook => event \in Subscribed,
           BeginEvent(h, event, p, webhook)
    PROVE  /\ \A x \in Orders : OrderInv(x)'
           /\ Only(h) /\ req'[h].wants = NoOrder
<1>1. TypeOK /\ OrderInv(o)
  BY DEF IInv
<1> DEFINE step == IF webhook THEN "receive" ELSE "find"
           r == [Idle EXCEPT !.step = step, !.order = o, !.event = event, !.payment = p, !.webhook = webhook]
<1>2. /\ At(h, "idle") /\ gateway[p].state # "none"
      /\ req' = [req EXCEPT ![h] = r]
      /\ overlapped' = IF \E g \in Handlers : Working(g, o) THEN overlapped \cup {o} ELSE overlapped
      /\ UNCHANGED <<intake, gateway, escrow, exists, books, audit, faulted>>
  BY DEF BeginEvent
<1>3. /\ r \in Requests
      /\ r.step = step /\ r.order = o /\ r.wants = NoOrder /\ r.event = event
      /\ r.payment = p /\ r.webhook = webhook
  BY IdleSlot DEF Requests, Steps, EventSteps
<1>4. step \in {"receive", "find"} /\ (step = "receive" => webhook)
  OBVIOUS
<1> HIDE DEF r, step
<1>5. Only(h) /\ req'[h] = r
  BY <1>1, <1>2, <1>3 DEF TypeOK, Only
<1>6. UNCHANGED <<order, answered, keyRow, coupon, txn, ledger, booked>>
  BY <1>2 DEF intake, books
<1>7. On(h, o)' /\ ~Booking(h)' /\ ~On(h, o) /\ ~Booking(h) /\ ~At(h, "record") /\ ~At(h, "confirm")
  BY <1>2, <1>3, <1>4, <1>5 DEF On, Booking, At
<1>8. Acts(h, o)
  BY <1>2, <1>3, <1>5 DEF Acts
<1>9. Elsewhere(o)
  BY <1>2, <1>6 DEF Elsewhere
<1>10. o \in answered
  BY <1>1, <1>2 DEF OrderInv, PaymentInv
<1>11. ASSUME NEW g \in Handlers \ {h}, On(g, o) PROVE Working(g, o)
  <2>1. req[g].step \notin OwnSteps
    BY <1>1, <1>10, <1>11 DEF OrderInv, Knows, OwnerKnows, On
  <2>2. req[g].step \in Steps
    BY <1>1 DEF TypeOK, Requests
  <2>3. QED
    BY <1>11, <2>1, <2>2 DEF On, Working, Steps, OwnSteps
<1>12. Beside(h, o)
  BY <1>2, <1>3, <1>4, <1>5, <1>6, <1>7, <1>11 DEF Beside, EventSteps
<1>13. Paid(o)' <=> Paid(o)
  BY <1>2 DEF Paid
<1>14. RowInv(o)'
  BY <1>1, <1>2, <1>6, <1>13 DEF OrderInv, RowInv
<1>15. PaymentInv(o)'
  BY <1>1, <1>2, <1>6 DEF OrderInv, PaymentInv
<1>16. Knows(h)'
  <2>1. OwnerKnows(h)'
    BY <1>3, <1>4, <1>5 DEF OwnerKnows, OwnSteps
  <2>2. EventKnows(h)'
    BY <1>2, <1>3, <1>4, <1>5 DEF EventKnows
  <2>3. StepKnows(h)'
    BY <1>3, <1>4, <1>5 DEF StepKnows, Booking
  <2>4. QED
    BY <2>1, <2>2, <2>3 DEF Knows
<1>17. Fresh(h)'
  BY <1>3, <1>4, <1>5 DEF Fresh
<1>18. \A g \in Handlers \ {h} : /\ On(g, o)' <=> On(g, o)
                                 /\ Booking(g)' <=> Booking(g)
                                 /\ At(g, "record")' <=> At(g, "record")
                                 /\ At(g, "confirm")' <=> At(g, "confirm")
  BY <1>5, OthersStay
<1>19. BookedInv(o)'
  BY <1>1, <1>2, <1>6, <1>7, <1>13, <1>18 DEF OrderInv, BookedInv
<1>20. ASSUME o \notin overlapped'
       PROVE  /\ \A g \in Handlers \ {h} : ~Working(g, o)
              /\ FollowInv(o)'
              /\ ProcessedInv(o)'
  <2>1. o \notin overlapped /\ \A g \in Handlers : ~Working(g, o)
    BY <1>2, <1>20
  <2>2. FollowInv(o) /\ ProcessedInv(o)
    BY <1>1, <2>1 DEF OrderInv, AloneInv
  <2>3. FollowInv(o)'
    BY <1>2, <1>6, <1>7, <1>13, <1>18, <2>2 DEF FollowInv
  <2>4. ProcessedInv(o)'
    BY <1>2, <1>6, <1>13, <2>2 DEF ProcessedInv, HasEscrow
  <2>5. QED
    BY <2>1, <2>3, <2>4
<1>21. Keeps(h, o)
  BY <1>14, <1>15, <1>16, <1>17, <1>19, <1>20 DEF Keeps
<1>22. QED
  BY <1>3, <1>5, <1>8, <1>9, <1>12, <1>21, OneOrder

-----------------------------------------------------------------------------
(* Steps of the request that makes an order                                *)

\* Nobody but h is about o.
Alone(h, o) == \A g \in Handlers \ {h} : ~On(g, o)

\* A step on an order that is not answered yet: it has no payments, and it is
\* paid only if it is free.
LEMMA OwnStep ==
    ASSUME IInv, NEW h \in Handlers, NEW o \in Orders, Acts(h, o), Alone(h, o), o \notin answered,
           UNCHANGED <<gateway, txn, ledger, booked, audit>>,
           \A x \in Orders \ {o} :
               /\ order'[x] = order[x] /\ (x \in answered' <=> x \in answered)
               /\ escrow'[x] = escrow[x] /\ (x \in exists' <=> x \in exists)
               /\ coupon'[x] = coupon[x] /\ (x \in faulted' <=> x \in faulted)
               /\ (x \in overlapped => x \in overlapped'),
           o \in exists' \/ o \in answered' => order'[o].kind # "none",
           o \in answered' /\ order'[o].kind = "checkout" => o \in exists',
           escrow'[o].paymentStatus = "captured" <=> escrow'[o].status = "held",
           escrow'[o].status \notin {"released", "refunded"},
           Paid(o) => Paid(o)',
           Paid(o)' => order'[o].free,
           coupon'[o] = "confirmed" => Paid(o)',
           req'[h].step \in OwnSteps \cup {"idle"},
           OwnerKnows(h)'
    PROVE  \A x \in Orders : OrderInv(x)'
<1>1. OrderInv(o)
  BY DEF IInv
<1>2. Elsewhere(o)
  BY DEF Elsewhere
<1>3. Beside(h, o)
  BY DEF Beside, Alone
<1>4. \A p \in Payments : gateway[p].order = o =>
          gateway[p].state = "none" /\ \A event \in Subscribed : audit[<<event, p>>] = "none"
  BY <1>1 DEF OrderInv, PaymentInv
<1>5. RowInv(o)'
  BY <1>1 DEF OrderInv, RowInv
<1>6. PaymentInv(o)'
  BY <1>4 DEF PaymentInv
<1>7. BookedInv(o)'
  BY DEF BookedInv
<1>8. FollowInv(o)'
  BY DEF FollowInv
<1>9. ProcessedInv(o)'
  BY <1>4 DEF ProcessedInv
<1>10. Knows(h)' /\ Fresh(h)'
  <2>1. req'[h].step \notin EventSteps
    BY DEF OwnSteps, EventSteps
  <2>2. EventKnows(h)'
    BY <2>1 DEF EventKnows
  <2>3. StepKnows(h)' /\ Fresh(h)'
    BY <2>1 DEF StepKnows, Booking, Fresh, EventSteps
  <2>4. QED
    BY <2>2, <2>3 DEF Knows
<1>11. \A g \in Handlers \ {h} : ~Working(g, o)
  BY DEF Alone, Working, On, EventSteps
<1>12. Keeps(h, o)
  BY <1>5, <1>6, <1>7, <1>8, <1>9, <1>10, <1>11 DEF Keeps
<1>13. QED
  BY <1>2, <1>3, <1>12, OneOrder

\* What the maker of an order knows of it.
LEMMA OwnFacts ==
    ASSUME IInv, NEW h \in Handlers, NEW o \in Orders, req[h].order = o, req[h].step \in OwnSteps
    PROVE  /\ TypeOK /\ req[h] \in Requests
           /\ OrderInv(o) /\ RowInv(o) /\ OwnerKnows(h)
           /\ Alone(h, o)
           /\ o \notin answered
           /\ req[h].wants.kind # "none"
           /\ req[h].step # "free" => o \notin exists /\ coupon[o] # "confirmed"
<1>1. TypeOK /\ req[h] \in Requests /\ OrderInv(o)
  BY DEF IInv, TypeOK
<1>2. On(h, o) /\ ~Working(h, o)
  BY DEF On, Working, OwnSteps, EventSteps
<1>3. OwnerKnows(h) /\ RowInv(o)
  BY <1>1, <1>2 DEF OrderInv, Knows
<1>4. Alone(h, o)
  BY <1>1, <1>2 DEF OrderInv, ShareInv, Alone
<1>5. /\ o \notin answered /\ req[h].wants.kind # "none"
      /\ req[h].step # "free" => o \notin exists
  BY <1>3 DEF OwnerKnows
<1>6. o \notin exists => coupon[o] # "confirmed"
  BY <1>3 DEF RowInv, Paid
<1>7. QED
  BY <1>1, <1>3, <1>4, <1>5, <1>6

\* The maker goes on to its next step, and the order with it.
LEMMA ReserveCouponKeeps ==
    ASSUME IInv, NEW h \in Handlers, NEW o \in Orders, req[h].order = o, ReserveCoupon(h)
    PROVE  \A x \in Orders : OrderInv(x)'
<1>1. /\ req[h].step = "reserve" /\ coupon' = [coupon EXCEPT ![o] = "reserved"] /\ GoTo(h, "make")
      /\ UNCHANGED <<intake, gateway, escrow, exists, txn, ledger, booked, audit, history>>
  BY DEF ReserveCoupon, At
<1>2. req[h].step \in OwnSteps
  BY <1>1 DEF OwnSteps
<1>3. /\ TypeOK /\ RowInv(o) /\ OwnerKnows(h) /\ Alone(h, o) /\ o \notin answered /\ o \notin exists
      /\ req[h].wants.kind # "none"
  BY <1>1, <1>2, OwnFacts
<1>4. UNCHANGED <<order, answered, gateway, escrow, exists, txn, ledger, booked, audit, overlapped, faulted>>
  BY <1>1 DEF intake, history
<1>5. Moved(h, "make")
  BY <1>1, <1>3, Moves DEF Steps
<1>6. Acts(h, o) /\ req'[h].step = "make" /\ req'[h].order = o /\ req'[h].wants = req[h].wants
  BY <1>5 DEF Moved, Acts
<1>7. coupon'[o] # "confirmed" /\ \A x \in Orders \ {o} : coupon'[x] = coupon[x]
  BY <1>1, <1>3 DEF TypeOK
<1>8. ~Paid(o) /\ ~Paid(o)'
  BY <1>3, <1>4 DEF Paid
<1>9. OwnerKnows(h)'
  BY <1>1, <1>3, <1>4, <1>6 DEF OwnerKnows, OwnSteps
<1>10. QED
  BY <1>3, <1>4, <1>6, <1>7, <1>8, <1>9, OwnStep DEF RowInv, OwnSteps

\* Razorpay makes the order.
LEMMA MakeOrderKeeps ==
    ASSUME IInv, NEW h \in Handlers, NEW o \in Orders, req[h].order = o, MakeOrder(h)
    PROVE  \A x \in Orders : OrderInv(x)'
<1> DEFINE step == IF req[h].wants.kind = "checkout" THEN "insert" ELSE "save"
<1>1. /\ req[h].step = "make" /\ order' = [order EXCEPT ![o] = req[h].wants] /\ GoTo(h, step)
      /\ UNCHANGED <<answered, keyRow, tester, gateway, escrow, exists, books, audit, history>>
  BY DEF MakeOrder, At
<1>2. step \in {"insert", "save"} /\ (step = "save" => req[h].wants.kind # "checkout")
  OBVIOUS
<1> HIDE DEF step
<1>3. req[h].step \in OwnSteps
  BY <1>1 DEF OwnSteps
<1>4. /\ TypeOK /\ RowInv(o) /\ OwnerKnows(h) /\ Alone(h, o) /\ o \notin answered /\ o \notin exists
      /\ req[h].wants.kind # "none" /\ coupon[o] # "confirmed"
  BY <1>1, <1>3, OwnFacts
<1>5. UNCHANGED <<answered, gateway, escrow, exists, coupon, txn, ledger, booked, audit, overlapped, faulted>>
  BY <1>1 DEF books, history
<1>6. Moved(h, step)
  BY <1>1, <1>2, <1>4, Moves DEF Steps
<1>7. Acts(h, o) /\ req'[h].step = step /\ req'[h].order = o /\ req'[h].wants = req[h].wants
  BY <1>6 DEF Moved, Acts
<1>8. order'[o] = req[h].wants /\ \A x \in Orders \ {o} : order'[x] = order[x]
  BY <1>1, <1>4 DEF TypeOK
<1>9. ~Paid(o) /\ ~Paid(o)'
  BY <1>4, <1>5 DEF Paid
<1>10. OwnerKnows(h)'
  BY <1>2, <1>4, <1>5, <1>7, <1>8 DEF OwnerKnows, OwnSteps
<1>11. QED
  BY <1>2, <1>4, <1>5, <1>7, <1>8, <1>9, <1>10, OwnStep DEF RowInv, OwnSteps

\* The row of the order: pending, or held at once if the order is free.
LEMMA InsertEscrowKeeps ==
    ASSUME IInv, NEW h \in Handlers, NEW o \in Orders, req[h].order = o, InsertEscrow(h)
    PROVE  \A x \in Orders : OrderInv(x)'
<1> DEFINE free == req[h].wants.free
           row == [status |-> IF free THEN "held" ELSE "pending",
                   paymentStatus |-> IF free THEN "captured" ELSE "pending", paymentId |-> NoPayment]
<1>1. /\ req[h].step = "insert"
      /\ escrow' = [escrow EXCEPT ![o] = row] /\ exists' = exists \cup {o}
      /\ IF free /\ req[h].wants.coupon
         THEN GoTo(h, "free") /\ UNCHANGED answered
         ELSE answered' = answered \cup {o} /\ Return(h)
      /\ UNCHANGED <<order, keyRow, tester, gateway, books, audit, history>>
  BY DEF InsertEscrow, InsertRow, At
<1>2. /\ (row.status = "held" <=> free) /\ (row.paymentStatus = "captured" <=> free)
      /\ row.status \notin {"released", "refunded"}
  OBVIOUS
<1> HIDE DEF row
<1>3. req[h].step \in OwnSteps
  BY <1>1 DEF OwnSteps
<1>4. /\ TypeOK /\ RowInv(o) /\ OwnerKnows(h) /\ Alone(h, o) /\ o \notin answered /\ o \notin exists
      /\ req[h].wants.kind # "none" /\ coupon[o] # "confirmed"
  BY <1>1, <1>3, OwnFacts
<1>5. UNCHANGED <<order, gateway, coupon, txn, ledger, booked, audit, overlapped, faulted>>
  BY <1>1 DEF books, history
<1>6. order[o] = req[h].wants
  BY <1>1, <1>4 DEF OwnerKnows, OwnSteps
<1>7. escrow'[o] = row /\ \A x \in Orders \ {o} : escrow'[x] = escrow[x]
  BY <1>1, <1>4 DEF TypeOK
<1>8. ~Paid(o) /\ (Paid(o)' <=> free) /\ (order'[o].free <=> free)
  <2>1. ~Paid(o)
    BY <1>4 DEF Paid
  <2>2. Paid(o)' <=> free
    BY <1>1, <1>2, <1>7 DEF Paid
  <2>3. order'[o].free <=> free
    BY <1>5, <1>6
  <2>4. QED
    BY <2>1, <2>2, <2>3
<1>9. \A x \in Orders \ {o} : (x \in exists' <=> x \in exists) /\ (x \in answered' <=> x \in answered)
  BY <1>1
<1>10. o \in exists'
  BY <1>1
<1>11. CASE GoTo(h, "free") /\ free /\ UNCHANGED answered
  <2>1. Moved(h, "free")
    BY <1>4, <1>11, Moves DEF Steps
  <2>2. Acts(h, o) /\ req'[h].step = "free" /\ req'[h].order = o /\ req'[h].wants = req[h].wants
    BY <2>1 DEF Moved, Acts
  <2>3. OwnerKnows(h)'
    BY <1>4, <1>5, <1>6, <1>8, <1>11, <2>2 DEF OwnerKnows, OwnSteps
  <2>4. QED
    BY <1>2, <1>4, <1>5, <1>6, <1>7, <1>8, <1>9, <1>10, <2>2, <2>3, OwnStep DEF OwnSteps
<1>12. CASE Return(h)
  <2>1. Left(h)
    BY <1>4, <1>12, Leaves
  <2>2. Acts(h, o) /\ req'[h].step = "idle"
    BY <2>1, IdleSlot DEF Left, Acts
  <2>3. OwnerKnows(h)'
    BY <2>2 DEF OwnerKnows, OwnSteps
  <2>4. QED
    BY <1>2, <1>4, <1>5, <1>6, <1>7, <1>8, <1>9, <1>10, <2>2, <2>3, OwnStep
<1>13. QED
  BY <1>1, <1>11, <1>12

\* The maker of an order is done with it, or gives up.
LEMMA OwnEnds ==
    ASSUME IInv, NEW h \in Handlers, NEW o \in Orders, req[h].order = o, req[h].step \in OwnSteps, Left(h),
           UNCHANGED <<order, gateway, escrow, exists, txn, ledger, booked, audit, overlapped>>,
           coupon'[o] = "confirmed" => coupon[o] = "confirmed" \/ Paid(o),
           \A x \in Orders \ {o} : coupon'[x] = coupon[x],
           answered' = answered \/ (answered' = answered \cup {o} /\ req[h].step \in {"free", "save"}),
           faulted' = faulted \/ faulted' = faulted \cup {o}
    PROVE  \A x \in Orders : OrderInv(x)'
<1>1. /\ TypeOK /\ RowInv(o) /\ OwnerKnows(h) /\ Alone(h, o) /\ o \notin answered
      /\ req[h].wants.kind # "none"
  BY OwnFacts
<1>2. Acts(h, o) /\ req'[h].step = "idle"
  BY IdleSlot DEF Left, Acts
<1>3. OwnerKnows(h)'
  BY <1>2 DEF OwnerKnows, OwnSteps
<1>4. Paid(o)' <=> Paid(o)
  BY DEF Paid
<1>5. Paid(o) => order[o].free
  <2>1. Paid(o) => req[h].step = "free"
    BY <1>1 DEF OwnerKnows, Paid
  <2>2. QED
    BY <1>1, <2>1 DEF OwnerKnows, OwnSteps
<1>6. o \in exists \/ o \in answered' => order[o].kind # "none"
  BY <1>1 DEF OwnerKnows, RowInv
<1>7. \A x \in Orders \ {o} : (x \in answered' <=> x \in answered) /\ (x \in faulted' <=> x \in faulted)
  OBVIOUS
<1>8. coupon'[o] = "confirmed" => Paid(o)
  BY <1>1 DEF RowInv
<1>9. o \in answered' /\ order'[o].kind = "checkout" => o \in exists'
  <2>1. CASE req[h].step = "free"
    BY <1>1, <2>1 DEF OwnerKnows, Paid
  <2>2. CASE req[h].step = "save"
    BY <1>1, <2>2 DEF OwnerKnows, OwnSteps
  <2>3. CASE req[h].step \notin {"free", "save"}
    BY <1>1, <2>3
  <2>4. QED
    BY <2>1, <2>2, <2>3
<1>10. QED
  BY <1>1, <1>2, <1>3, <1>4, <1>5, <1>6, <1>7, <1>8, <1>9, OwnStep DEF RowInv

\* The coupon of a free order, and the answer.
LEMMA ConfirmFreeKeeps ==
    ASSUME IInv, NEW h \in Handlers, NEW o \in Orders, req[h].order = o, ConfirmFree(h)
    PROVE  \A x \in Orders : OrderInv(x)'
<1>1. /\ req[h].step = "free" /\ coupon' = [coupon EXCEPT ![o] = "confirmed"]
      /\ answered' = answered \cup {o} /\ Return(h)
      /\ UNCHANGED <<order, keyRow, tester, gateway, escrow, exists, txn, ledger, booked, audit, history>>
  BY DEF ConfirmFree, At
<1>2. req[h].step \in OwnSteps
  BY <1>1 DEF OwnSteps
<1>3. TypeOK /\ OwnerKnows(h)
  BY <1>2, OwnFacts
<1>4. Paid(o)
  BY <1>1, <1>2, <1>3 DEF OwnerKnows
<1>5. Left(h)
  BY <1>1, <1>3, Leaves
<1>6. \A x \in Orders \ {o} : coupon'[x] = coupon[x]
  BY <1>1, <1>3 DEF TypeOK
<1>7. UNCHANGED <<order, gateway, escrow, exists, txn, ledger, booked, audit, overlapped, faulted>>
  BY <1>1 DEF history
<1>8. QED
  BY <1>1, <1>2, <1>4, <1>5, <1>6, <1>7, OwnEnds

\* The look for an order saved under the key.
LEMMA FindKeyedOrderKeeps ==
    ASSUME IInv, NEW h \in Handlers, NEW o \in Orders, req[h].order = o, FindKeyedOrder(h)
    PROVE  \A x \in Orders : OrderInv(x)'
<1>1. /\ req[h].step = "keyed" /\ (GoTo(h, "make") \/ Return(h))
      /\ UNCHANGED <<intake, gateway, escrow, exists, books, audit, history>>
  BY DEF FindKeyedOrder, At
<1>2. req[h].step \in OwnSteps
  BY <1>1 DEF OwnSteps
<1>3. /\ TypeOK /\ RowInv(o) /\ OwnerKnows(h) /\ Alone(h, o) /\ o \notin answered /\ o \notin exists
      /\ req[h].wants.kind # "none" /\ coupon[o] # "confirmed"
  BY <1>1, <1>2, OwnFacts
<1>4. UNCHANGED <<order, answered, gateway, escrow, exists, coupon, txn, ledger, booked, audit, overlapped, faulted>>
  BY <1>1 DEF intake, books, history
<1>5. CASE Return(h)
  BY <1>2, <1>3, <1>4, <1>5, Leaves, OwnEnds
<1>6. CASE GoTo(h, "make")
  <2>1. Moved(h, "make")
    BY <1>3, <1>6, Moves DEF Steps
  <2>2. Acts(h, o) /\ req'[h].step = "make" /\ req'[h].order = o /\ req'[h].wants = req[h].wants
    BY <2>1 DEF Moved, Acts
  <2>3. ~Paid(o) /\ ~Paid(o)'
    BY <1>3, <1>4 DEF Paid
  <2>4. OwnerKnows(h)'
    BY <1>1, <1>3, <1>4, <2>2 DEF OwnerKnows, OwnSteps
  <2>5. QED
    BY <1>3, <1>4, <2>2, <2>3, <2>4, OwnStep DEF RowInv, OwnSteps
<1>7. QED
  BY <1>1, <1>5, <1>6

\* The order is answered, with its row saved or without.
LEMMA SaveKeyKeeps ==
    ASSUME IInv, NEW h \in Handlers, NEW o \in Orders, req[h].order = o, SaveKey(h) \/ SaveFails(h)
    PROVE  \A x \in Orders : OrderInv(x)'
<1>1. /\ req[h].step = "save" /\ answered' = answered \cup {o} /\ Return(h)
      /\ UNCHANGED <<order, gateway, escrow, exists, books, audit, overlapped>>
      /\ faulted' = faulted \/ faulted' = faulted \cup {o}
  BY DEF SaveKey, SaveFails, At, Fault, history
<1>2. req[h].step \in OwnSteps
  BY <1>1 DEF OwnSteps
<1>3. Left(h)
  BY <1>1, <1>2, OwnFacts, Leaves
<1>4. UNCHANGED <<coupon, txn, ledger, booked>>
  BY <1>1 DEF books
<1>5. QED
  BY <1>1, <1>2, <1>3, <1>4, OwnEnds

\* The request for an order fails before it is answered.
LEMMA OwnFaultKeeps ==
    ASSUME IInv, NEW h \in Handlers, NEW o \in Orders, req[h].order = o, req[h].step \in OwnSteps,
           OrderRejected(h) \/ InsertFails(h) \/ Crash(h)
    PROVE  \A x \in Orders : OrderInv(x)'
<1>1. /\ Return(h) /\ (faulted' = faulted \/ faulted' = faulted \cup {o})
      /\ UNCHANGED <<intake, gateway, escrow, exists, txn, ledger, booked, audit, overlapped>>
      /\ coupon' = coupon \/ coupon' = [coupon EXCEPT ![o] = "cancelled"]
  BY DEF OrderRejected, InsertFails, Crash, CancelCoupon, Fault, history, books
<1>2. TypeOK
  BY OwnFacts
<1>3. Left(h)
  BY <1>1, <1>2, Leaves
<1>4. /\ coupon'[o] = coupon[o] \/ coupon'[o] = "cancelled"
      /\ \A x \in Orders \ {o} : coupon'[x] = coupon[x]
  BY <1>1, <1>2 DEF TypeOK
<1>5. UNCHANGED <<order, answered>>
  BY <1>1 DEF intake
<1>6. QED
  BY <1>1, <1>3, <1>4, <1>5, OwnEnds

\* A request begins to make an order nobody else is making.
LEMMA OwnBegins ==
    ASSUME IInv, NEW h \in Handlers, NEW o \in Orders, NEW r \in Requests, At(h, "idle"), Unused(o),
           req' = [req EXCEPT ![h] = r],
           r.step \in {"reserve", "make", "keyed"}, r.order = o, r.wants.kind # "none",
           overlapped \subseteq overlapped',
           UNCHANGED <<order, answered, gateway, escrow, exists, books, audit, faulted>>
    PROVE  /\ \A x \in Orders : OrderInv(x)'
           /\ Only(h) /\ req'[h] = r
<1>1. TypeOK /\ RowInv(o)
  BY DEF IInv, OrderInv
<1>2. Only(h) /\ req'[h] = r
  BY <1>1 DEF TypeOK, Only
<1>3. Acts(h, o)
  BY <1>2 DEF Acts
<1>4. Alone(h, o) /\ order[o].kind = "none"
  BY DEF Unused, Alone, On, At
<1>5. o \notin answered /\ o \notin exists
  BY <1>1, <1>4 DEF RowInv
<1>6. UNCHANGED <<coupon, txn, ledger, booked>>
  BY DEF books
<1>7. ~Paid(o) /\ ~Paid(o)'
  BY <1>5 DEF Paid
<1>8. OwnerKnows(h)'
  BY <1>2, <1>4, <1>5 DEF OwnerKnows
<1>9. coupon'[o] # "confirmed"
  BY <1>1, <1>6, <1>7 DEF RowInv
<1>10. QED
  BY <1>1, <1>2, <1>3, <1>4, <1>5, <1>6, <1>7, <1>8, <1>9, OwnStep DEF RowInv, OwnSteps

\* Checkout begins.
LEMMA BeginCheckoutKeeps ==
    ASSUME IInv, NEW h \in Handlers, NEW o \in Orders, NEW coup \in BOOLEAN, NEW free \in BOOLEAN,
           BeginCheckout(h, o, coup, free)
    PROVE  /\ \A x \in Orders : OrderInv(x)'
           /\ Only(h) /\ req'[h].wants.key = NoKey
<1> DEFINE wants == [kind |-> "checkout", key |-> NoKey, coupon |-> coup, free |-> free, environment |-> tester]
           step == IF coup THEN "reserve" ELSE "make"
           r == [Idle EXCEPT !.step = step, !.order = o, !.wants = wants]
<1>1. /\ At(h, "idle") /\ Unused(o) /\ req' = [req EXCEPT ![h] = r]
      /\ UNCHANGED <<intake, gateway, escrow, exists, books, audit, history>>
  BY DEF BeginCheckout
<1>2. tester \in Environments
  BY DEF IInv, TypeOK
<1>3. wants \in OrderTypes /\ wants.kind = "checkout" /\ wants.key = NoKey
  BY <1>2 DEF OrderTypes, Kinds
<1>4. step \in {"reserve", "make"}
  OBVIOUS
<1> HIDE DEF wants, step
<1>5. r \in Requests /\ r.step = step /\ r.order = o /\ r.wants = wants
  BY <1>3, <1>4, IdleSlot DEF Requests, Steps
<1> HIDE DEF r
<1>6. /\ UNCHANGED <<order, answered, gateway, escrow, exists, books, audit, faulted>>
      /\ overlapped \subseteq overlapped'
  BY <1>1 DEF intake, history
<1>7. QED
  BY <1>1, <1>3, <1>4, <1>5, <1>6, OwnBegins

\* create-order begins.
LEMMA BeginCreateOrderKeeps ==
    ASSUME IInv, NEW h \in Handlers, NEW o \in Orders, NEW k \in Keys \cup {NoKey},
           NEW kind \in {"task", "goods"}, BeginCreateOrder(h, o, k, kind)
    PROVE  /\ \A x \in Orders : OrderInv(x)'
           /\ Only(h) /\ req'[h].step = "keyed" /\ req'[h].order = o
           /\ req'[h].wants.key = k /\ req'[h].wants.kind = kind
<1> DEFINE wants == [NoOrder EXCEPT !.kind = kind, !.key = k, !.environment = tester]
           r == [Idle EXCEPT !.step = "keyed", !.order = o, !.wants = wants]
<1>1. /\ At(h, "idle") /\ Unused(o) /\ req' = [req EXCEPT ![h] = r]
      /\ overlapped \subseteq overlapped'
      /\ UNCHANGED <<intake, gateway, escrow, exists, books, audit, faulted>>
  BY DEF BeginCreateOrder
<1>2. tester \in Environments
  BY DEF IInv, TypeOK
<1>3. wants \in OrderTypes /\ wants.kind = kind /\ wants.key = k
  BY <1>2 DEF OrderTypes, Kinds, NoOrder
<1> HIDE DEF wants
<1>4. r \in Requests /\ r.step = "keyed" /\ r.order = o /\ r.wants = wants
  BY <1>3, IdleSlot DEF Requests, Steps
<1> HIDE DEF r
<1>5. UNCHANGED <<order, answered, gateway, escrow, exists, books, audit, faulted>>
  BY <1>1 DEF intake
<1>6. QED
  BY <1>1, <1>3, <1>4, <1>5, OwnBegins

-----------------------------------------------------------------------------
(* Steps of Razorpay and of user-service                                   *)

\* A payment attempt changes state: no order's row, request or log depends on
\* more than that it was made.
LEMMA GatewayKeeps ==
    ASSUME IInv, NEW p \in Payments, NEW o \in Orders, NEW from \in GatewayStates, NEW to \in GatewayStates \ {"none"},
           GatewayMoves(p, o, from, to), o \in answered, ~order[o].free,
           from # "none" => gateway[p].order = o
    PROVE  \A x \in Orders : OrderInv(x)'
<1>1. TypeOK
  BY DEF IInv
<1>2. /\ gateway' = [gateway EXCEPT ![p] = [order |-> o, state |-> to]]
      /\ gateway[p].state = from
      /\ UNCHANGED <<intake, escrow, exists, books, audit, req, history>>
  BY DEF GatewayMoves
<1>3. /\ gateway'[p].order = o /\ gateway'[p].state = to
      /\ \A q \in Payments \ {p} : gateway'[q] = gateway[q]
  BY <1>1, <1>2 DEF TypeOK
<1>4. UNCHANGED <<order, answered, escrow, exists, coupon, txn, ledger, booked, audit, req, overlapped, faulted>>
  BY <1>2 DEF intake, books, history
<1>5. \A q \in Payments : gateway[q].state # "none" =>
          gateway'[q].state # "none" /\ gateway'[q].order = gateway[q].order
  BY <1>2, <1>3
<1>6. TAKE x \in Orders
<1>7. OrderInv(x)
  BY DEF IInv
<1>8. Paid(x)' <=> Paid(x)
  BY <1>4 DEF Paid
<1>9. RowInv(x)'
  BY <1>4, <1>5, <1>7, <1>8 DEF OrderInv, RowInv
<1>10. PaymentInv(x)'
  BY <1>3, <1>4, <1>7 DEF OrderInv, PaymentInv
<1>11. \A g \in Handlers : /\ On(g, x)' <=> On(g, x)
                           /\ Booking(g)' <=> Booking(g)
                           /\ Working(g, x)' <=> Working(g, x)
                           /\ At(g, "record")' <=> At(g, "record")
                           /\ At(g, "confirm")' <=> At(g, "confirm")
  BY <1>4 DEF On, Booking, Working, At
<1>12. ASSUME NEW g \in Handlers, On(g, x) PROVE Knows(g)'
  <2>1. Knows(g) /\ req[g].order = x
    BY <1>7, <1>12 DEF OrderInv, On
  <2>2. OwnerKnows(g)'
    BY <1>4, <1>8, <2>1 DEF Knows, OwnerKnows
  <2>3. EventKnows(g)'
    BY <1>4, <1>5, <2>1 DEF Knows, EventKnows
  <2>4. StepKnows(g)'
    BY <1>4, <1>8, <1>11, <2>1 DEF Knows, StepKnows
  <2>5. QED
    BY <2>2, <2>3, <2>4 DEF Knows
<1>13. ShareInv(x)'
  BY <1>7, <1>11 DEF OrderInv, ShareInv
<1>14. BookedInv(x)'
  BY <1>4, <1>7, <1>8, <1>11 DEF OrderInv, BookedInv
<1>15. AloneInv(x)'
  <2>1. SUFFICES ASSUME x \notin overlapped
                 PROVE  /\ \A g, h \in Handlers : Working(g, x)' /\ Working(h, x)' => g = h
                        /\ \A h \in Handlers : On(h, x)' => Fresh(h)'
                        /\ FollowInv(x)' /\ ProcessedInv(x)'
    BY <1>4 DEF AloneInv
  <2>2. /\ \A g, h \in Handlers : Working(g, x) /\ Working(h, x) => g = h
        /\ \A h \in Handlers : On(h, x) => Fresh(h)
        /\ FollowInv(x) /\ ProcessedInv(x)
    BY <1>7, <2>1 DEF OrderInv, AloneInv
  <2>3. ASSUME NEW h \in Handlers, On(h, x) PROVE Fresh(h)'
    <3>1. Fresh(h) /\ req[h].order = x
      BY <2>2, <2>3 DEF On
    <3>2. QED
      BY <1>4, <1>8, <3>1 DEF Fresh, HasEscrow
  <2>4. FollowInv(x)'
    BY <1>4, <1>8, <1>11, <2>2 DEF FollowInv
  <2>5. ProcessedInv(x)'
    <3>1. SUFFICES ASSUME NEW q \in Payments, gateway'[q].order = x, "captured" \in Subscribed,
                          audit[<<"captured", q>>] = "processed", x \notin faulted, HasEscrow(x)
                   PROVE  Paid(x)
      BY <1>4, <1>8 DEF ProcessedInv, HasEscrow
    <3>2. gateway[q].state # "none"
      <4>1. gateway[q].order \in Orders
        BY <1>1 DEF TypeOK
      <4>2. PaymentInv(gateway[q].order)
        BY <4>1 DEF IInv, OrderInv
      <4>3. QED
        BY <3>1, <4>2 DEF PaymentInv
    <3>3. gateway[q].order = x
      BY <1>5, <3>1, <3>2
    <3>4. QED
      BY <2>2, <3>1, <3>3 DEF ProcessedInv
  <2>6. QED
    BY <1>11, <2>2, <2>3, <2>4, <2>5
<1>16. QED
  BY <1>9, <1>10, <1>11, <1>12, <1>13, <1>14, <1>15 DEF OrderInv

\* The customer attempts to pay, and Razorpay captures.
LEMMA RazorpayKeeps ==
    ASSUME IInv, NEW p \in Payments, Capture(p) \/ \E o \in Orders : Attempt(p, o)
    PROVE  \A x \in Orders : OrderInv(x)'
<1>1. CASE Capture(p)
  <2> DEFINE o == gateway[p].order
  <2>1. GatewayMoves(p, o, "authorized", "captured")
    BY <1>1 DEF Capture
  <2>2. o \in Orders /\ gateway[p].state # "none"
    BY <2>1 DEF IInv, TypeOK, GatewayMoves
  <2>3. PaymentInv(o)
    BY <2>2 DEF IInv, OrderInv
  <2>4. o \in answered /\ ~order[o].free
    BY <2>2, <2>3 DEF PaymentInv
  <2>5. QED
    BY <2>1, <2>2, <2>4, GatewayKeeps DEF GatewayStates
<1>2. ASSUME NEW o \in Orders, Attempt(p, o) PROVE \A x \in Orders : OrderInv(x)'
  <2>1. CASE GatewayMoves(p, o, "none", "authorized")
    BY <1>2, <2>1, GatewayKeeps DEF GatewayStates, Attempt
  <2>2. CASE GatewayMoves(p, o, "none", "failed")
    BY <1>2, <2>2, GatewayKeeps DEF GatewayStates, Attempt
  <2>3. QED
    BY <1>2, <2>1, <2>2 DEF Attempt
<1>3. QED
  BY <1>1, <1>2

-----------------------------------------------------------------------------
(* Every step keeps the invariant of every order                           *)

\* What no order's invariant speaks of may change.
LEMMA StutterKeeps ==
    ASSUME IInv, UNCHANGED <<order, answered, gateway, escrow, exists, books, audit, req, history>>
    PROVE  \A x \in Orders : OrderInv(x)'
<1>1. UNCHANGED <<coupon, txn, ledger, booked, overlapped, faulted>>
  BY DEF books, history
<1>2. TAKE x \in Orders
<1>3. OrderInv(x)
  BY DEF IInv
<1>4. (Paid(x)' <=> Paid(x)) /\ (RowInv(x)' <=> RowInv(x)) /\ (PaymentInv(x)' <=> PaymentInv(x))
  BY <1>1 DEF Paid, RowInv, PaymentInv
<1>5. \A g \in Handlers : /\ On(g, x)' <=> On(g, x)
                          /\ Booking(g)' <=> Booking(g)
                          /\ Working(g, x)' <=> Working(g, x)
                          /\ At(g, "record")' <=> At(g, "record")
                          /\ At(g, "confirm")' <=> At(g, "confirm")
  BY DEF On, Booking, Working, At
<1>6. ASSUME NEW g \in Handlers, Knows(g), req[g].order = x PROVE Knows(g)'
  <2>1. OwnerKnows(g)'
    BY <1>4, <1>6 DEF Knows, OwnerKnows
  <2>2. EventKnows(g)'
    BY <1>6 DEF Knows, EventKnows
  <2>3. StepKnows(g)'
    BY <1>1, <1>4, <1>5, <1>6 DEF Knows, StepKnows
  <2>4. QED
    BY <2>1, <2>2, <2>3 DEF Knows
<1>7. ASSUME NEW g \in Handlers, Fresh(g), req[g].order = x PROVE Fresh(g)'
  BY <1>1, <1>4, <1>7 DEF Fresh, HasEscrow
<1>8. \A g \in Handlers : On(g, x)' => Knows(g)'
  BY <1>3, <1>5, <1>6 DEF OrderInv, On
<1>9. ShareInv(x)' /\ BookedInv(x)'
  BY <1>1, <1>3, <1>4, <1>5 DEF OrderInv, ShareInv, BookedInv
<1>10. AloneInv(x)'
  <2>1. FollowInv(x) => FollowInv(x)'
    BY <1>1, <1>4, <1>5 DEF FollowInv
  <2>2. ProcessedInv(x) => ProcessedInv(x)'
    BY <1>1, <1>4 DEF ProcessedInv, HasEscrow
  <2>3. \A g \in Handlers : On(g, x) => req[g].order = x
    BY DEF On
  <2>4. QED
    BY <1>1, <1>3, <1>5, <1>7, <2>1, <2>2, <2>3 DEF OrderInv, AloneInv
<1>11. QED
  BY <1>3, <1>4, <1>8, <1>9, <1>10 DEF OrderInv

\* Case by case over the actions of Next.
LEMMA OrdersKept ==
    ASSUME IInv, [Next]_vars
    PROVE  \A x \in Orders : OrderInv(x)'
<1>1. TypeOK
  BY DEF IInv
<1>2. ASSUME NEW h \in Handlers, Start(h) PROVE \A x \in Orders : OrderInv(x)'
  <2>1. ASSUME NEW p \in Payments, NEW event \in PaymentEvents, NEW webhook \in BOOLEAN,
               webhook => event \in Subscribed, BeginEvent(h, event, p, webhook)
        PROVE  \A x \in Orders : OrderInv(x)'
    <3>1. gateway[p].order \in Orders
      BY <1>1 DEF TypeOK
    <3>2. QED
      BY <2>1, <3>1, BeginEventKeeps
  <2>2. ASSUME NEW p \in Payments, BeginVerify(h, p) PROVE \A x \in Orders : OrderInv(x)'
    BY <2>1, <2>2 DEF BeginVerify, PaymentEvents
  <2>3. ASSUME NEW p \in Payments, NEW event \in Subscribed, BeginWebhook(h, event, p)
        PROVE \A x \in Orders : OrderInv(x)'
    BY <2>1, <2>3, IntakeAssumption DEF BeginWebhook
  <2>4. QED
    BY <1>2, <2>2, <2>3, BeginCheckoutKeeps, BeginCreateOrderKeeps DEF Start
<1>3. ASSUME NEW h \in Handlers PROVE req[h].order \in Orders
  BY <1>1 DEF TypeOK, Requests
<1>4. ASSUME NEW h \in Handlers, CreateOrder(h) PROVE \A x \in Orders : OrderInv(x)'
  BY <1>3, <1>4, ReserveCouponKeeps, MakeOrderKeeps, InsertEscrowKeeps, ConfirmFreeKeeps, FindKeyedOrderKeeps,
     SaveKeyKeeps DEF CreateOrder
<1>5. ASSUME NEW h \in Handlers, HandleEvent(h) PROVE \A x \in Orders : OrderInv(x)'
  BY <1>3, <1>5, DeduplicateKeeps, LogReceivedKeeps, FindEscrowKeeps, RecoverKeeps, ApplyEventKeeps,
     ReleaseCouponKeeps, RecordTransactionKeeps, ConfirmCouponKeeps, BookCaptureKeeps, NotifyBookingKeeps,
     ReconfirmKeeps, MarkProcessedKeeps DEF HandleEvent
<1>6. ASSUME NEW h \in Handlers, Fail(h) PROVE \A x \in Orders : OrderInv(x)'
  <2>1. /\ OrderRejected(h) \/ InsertFails(h) \/ SaveFails(h) => req[h].step \in OwnSteps
        /\ DbError(h) \/ LostCall(h) => req[h].step \in EventSteps
        /\ Crash(h) => req[h].step \in OwnSteps \cup EventSteps
    <3>1. req[h].step \in Steps
      BY <1>1 DEF TypeOK, Requests
    <3>2. OrderRejected(h) \/ InsertFails(h) \/ SaveFails(h) => req[h].step \in OwnSteps
      BY DEF OrderRejected, InsertFails, SaveFails, At, OwnSteps
    <3>3. DbError(h) \/ LostCall(h) => req[h].step \in EventSteps
      BY DEF DbError, LostCall, At, EventSteps
    <3>4. Crash(h) => req[h].step \in OwnSteps \cup EventSteps
      BY <3>1 DEF Crash, At, OwnSteps, Steps
    <3>5. QED
      BY <3>2, <3>3, <3>4
  <2>2. QED
    BY <1>3, <1>6, <2>1, OwnFaultKeeps, SaveKeyKeeps, EventFaultKeeps DEF Fail
<1>7. CASE SwitchEnvironment
  BY <1>7, StutterKeeps DEF SwitchEnvironment
<1>8. CASE UNCHANGED vars
  BY <1>8, StutterKeeps DEF vars, intake
<1>9. QED
  BY <1>2, <1>4, <1>5, <1>6, <1>7, <1>8, RazorpayKeeps DEF Next

-----------------------------------------------------------------------------
(* Types                                                                   *)

\* A step of a request that goes on moves its slot or frees it.
LEMMA SlotKept ==
    ASSUME IInv, NEW h \in Handlers, CreateOrder(h) \/ HandleEvent(h) \/ Fail(h)
    PROVE  /\ Only(h)
           /\ Left(h) \/ \E step \in Steps : Moved(h, step)
<1>1. TypeOK
  BY DEF IInv
<1>2. ASSUME NEW step \in Steps, GoTo(h, step) PROVE Moved(h, step)
  BY <1>1, <1>2, Moves
<1>3. ASSUME Return(h) PROVE Left(h)
  BY <1>1, <1>3, Leaves
<1>4. ASSUME Finish(h) PROVE Left(h) \/ \E step \in Steps : Moved(h, step)
  BY <1>1, <1>4, Finishes DEF Steps, EventSteps
<1>5. ASSUME NEW row \in EscrowRows, req' = [req EXCEPT ![h].step = "apply", ![h].seen = row]
      PROVE  \E step \in Steps : Moved(h, step)
  BY <1>1, <1>5, Sees DEF Steps, EventSteps
<1>6. Left(h) \/ \E step \in Steps : Moved(h, step)
  <2>1. CASE CreateOrder(h)
    <3>1. \/ \E step \in {"make", "insert", "save", "free"} : GoTo(h, step)
          \/ Return(h)
      BY <2>1 DEF CreateOrder, ReserveCoupon, MakeOrder, InsertEscrow, ConfirmFree, FindKeyedOrder, SaveKey
    <3>2. QED
      BY <1>2, <1>3, <3>1 DEF Steps
  <2>2. CASE FindEscrow(h)
    <3>1. escrow[req[h].order] \in EscrowRows
      BY <1>1 DEF TypeOK, Requests
    <3>2. \/ GoTo(h, "recover") \/ GoTo(h, "reconfirm") \/ Finish(h)
          \/ req' = [req EXCEPT ![h].step = "apply", ![h].seen = escrow[req[h].order]]
      BY <2>2 DEF FindEscrow
    <3>3. QED
      BY <1>2, <1>4, <1>5, <3>1, <3>2 DEF Steps, EventSteps
  <2>3. CASE Recover(h)
    <3> DEFINE row == [status |-> "pending", paymentStatus |-> "none", paymentId |-> NoPayment]
    <3>1. Finish(h) \/ req' = [req EXCEPT ![h].step = "apply", ![h].seen = row]
      BY <2>3 DEF Recover
    <3>2. row \in EscrowRows
      BY DEF EscrowRows, EscrowStatuses, PaymentStatuses
    <3>3. QED
      BY <1>4, <1>5, <3>1, <3>2
  <2>4. CASE LogReceived(h)
    BY <1>1, <2>4, Owns DEF LogReceived, Steps, EventSteps
  <2>5. CASE HandleEvent(h) /\ ~FindEscrow(h) /\ ~Recover(h) /\ ~LogReceived(h)
    <3>1. \/ \E step \in {"log", "release", "record", "confirm", "book", "notify"} : GoTo(h, step)
          \/ Return(h) \/ Finish(h)
      BY <2>5 DEF HandleEvent, Deduplicate, ApplyEvent, ReleaseCoupon, RecordTransaction, ConfirmCoupon,
         BookCapture, NotifyBooking, Reconfirm, MarkProcessed
    <3>2. QED
      BY <1>2, <1>3, <1>4, <3>1 DEF Steps, EventSteps
  <2>6. CASE Fail(h)
    <3>1. GoTo(h, "record") \/ GoTo(h, "book") \/ GoTo(h, "notify") \/ Return(h) \/ Finish(h)
      BY <2>6 DEF Fail, OrderRejected, InsertFails, SaveFails, Crash, DbError, LostCall
    <3>2. QED
      BY <1>2, <1>3, <1>4, <3>1 DEF Steps, EventSteps
  <2>7. QED
    BY <2>1, <2>2, <2>3, <2>4, <2>5, <2>6
<1>7. QED
  BY <1>6 DEF Left, Moved

\* A request that starts fills no more than its slot: an event or a checkout
\* has no key.
LEMMA StartFillsSlot ==
    ASSUME IInv, NEW h \in Handlers, Start(h)
    PROVE  /\ Only(h)
           /\ \/ req'[h].wants.key = NoKey
              \/ \E o \in Orders, k \in Keys \cup {NoKey}, kind \in {"task", "goods"} : BeginCreateOrder(h, o, k, kind)
<1>1. TypeOK
  BY DEF IInv
<1>2. ASSUME NEW p \in Payments, NEW event \in PaymentEvents, NEW webhook \in BOOLEAN,
             webhook => event \in Subscribed, BeginEvent(h, event, p, webhook)
      PROVE  Only(h) /\ req'[h].wants.key = NoKey
  <2>1. gateway[p].order \in Orders
    BY <1>1 DEF TypeOK
  <2>2. QED
    BY <1>2, <2>1, BeginEventKeeps DEF NoOrder
<1>3. ASSUME NEW p \in Payments, BeginVerify(h, p) PROVE Only(h) /\ req'[h].wants.key = NoKey
  BY <1>2, <1>3 DEF BeginVerify, PaymentEvents
<1>4. ASSUME NEW p \in Payments, NEW event \in Subscribed, BeginWebhook(h, event, p)
      PROVE  Only(h) /\ req'[h].wants.key = NoKey
  BY <1>2, <1>4, IntakeAssumption DEF BeginWebhook
<1>5. QED
  BY <1>3, <1>4, BeginCheckoutKeeps, BeginCreateOrderKeeps DEF Start

\* Every action keeps every variable in its type.
LEMMA TypesKept ==
    ASSUME IInv, [Next]_vars
    PROVE  TypeOK'
<1>1. TypeOK
  BY DEF IInv
<1>2. ASSUME NEW h \in Handlers, Start(h) PROVE TypeOK'
  <2>1. req' \in [Handlers -> Requests]
    BY <1>2, StartFillsSlot DEF Only
  <2>2. overlapped' \subseteq Orders
    <3>1. \A g \in Handlers : req[g].order \in Orders
      BY <1>1 DEF TypeOK, Requests
    <3>2. \A p \in Payments : gateway[p].order \in Orders
      BY <1>1 DEF TypeOK
    <3>3. overlapped \subseteq Orders
      BY <1>1 DEF TypeOK
    <3>4. ASSUME NEW o \in Orders, NEW k \in Keys \cup {NoKey}, NEW kind \in {"task", "goods"},
                 BeginCreateOrder(h, o, k, kind)
          PROVE  overlapped' \subseteq Orders
      BY <3>1, <3>3, <3>4 DEF BeginCreateOrder
    <3>5. ASSUME NEW p \in Payments, BeginVerify(h, p) \/ \E event \in Subscribed : BeginWebhook(h, event, p)
          PROVE  overlapped' \subseteq Orders
      <4>1. overlapped' = overlapped \cup {gateway[p].order} \/ overlapped' = overlapped
        BY <3>5 DEF BeginVerify, BeginWebhook, BeginEvent
      <4>2. QED
        BY <3>2, <3>3, <4>1
    <3>6. QED
      BY <1>2, <3>3, <3>4, <3>5 DEF Start, BeginCheckout, history
  <2>3. UNCHANGED <<intake, gateway, escrow, exists, books, audit, faulted>>
    BY <1>2 DEF Start, BeginCheckout, BeginCreateOrder, BeginVerify, BeginWebhook, BeginEvent, history
  <2>4. QED
    BY <1>1, <2>1, <2>2, <2>3 DEF TypeOK, intake, books
<1>3. ASSUME NEW h \in Handlers, CreateOrder(h) PROVE TypeOK'
  <2>1. req' \in [Handlers -> Requests]
    BY <1>3, SlotKept DEF Only
  <2>2. req[h].order \in Orders /\ req[h].wants \in OrderTypes
    BY <1>1 DEF TypeOK, Requests
  <2>3. CASE ReserveCoupon(h) \/ ConfirmFree(h) \/ FindKeyedOrder(h)
    BY <1>1, <2>1, <2>2, <2>3 DEF ReserveCoupon, ConfirmFree, FindKeyedOrder, TypeOK, intake, books, history
  <2>4. CASE MakeOrder(h)
    BY <1>1, <2>1, <2>2, <2>4 DEF MakeOrder, TypeOK, books, history
  <2>5. CASE InsertEscrow(h)
    <3> DEFINE row == [status |-> IF req[h].wants.free THEN "held" ELSE "pending",
                       paymentStatus |-> IF req[h].wants.free THEN "captured" ELSE "pending",
                       paymentId |-> NoPayment]
    <3>1. row \in EscrowRows
      BY DEF EscrowRows, EscrowStatuses, PaymentStatuses
    <3>2. escrow' = [escrow EXCEPT ![req[h].order] = row] /\ exists' = exists \cup {req[h].order}
      BY <2>5 DEF InsertEscrow, InsertRow
    <3> HIDE DEF row
    <3>3. QED
      BY <1>1, <2>1, <2>2, <2>5, <3>1, <3>2 DEF InsertEscrow, TypeOK, books, history
  <2>6. CASE SaveKey(h)
    <3>1. \A k \in Keys : SavedRow(k, req[h].order) \subseteq Orders
      BY <1>1, <2>2 DEF TypeOK, SavedRow
    <3>2. keyRow' \in [Keys -> SUBSET Orders]
      BY <1>1, <2>6, <3>1 DEF TypeOK, SaveKey
    <3>3. QED
      BY <1>1, <2>1, <2>2, <2>6, <3>2 DEF SaveKey, TypeOK, books, history
  <2>7. QED
    BY <1>3, <2>3, <2>4, <2>5, <2>6 DEF CreateOrder
<1>4. ASSUME NEW h \in Handlers, HandleEvent(h) PROVE TypeOK'
  <2>1. req' \in [Handlers -> Requests]
    BY <1>4, SlotKept DEF Only
  <2>2. /\ req[h].order \in Orders /\ req[h].event \in PaymentEvents
        /\ req[h].payment \in Payments \cup {NoPayment}
    BY <1>1 DEF TypeOK, Requests
  <2>3. CASE Deduplicate(h) \/ FindEscrow(h)
    BY <1>1, <2>1, <2>3 DEF Deduplicate, FindEscrow, TypeOK, intake, books, history
  <2>4. CASE LogReceived(h) \/ MarkProcessed(h)
    BY <1>1, <2>1, <2>4 DEF LogReceived, MarkProcessed, TypeOK, intake, books, history
  <2>5. CASE Recover(h)
    <3>1. [status |-> "pending", paymentStatus |-> "none", paymentId |-> NoPayment] \in EscrowRows
      BY DEF EscrowRows, EscrowStatuses, PaymentStatuses
    <3>2. QED
      BY <1>1, <2>1, <2>2, <2>5, <3>1 DEF Recover, InsertRow, TypeOK, intake, books, history
  <2>6. CASE ApplyEvent(h)
    <3>1. \A e \in EscrowRows : PaymentUpdate(e, req[h].event, req[h].payment) \in EscrowRows
      BY <2>2 DEF PaymentUpdate, EscrowRows, EscrowStatuses, PaymentStatuses, PaymentEvents
    <3>2. escrow' \in [Orders -> EscrowRows]
      BY <1>1, <2>2, <2>6, <3>1 DEF ApplyEvent, TypeOK
    <3>3. QED
      BY <1>1, <2>1, <2>6, <3>2 DEF ApplyEvent, TypeOK, intake, books, history
  <2>7. CASE ReleaseCoupon(h) \/ ConfirmCoupon(h) \/ Reconfirm(h)
    BY <1>1, <2>1, <2>2, <2>7 DEF ReleaseCoupon, CancelCoupon, ConfirmCoupon, Reconfirm, TypeOK, intake, history
  <2>8. CASE RecordTransaction(h) \/ NotifyBooking(h)
    BY <1>1, <2>1, <2>2, <2>8
    DEF RecordTransaction, NotifyBooking, TypeOK, PaymentEvents, PaymentStatuses, intake, history
  <2>9. CASE BookCapture(h)
    BY <1>1, <2>1, <2>2, <2>9 DEF BookCapture, TypeOK, intake, history
  <2>10. QED
    BY <1>4, <2>3, <2>4, <2>5, <2>6, <2>7, <2>8, <2>9 DEF HandleEvent
<1>5. ASSUME NEW h \in Handlers, Fail(h) PROVE TypeOK'
  <2>1. req' \in [Handlers -> Requests]
    BY <1>5, SlotKept DEF Only
  <2>2. req[h].order \in Orders
    BY <1>1 DEF TypeOK, Requests
  <2>3. CASE OrderRejected(h) \/ InsertFails(h)
    BY <1>1, <2>1, <2>2, <2>3 DEF OrderRejected, InsertFails, CancelCoupon, Fault, TypeOK, intake, history
  <2>4. CASE SaveFails(h) \/ Crash(h) \/ DbError(h) \/ LostCall(h)
    BY <1>1, <2>1, <2>2, <2>4 DEF SaveFails, Crash, DbError, LostCall, Fault, TypeOK, intake, books
  <2>5. QED
    BY <1>5, <2>3, <2>4 DEF Fail
<1>6. ASSUME NEW p \in Payments, Capture(p) \/ \E o \in Orders : Attempt(p, o) PROVE TypeOK'
  <2>1. \E o \in Orders, from, to \in GatewayStates : GatewayMoves(p, o, from, to)
    <3>1. gateway[p].order \in Orders
      BY <1>1 DEF TypeOK
    <3>2. QED
      BY <1>6, <3>1 DEF Capture, Attempt, GatewayStates
  <2>2. QED
    BY <1>1, <2>1 DEF GatewayMoves, TypeOK, intake, books, history
<1>7. CASE SwitchEnvironment
  BY <1>1, <1>7 DEF SwitchEnvironment, TypeOK, books, history
<1>8. CASE UNCHANGED vars
  BY <1>1, <1>8 DEF vars, TypeOK, intake, books, history
<1>9. QED
  BY <1>2, <1>3, <1>4, <1>5, <1>6, <1>7, <1>8 DEF Next

-----------------------------------------------------------------------------
(* Orders made under a key                                                 *)

\* The step of a request without a key, or that lets go of its key, concerns no key.
LEMMA KeysAside ==
    ASSUME IInv, NEW h \in Handlers, Only(h), order' = order, keyRow' = keyRow,
           answered \subseteq answered', faulted \subseteq faulted', overlapped \subseteq overlapped',
           req'[h].wants.key \notin Keys,
           At(h, "save") /\ req[h].wants.key \in Keys => req[h].order \in faulted'
    PROVE  KeyInv'
<1>1. KeyInv /\ TypeOK
  BY DEF IInv
<1>2. \A k, e : Reusable(k, e)' = Reusable(k, e)
  BY DEF Reusable
<1>3. \A g \in Handlers \ {h} : req'[g] = req[g]
  BY DEF Only
<1>4. \A k \in Keys : \A saved \in keyRow'[k] : order'[saved].key = k /\ saved \in answered'
  BY <1>1 DEF KeyInv
<1>5. \A g \in Handlers : req'[g].wants.key \in Keys =>
          /\ req'[g].step \in {"keyed", "make", "save"}
          /\ req'[g].wants.kind # "checkout"
  BY <1>1, <1>3 DEF KeyInv
<1>6. ASSUME NEW f \in Handlers, req'[f].wants.key \in Keys, req'[f].order \notin overlapped'
      PROVE  /\ \A g \in Handlers \ {f} : req'[g].wants.key # req'[f].wants.key
             /\ req'[f].step \in {"make", "save"} =>
                   Reusable(req[f].wants.key, req[f].wants.environment)' = {}
  <2>1. f # h /\ req'[f] = req[f] /\ req[f].order \notin overlapped
    BY <1>3, <1>6
  <2>2. /\ \A g \in Handlers \ {f} : req[g].wants.key # req[f].wants.key
        /\ req[f].step \in {"make", "save"} => Reusable(req[f].wants.key, req[f].wants.environment) = {}
    BY <1>1, <1>6, <2>1 DEF KeyInv
  <2>3. QED
    BY <1>2, <1>3, <1>6, <2>1, <2>2
<1>7. ASSUME NEW x \in Orders \ (faulted' \cup overlapped'), order[x].key \in Keys, keyRow[order[x].key] = {}
      PROVE  \E g \in Handlers : On(g, x)' /\ At(g, "save")'
  <2>1. PICK g \in Handlers : On(g, x) /\ At(g, "save")
    BY <1>1, <1>7 DEF KeyInv
  <2>2. Knows(g)
    BY <2>1 DEF IInv, OrderInv
  <2>3. order[x] = req[g].wants
    BY <2>1, <2>2 DEF Knows, OwnerKnows, OwnSteps, On, At
  <2>4. g # h
    BY <1>7, <2>1, <2>3 DEF On
  <2>5. QED
    BY <1>3, <2>1, <2>4 DEF On, At
<1>8. OneOrderPerKey'
  BY <1>1 DEF KeyInv, OneOrderPerKey
<1>9. QED
  BY <1>4, <1>5, <1>6, <1>7, <1>8 DEF KeyInv

\* What leaves orders, keys and requests alone.
LEMMA KeysStay ==
    ASSUME IInv, UNCHANGED <<order, answered, keyRow, req, history>>
    PROVE  KeyInv'
<1>1. KeyInv
  BY DEF IInv
<1>2. \A k, e : Reusable(k, e)' = Reusable(k, e)
  BY DEF Reusable
<1>3. \A g \in Handlers : /\ At(g, "save")' <=> At(g, "save")
                          /\ \A x \in Orders : On(g, x)' <=> On(g, x)
  BY DEF At, On
<1>4. UNCHANGED <<overlapped, faulted>>
  BY DEF history
<1>5. OneOrderPerKey'
  BY <1>1, <1>4 DEF KeyInv, OneOrderPerKey
<1>6. QED
  BY <1>1, <1>2, <1>3, <1>4, <1>5 DEF KeyInv

\* A request that begins while another one has its key overlaps it.
LEMMA BeginCreateOrderKeys ==
    ASSUME IInv, NEW h \in Handlers, NEW o \in Orders, NEW k \in Keys \cup {NoKey},
           NEW kind \in {"task", "goods"}, BeginCreateOrder(h, o, k, kind)
    PROVE  KeyInv'
<1> DEFINE rivals == {req[g].order : g \in {i \in Handlers : k # NoKey /\ req[i].wants.key = k}}
<1>1. KeyInv /\ TypeOK
  BY DEF IInv
<1>2. /\ At(h, "idle")
      /\ overlapped' = overlapped \cup rivals \cup IF rivals = {} THEN {} ELSE {o}
      /\ UNCHANGED <<intake, gateway, escrow, exists, books, audit, faulted>>
  BY DEF BeginCreateOrder
<1>3. /\ Only(h) /\ req'[h].step = "keyed" /\ req'[h].order = o
      /\ req'[h].wants.key = k /\ req'[h].wants.kind = kind
  BY BeginCreateOrderKeeps
<1>4. UNCHANGED <<order, answered, keyRow, faulted>> /\ overlapped \subseteq overlapped'
  BY <1>2 DEF intake
<1>5. ASSUME NEW g \in Handlers, k \in Keys, req[g].wants.key = k
      PROVE  rivals # {} /\ req[g].order \in rivals /\ rivals \subseteq overlapped' /\ o \in overlapped'
  <2>1. req[g].order \in rivals
    BY <1>5, IntakeAssumption
  <2>2. QED
    BY <1>2, <2>1
<1> HIDE DEF rivals
<1>6. CASE k \notin Keys
  BY <1>2, <1>3, <1>4, <1>6, KeysAside DEF At
<1>7. CASE k \in Keys
  <2>1. \A i, e : Reusable(i, e)' = Reusable(i, e)
    BY <1>4 DEF Reusable
  <2>2. \A g \in Handlers \ {h} : req'[g] = req[g]
    BY <1>3 DEF Only
  <2>3. \A i \in Keys : \A saved \in keyRow'[i] : order'[saved].key = i /\ saved \in answered'
    BY <1>1, <1>4 DEF KeyInv
  <2>4. \A g \in Handlers : req'[g].wants.key \in Keys =>
            /\ req'[g].step \in {"keyed", "make", "save"}
            /\ req'[g].wants.kind # "checkout"
    BY <1>1, <1>3, <2>2 DEF KeyInv
  <2>5. ASSUME NEW f \in Handlers, req'[f].wants.key \in Keys, req'[f].order \notin overlapped'
        PROVE  /\ \A g \in Handlers \ {f} : req'[g].wants.key # req'[f].wants.key
               /\ req'[f].step \in {"make", "save"} =>
                     Reusable(req[f].wants.key, req[f].wants.environment)' = {}
    <3>1. CASE f = h
      BY <1>3, <1>5, <1>7, <2>2, <2>5, <3>1
    <3>2. CASE f # h
      <4>1. req'[f] = req[f] /\ req[f].order \notin overlapped
        BY <1>4, <2>2, <2>5, <3>2
      <4>2. /\ \A g \in Handlers \ {f} : req[g].wants.key # req[f].wants.key
            /\ req[f].step \in {"make", "save"} => Reusable(req[f].wants.key, req[f].wants.environment) = {}
        BY <1>1, <2>5, <4>1 DEF KeyInv
      <4>3. req[f].wants.key # k
        BY <1>5, <1>7, <2>5, <4>1
      <4>4. QED
        BY <1>3, <2>1, <2>2, <2>5, <4>1, <4>2, <4>3
    <3>3. QED
      BY <3>1, <3>2
  <2>6. ASSUME NEW x \in Orders \ (faulted' \cup overlapped'), order[x].key \in Keys, keyRow[order[x].key] = {}
        PROVE  \E g \in Handlers : On(g, x)' /\ At(g, "save")'
    <3>1. PICK g \in Handlers : On(g, x) /\ At(g, "save")
      BY <1>1, <1>4, <2>6 DEF KeyInv
    <3>2. g # h
      BY <1>2, <3>1 DEF At
    <3>3. QED
      BY <2>2, <3>1, <3>2 DEF On, At
  <2>7. OneOrderPerKey'
    BY <1>1, <1>4 DEF KeyInv, OneOrderPerKey
  <2>8. QED
    BY <1>4, <2>3, <2>4, <2>5, <2>6, <2>7 DEF KeyInv
<1>8. QED
  BY <1>6, <1>7

\* A request goes on to make an order because it found none it could use.
LEMMA FindKeyedOrderKeys ==
    ASSUME IInv, NEW h \in Handlers, FindKeyedOrder(h)
    PROVE  KeyInv'
<1>1. KeyInv /\ TypeOK
  BY DEF IInv
<1>2. /\ req[h].step = "keyed"
      /\ \/ GoTo(h, "make") /\ Reusable(req[h].wants.key, req[h].wants.environment) = {}
         \/ Return(h)
      /\ UNCHANGED <<intake, gateway, escrow, exists, books, audit, history>>
  BY DEF FindKeyedOrder, At
<1>3. UNCHANGED <<order, answered, keyRow, overlapped, faulted>>
  BY <1>2 DEF intake, history
<1>4. CASE Return(h)
  <2>1. Left(h)
    BY <1>1, <1>4, Leaves
  <2>2. Only(h) /\ req'[h].wants.key \notin Keys
    BY <2>1, IdleSlot, IntakeAssumption DEF Left
  <2>3. QED
    BY <1>2, <1>3, <2>2, KeysAside DEF At
<1>5. CASE GoTo(h, "make") /\ Reusable(req[h].wants.key, req[h].wants.environment) = {}
  <2>1. Moved(h, "make")
    BY <1>1, <1>5, Moves DEF Steps
  <2>2. /\ req'[h].step = "make" /\ req'[h].order = req[h].order /\ req'[h].wants = req[h].wants
        /\ \A g \in Handlers \ {h} : req'[g] = req[g]
    BY <2>1 DEF Moved, Only
  <2>3. \A i, e : Reusable(i, e)' = Reusable(i, e)
    BY <1>3 DEF Reusable
  <2>4. \A g \in Handlers : req'[g].wants.key \in Keys =>
            /\ req'[g].step \in {"keyed", "make", "save"}
            /\ req'[g].wants.kind # "checkout"
    BY <1>1, <2>2 DEF KeyInv
  <2>5. ASSUME NEW f \in Handlers, req'[f].wants.key \in Keys, req'[f].order \notin overlapped'
        PROVE  /\ \A g \in Handlers \ {f} : req'[g].wants.key # req'[f].wants.key
               /\ req'[f].step \in {"make", "save"} =>
                     Reusable(req[f].wants.key, req[f].wants.environment)' = {}
    <3>1. /\ req'[f].wants = req[f].wants /\ req'[f].order = req[f].order
          /\ f # h => req'[f].step = req[f].step
      BY <2>2
    <3>2. /\ \A g \in Handlers \ {f} : req[g].wants.key # req[f].wants.key
          /\ req[f].step \in {"make", "save"} => Reusable(req[f].wants.key, req[f].wants.environment) = {}
      BY <1>1, <1>3, <2>5, <3>1 DEF KeyInv
    <3>3. \A g \in Handlers : req'[g].wants = req[g].wants
      BY <2>2
    <3>4. QED
      BY <1>5, <2>3, <3>1, <3>2, <3>3
  <2>6. ASSUME NEW x \in Orders \ (faulted' \cup overlapped'), order[x].key \in Keys, keyRow[order[x].key] = {}
        PROVE  \E g \in Handlers : On(g, x)' /\ At(g, "save")'
    <3>1. PICK g \in Handlers : On(g, x) /\ At(g, "save")
      BY <1>1, <1>3, <2>6 DEF KeyInv
    <3>2. g # h
      BY <1>2, <3>1 DEF At
    <3>3. QED
      BY <2>2, <3>1, <3>2 DEF On, At
  <2>7. OneOrderPerKey'
    BY <1>1, <1>3 DEF KeyInv, OneOrderPerKey
  <2>8. QED
    BY <1>1, <1>3, <2>4, <2>5, <2>6, <2>7 DEF KeyInv
<1>6. QED
  BY <1>2, <1>4, <1>5

\* The order made under a key is the first in its environment.
LEMMA MakeOrderKeys ==
    ASSUME IInv, NEW h \in Handlers, NEW o \in Orders, req[h].order = o, MakeOrder(h)
    PROVE  KeyInv'
<1>1. KeyInv
  BY DEF IInv
<1>2. /\ req[h].step = "make" /\ order' = [order EXCEPT ![o] = req[h].wants]
      /\ GoTo(h, IF req[h].wants.kind = "checkout" THEN "insert" ELSE "save")
      /\ UNCHANGED <<answered, keyRow, tester, gateway, escrow, exists, books, audit, history>>
  BY DEF MakeOrder, At
<1>3. TypeOK /\ o \notin answered
  BY <1>2, OwnFacts DEF OwnSteps
<1>4. UNCHANGED <<overlapped, faulted>>
  BY <1>2 DEF history
<1>5. order'[o] = req[h].wants /\ \A x \in Orders \ {o} : order'[x] = order[x]
  BY <1>2, <1>3 DEF TypeOK
<1>6. Moved(h, IF req[h].wants.kind = "checkout" THEN "insert" ELSE "save")
  BY <1>2, <1>3, Moves DEF Steps
<1>7. /\ req'[h].order = o /\ req'[h].wants = req[h].wants
      /\ req[h].wants.kind # "checkout" => req'[h].step = "save"
      /\ \A g \in Handlers \ {h} : req'[g] = req[g]
  BY <1>6 DEF Moved, Only
<1>8. ASSUME NEW k \in Keys, NEW saved \in keyRow[k]
      PROVE  saved \in Orders \ {o} /\ order'[saved] = order[saved] /\ order[saved].key = k /\ saved \in answered
  <2>1. saved \in Orders /\ saved \in answered /\ order[saved].key = k
    BY <1>1, <1>3 DEF KeyInv, TypeOK
  <2>2. QED
    BY <1>3, <1>5, <2>1
<1>9. \A k \in Keys : \A e : Reusable(k, e)' = Reusable(k, e)
  BY <1>2, <1>8 DEF Reusable
<1>10. \A k \in Keys : \A saved \in keyRow'[k] : order'[saved].key = k /\ saved \in answered'
  BY <1>2, <1>8
<1>11. \A g \in Handlers : req'[g].wants.key \in Keys =>
           /\ req'[g].step \in {"keyed", "make", "save"}
           /\ req'[g].wants.kind # "checkout"
  BY <1>1, <1>7 DEF KeyInv
<1>12. ASSUME NEW f \in Handlers, req'[f].wants.key \in Keys, req'[f].order \notin overlapped'
       PROVE  /\ \A g \in Handlers \ {f} : req'[g].wants.key # req'[f].wants.key
              /\ req'[f].step \in {"make", "save"} =>
                    Reusable(req[f].wants.key, req[f].wants.environment)' = {}
  <2>1. /\ req'[f].wants = req[f].wants /\ req'[f].order = req[f].order
        /\ f # h => req'[f].step = req[f].step
    BY <1>7
  <2>2. /\ \A g \in Handlers \ {f} : req[g].wants.key # req[f].wants.key
        /\ req[f].step \in {"make", "save"} => Reusable(req[f].wants.key, req[f].wants.environment) = {}
    BY <1>1, <1>4, <1>12, <2>1 DEF KeyInv
  <2>3. \A g \in Handlers : req'[g].wants = req[g].wants
    BY <1>7
  <2>4. req'[f].step \in {"make", "save"} => Reusable(req'[f].wants.key, req'[f].wants.environment) = {}
    BY <1>2, <2>1, <2>2
  <2>5. Reusable(req[f].wants.key, req[f].wants.environment)'
            = {x \in Orders : /\ req'[f].wants.key # NoKey /\ x \in keyRow'[req'[f].wants.key]
                              /\ order'[x].environment = req'[f].wants.environment}
    BY DEF Reusable
  <2>6. \A x \in keyRow[req[f].wants.key] : order'[x] = order[x]
    BY <1>8, <1>12, <2>1
  <2>7. QED
    BY <1>2, <2>1, <2>2, <2>3, <2>4, <2>5, <2>6 DEF Reusable
<1>13. ASSUME NEW x \in Orders \ (faulted' \cup overlapped'), order'[x].key \in Keys, keyRow'[order'[x].key] = {}
       PROVE  \E g \in Handlers : On(g, x)' /\ At(g, "save")'
  <2>1. CASE x = o
    <3>1. req[h].wants.kind # "checkout"
      BY <1>1, <1>5, <1>13, <2>1 DEF KeyInv
    <3>2. On(h, x)' /\ At(h, "save")'
      BY <1>7, <2>1, <3>1 DEF On, At
    <3>3. QED
      BY <3>2
  <2>2. CASE x # o
    <3>1. PICK g \in Handlers : On(g, x) /\ At(g, "save")
      BY <1>1, <1>2, <1>4, <1>5, <1>13, <2>2 DEF KeyInv
    <3>2. g # h
      BY <1>2, <3>1 DEF At
    <3>3. QED
      BY <1>7, <3>1, <3>2 DEF On, At
  <2>3. QED
    BY <2>1, <2>2
<1>14. ASSUME NEW k \in Keys, NEW saved \in keyRow[k], NEW x \in Orders \ (faulted \cup overlapped),
              order'[x].key = k, order'[x].environment = order'[saved].environment
       PROVE  x = saved
  <2>1. order'[saved] = order[saved] /\ saved \in Orders
    BY <1>8
  <2>2. CASE x = o
    <3>1. req[h].wants.key = k /\ req[h].wants.environment = order[saved].environment
      BY <1>5, <1>14, <2>1, <2>2
    <3>2. Reusable(k, req[h].wants.environment) = {}
      BY <1>1, <1>2, <1>14, <2>2, <3>1 DEF KeyInv
    <3>3. saved \in Reusable(k, req[h].wants.environment)
      BY <1>14, <2>1, <3>1, IntakeAssumption DEF Reusable
    <3>4. QED
      BY <3>2, <3>3
  <2>3. CASE x # o
    BY <1>1, <1>5, <1>14, <2>1, <2>3 DEF KeyInv, OneOrderPerKey
  <2>4. QED
    BY <2>2, <2>3
<1>15. OneOrderPerKey'
  BY <1>2, <1>4, <1>14 DEF OneOrderPerKey
<1>16. QED
  BY <1>10, <1>11, <1>12, <1>13, <1>15 DEF KeyInv

\* The row of a key is written once, for an order that no other one of the key
\* can follow unseen.
LEMMA SaveKeyKeys ==
    ASSUME IInv, NEW h \in Handlers, NEW o \in Orders, req[h].order = o, SaveKey(h)
    PROVE  KeyInv'
<1> DEFINE k == req[h].wants.key
<1>1. KeyInv
  BY DEF IInv
<1>2. /\ req[h].step = "save"
      /\ keyRow' = IF k = NoKey THEN keyRow ELSE [keyRow EXCEPT ![k] = SavedRow(k, o)]
      /\ answered' = answered \cup {o}
      /\ Return(h)
      /\ UNCHANGED <<order, tester, gateway, escrow, exists, books, audit, history>>
  BY DEF SaveKey, At
<1>3. TypeOK /\ OwnerKnows(h)
  BY <1>2, OwnFacts DEF OwnSteps
<1>4. order[o] = req[h].wants
  BY <1>2, <1>3 DEF OwnerKnows, OwnSteps
<1>5. UNCHANGED <<overlapped, faulted>>
  BY <1>2 DEF history
<1>6. Left(h)
  BY <1>2, <1>3, Leaves
<1>7. Only(h) /\ req'[h].wants.key \notin Keys /\ \A g \in Handlers \ {h} : req'[g] = req[g]
  BY <1>6, IdleSlot, IntakeAssumption DEF Left, Only
<1>8. k \in Keys \cup {NoKey}
  BY <1>3 DEF TypeOK, Requests, OrderTypes
<1>9. CASE k \notin Keys
  <2>1. keyRow' = keyRow
    BY <1>2, <1>8, <1>9
  <2>2. QED
    BY <1>2, <1>5, <1>7, <1>9, <2>1, KeysAside
<1>10. CASE k \in Keys
  <2>1. /\ keyRow'[k] = SavedRow(k, o)
        /\ \A i \in Keys \ {k} : keyRow'[i] = keyRow[i]
    BY <1>2, <1>3, <1>10, IntakeAssumption DEF TypeOK
  <2>2. ASSUME NEW i \in Keys, NEW saved \in keyRow'[i] PROVE order'[saved].key = i /\ saved \in answered'
    <3>1. CASE saved \in keyRow[i]
      BY <1>1, <1>2, <3>1 DEF KeyInv
    <3>2. CASE saved \notin keyRow[i]
      <4>1. i = k /\ saved = o
        BY <2>1, <2>2, <3>2 DEF SavedRow
      <4>2. QED
        BY <1>2, <1>4, <4>1
    <3>3. QED
      BY <3>1, <3>2
  <2>3. \A g \in Handlers : req'[g].wants.key \in Keys =>
            /\ req'[g].step \in {"keyed", "make", "save"}
            /\ req'[g].wants.kind # "checkout"
    BY <1>1, <1>7 DEF KeyInv
  <2>4. ASSUME NEW f \in Handlers, req'[f].wants.key \in Keys, req'[f].order \notin overlapped'
        PROVE  /\ \A g \in Handlers \ {f} : req'[g].wants.key # req'[f].wants.key
               /\ req'[f].step \in {"make", "save"} =>
                     Reusable(req[f].wants.key, req[f].wants.environment)' = {}
    <3>1. f # h /\ req'[f] = req[f] /\ req[f].order \notin overlapped
      BY <1>5, <1>7, <2>4
    <3>2. /\ \A g \in Handlers \ {f} : req[g].wants.key # req[f].wants.key
          /\ req[f].step \in {"make", "save"} => Reusable(req[f].wants.key, req[f].wants.environment) = {}
      BY <1>1, <2>4, <3>1 DEF KeyInv
    <3>3. req[f].wants.key # k
      BY <3>1, <3>2
    <3>4. keyRow'[req[f].wants.key] = keyRow[req[f].wants.key]
      BY <2>1, <2>4, <3>1, <3>3
    <3>5. Reusable(req[f].wants.key, req[f].wants.environment)'
              = {x \in Orders : /\ req'[f].wants.key # NoKey /\ x \in keyRow'[req'[f].wants.key]
                                /\ order'[x].environment = req'[f].wants.environment}
      BY DEF Reusable
    <3>6. Reusable(req[f].wants.key, req[f].wants.environment)'
              = Reusable(req[f].wants.key, req[f].wants.environment)
      BY <1>2, <3>1, <3>4, <3>5 DEF Reusable
    <3>7. QED
      BY <1>7, <2>4, <3>1, <3>2, <3>6
  <2>5. ASSUME NEW x \in Orders \ (faulted' \cup overlapped'), order'[x].key \in Keys, keyRow'[order'[x].key] = {}
        PROVE  \E g \in Handlers : On(g, x)' /\ At(g, "save")'
    <3>1. order[x].key # k /\ keyRow[order[x].key] = {}
      <4>1. order[x].key \in Keys /\ keyRow'[order[x].key] = {}
        BY <1>2, <2>5
      <4>2. SavedRow(k, o) # {}
        BY DEF SavedRow
      <4>3. order[x].key # k
        BY <2>1, <4>1, <4>2
      <4>4. QED
        BY <2>1, <4>1, <4>3
    <3>2. PICK g \in Handlers : On(g, x) /\ At(g, "save")
      BY <1>1, <1>2, <1>5, <2>5, <3>1 DEF KeyInv
    <3>3. g # h
      BY <1>4, <3>1, <3>2 DEF On
    <3>4. QED
      BY <1>7, <3>2, <3>3 DEF On, At
  <2>6. ASSUME NEW i \in Keys, NEW saved \in keyRow'[i], NEW x \in Orders \ (faulted \cup overlapped),
               order[x].key = i, order[x].environment = order[saved].environment
        PROVE  x = saved
    <3>1. CASE saved \in keyRow[i]
      BY <1>1, <2>6, <3>1 DEF KeyInv, OneOrderPerKey
    <3>2. CASE saved \notin keyRow[i]
      <4>1. i = k /\ saved = o /\ keyRow[k] = {}
        BY <2>1, <2>6, <3>2 DEF SavedRow
      <4>2. PICK g \in Handlers : On(g, x) /\ At(g, "save")
        BY <1>1, <1>10, <2>6, <4>1 DEF KeyInv
      <4>3. Knows(g) /\ req[g].order = x
        BY <4>2 DEF IInv, OrderInv, On
      <4>4. req[g].wants.key = k
        BY <2>6, <4>1, <4>2, <4>3 DEF Knows, OwnerKnows, OwnSteps, At
      <4>5. g = h
        BY <1>1, <1>10, <2>6, <4>3, <4>4 DEF KeyInv
      <4>6. QED
        BY <4>1, <4>3, <4>5
    <3>3. QED
      BY <3>1, <3>2
  <2>7. OneOrderPerKey'
    BY <1>2, <1>5, <2>6 DEF OneOrderPerKey
  <2>8. QED
    BY <2>2, <2>3, <2>4, <2>5, <2>7 DEF KeyInv
<1>11. QED
  BY <1>9, <1>10

\* Only four actions concern a key; the others are KeysAside or KeysStay.
LEMMA KeysKept ==
    ASSUME IInv, [Next]_vars
    PROVE  KeyInv'
<1>1. TypeOK /\ KeyInv
  BY DEF IInv
<1>2. \A h \in Handlers : req[h].order \in Orders /\ req[h].step \in Steps
  BY <1>1 DEF TypeOK, Requests
<1>3. ASSUME NEW h \in Handlers, Left(h) PROVE req'[h].wants.key \notin Keys
  BY <1>3, IdleSlot, IntakeAssumption DEF Left
<1>4. ASSUME NEW h \in Handlers, req[h].step \notin {"keyed", "make", "save"},
             CreateOrder(h) \/ HandleEvent(h) \/ Fail(h)
      PROVE  Only(h) /\ req'[h].wants.key \notin Keys
  <2>1. req[h].wants.key \notin Keys
    BY <1>1, <1>4 DEF KeyInv
  <2>2. Only(h) /\ (Left(h) \/ \E step \in Steps : Moved(h, step))
    BY <1>4, SlotKept
  <2>3. QED
    BY <1>3, <2>1, <2>2 DEF Moved
<1>5. ASSUME NEW h \in Handlers, Start(h) PROVE KeyInv'
  <2>1. CASE req'[h].wants.key = NoKey /\ ~\E o \in Orders, k \in Keys \cup {NoKey}, kind \in {"task", "goods"} :
                                               BeginCreateOrder(h, o, k, kind)
    <3>1. /\ UNCHANGED <<order, answered, keyRow, faulted>> /\ overlapped \subseteq overlapped'
          /\ At(h, "idle")
      BY <1>5, <2>1 DEF Start, BeginCheckout, BeginVerify, BeginWebhook, BeginEvent, intake, history
    <3>2. Only(h) /\ req'[h].wants.key \notin Keys
      BY <1>5, <2>1, StartFillsSlot, IntakeAssumption
    <3>3. QED
      BY <3>1, <3>2, KeysAside DEF At
  <2>2. CASE \E o \in Orders, k \in Keys \cup {NoKey}, kind \in {"task", "goods"} : BeginCreateOrder(h, o, k, kind)
    BY <2>2, BeginCreateOrderKeys
  <2>3. QED
    BY <1>5, <2>1, <2>2, StartFillsSlot
<1>6. ASSUME NEW h \in Handlers, CreateOrder(h) PROVE KeyInv'
  <2>1. CASE ReserveCoupon(h) \/ InsertEscrow(h) \/ ConfirmFree(h)
    <3>1. /\ UNCHANGED <<order, keyRow, overlapped, faulted>> /\ answered \subseteq answered'
          /\ req[h].step \notin {"keyed", "make", "save"}
      BY <2>1 DEF ReserveCoupon, InsertEscrow, ConfirmFree, At, intake, history
    <3>2. QED
      BY <1>4, <1>6, <3>1, KeysAside DEF At
  <2>2. CASE MakeOrder(h) \/ FindKeyedOrder(h) \/ SaveKey(h)
    BY <1>2, <2>2, MakeOrderKeys, FindKeyedOrderKeys, SaveKeyKeys
  <2>3. QED
    BY <1>6, <2>1, <2>2 DEF CreateOrder
<1>7. ASSUME NEW h \in Handlers, HandleEvent(h) PROVE KeyInv'
  <2>1. /\ UNCHANGED <<order, answered, keyRow, overlapped, faulted>>
        /\ req[h].step \notin {"keyed", "make", "save"}
    BY <1>7 DEF HandleEvent, Deduplicate, LogReceived, FindEscrow, Recover, ApplyEvent, ReleaseCoupon,
       RecordTransaction, ConfirmCoupon, BookCapture, NotifyBooking, Reconfirm, MarkProcessed, At, intake, history
  <2>2. QED
    BY <1>4, <1>7, <2>1, KeysAside DEF At
<1>8. ASSUME NEW h \in Handlers, Fail(h) PROVE KeyInv'
  <2>1. CASE OrderRejected(h) \/ InsertFails(h) \/ SaveFails(h) \/ Crash(h)
    <3>1. /\ UNCHANGED <<order, keyRow, overlapped>> /\ answered \subseteq answered' /\ faulted \subseteq faulted'
          /\ Return(h) /\ At(h, "save") => req[h].order \in faulted'
      BY <2>1 DEF OrderRejected, InsertFails, SaveFails, Crash, Fault, At, intake, history
    <3>2. Left(h)
      BY <1>1, <2>1, Leaves DEF OrderRejected, InsertFails, SaveFails, Crash
    <3>3. At(h, "save") => req[h].order \in faulted'
      BY <2>1 DEF OrderRejected, InsertFails, SaveFails, Crash, Fault, At
    <3>4. Only(h) /\ req'[h].wants.key \notin Keys
      BY <1>3, <3>2 DEF Left
    <3>5. QED
      BY <3>1, <3>3, <3>4, KeysAside
  <2>2. CASE DbError(h) \/ LostCall(h)
    <3>1. /\ UNCHANGED <<order, answered, keyRow, overlapped>> /\ faulted \subseteq faulted'
          /\ req[h].step \notin {"keyed", "make", "save"}
      BY <2>2 DEF DbError, LostCall, Fault, At, intake
    <3>2. QED
      BY <1>4, <1>8, <3>1, KeysAside DEF At
  <2>3. QED
    BY <1>8, <2>1, <2>2 DEF Fail
<1>9. ASSUME NEW p \in Payments, Capture(p) \/ \E o \in Orders : Attempt(p, o) PROVE KeyInv'
  <2>1. UNCHANGED <<order, answered, keyRow, req, history>>
    BY <1>9 DEF Capture, Attempt, GatewayMoves, intake
  <2>2. QED
    BY <2>1, KeysStay
<1>10. CASE SwitchEnvironment
  BY <1>10, KeysStay DEF SwitchEnvironment
<1>11. CASE UNCHANGED vars
  BY <1>11, KeysStay DEF vars, intake
<1>12. QED
  BY <1>5, <1>6, <1>7, <1>8, <1>9, <1>10, <1>11 DEF Next

-----------------------------------------------------------------------------
(* The invariant and what follows from it                                  *)

\* At first no order is made, no slot is busy and no key has a row.
LEMMA InitIInv == Init => IInv
<1> SUFFICES ASSUME Init PROVE IInv
  OBVIOUS
<1>1. TypeOK
  BY IdleSlot DEF Init, TypeOK, NoOrder, NoRow, OrderTypes, Kinds, Environments, EscrowRows, EscrowStatuses,
     PaymentStatuses, GatewayStates
<1>2. ASSUME NEW o \in Orders PROVE OrderInv(o)
  <2>1. \A h \in Handlers : ~On(h, o) /\ ~Working(h, o)
    BY IdleSlot DEF Init, On, Working, EventSteps
  <2>2. ~Paid(o) /\ RowInv(o)
    BY <1>2 DEF Init, Paid, RowInv, NoRow
  <2>3. PaymentInv(o) /\ ProcessedInv(o)
    BY DEF Init, PaymentInv, ProcessedInv, Events
  <2>4. QED
    BY <2>1, <2>2, <2>3 DEF OrderInv, ShareInv, BookedInv, AloneInv, FollowInv
<1>3. KeyInv
  <2>1. \A h \in Handlers : req[h].wants.key \notin Keys
    BY IdleSlot, IntakeAssumption DEF Init
  <2>2. \A o \in Orders : order[o].key \notin Keys
    BY IntakeAssumption DEF Init, NoOrder
  <2>3. \A k \in Keys : keyRow[k] = {}
    BY DEF Init
  <2>4. QED
    BY <2>1, <2>2, <2>3 DEF KeyInv, OneOrderPerKey
<1>4. QED
  BY <1>1, <1>2, <1>3 DEF IInv

\* Every step keeps the invariant, also the steps that change nothing.
LEMMA NextIInv == IInv /\ [Next]_vars => IInv'
BY OrdersKept, TypesKept, KeysKept DEF IInv

\* The inductive invariant holds in every behaviour.
LEMMA Inductive == Spec => []IInv
<1>1. Init => IInv
  BY InitIInv
<1>2. IInv /\ [Next]_vars => IInv'
  BY NextIInv
<1>3. QED
  BY <1>1, <1>2, PTL DEF Spec

\* The types, one order per key and environment, and coupons used up only by
\* paid orders, whatever requests, events and faults interleave (createEscrow,
\* create-order, updateEscrowOnPaymentCapture).
THEOREM IntakeCorrect == Spec => []IntakeInv
<1>1. IInv => IntakeInv
  BY DEF IInv, KeyInv, OrderInv, RowInv, IntakeInv, CouponUsedByPaidOrder
<1>2. QED
  BY <1>1, Inductive, PTL

\* A capture enters the ledger once and never without its row, and no capture
\* without a fault is left out of the ledger or untold to task-service, however
\* many reports of it race (updateEscrowOnPaymentCapture).
THEOREM BookedOnce == Spec => []BookedExactlyOnce
<1>1. ASSUME IInv PROVE BookedExactlyOnce
  <2>1. CaptureBookedOnce
    BY <1>1 DEF IInv, OrderInv, RowInv, CaptureBookedOnce
  <2>2. CaptureBooked
    <3>1. SUFFICES ASSUME NEW o \in Orders, Undisturbed(o), Paid(o), ~order[o].free
                   PROVE  ledger[o] = 1 /\ o \in booked
      BY DEF CaptureBooked
    <3>2. OrderInv(o)
      BY <1>1 DEF IInv
    <3>3. \A h \in Handlers : On(h, o) /\ Booking(h) => Working(h, o)
      BY DEF On, Booking, Working, EventSteps
    <3>4. QED
      BY <3>1, <3>2, <3>3 DEF OrderInv, BookedInv, Undisturbed, Quiet
  <2>3. QED
    BY <2>1, <2>2 DEF BookedExactlyOnce
<1>2. QED
  BY <1>1, Inductive, PTL

\* Reports handled one after the other leave the coupon used and the
\* Transaction row captured, in any order and any number of times
\* (updateEscrowOnPaymentCapture's follow-ups).
THEOREM CapturesFollowedUp == Spec => []FollowedUp
<1>1. ASSUME IInv PROVE FollowedUp
  <2>1. SUFFICES ASSUME NEW o \in Orders, Undisturbed(o), o \notin overlapped, Paid(o), ~order[o].free
                 PROVE  /\ order[o].coupon => coupon[o] = "confirmed"
                        /\ txn[escrow[o].paymentId] = "captured"
    BY DEF FollowedUp
  <2>2. FollowInv(o)
    BY <1>1, <2>1 DEF IInv, OrderInv, AloneInv
  <2>3. \A h \in Handlers : ~(On(h, o) /\ (At(h, "record") \/ At(h, "confirm")))
    BY <2>1 DEF Undisturbed, Quiet, Working, On, At, EventSteps
  <2>4. QED
    BY <2>1, <2>2, <2>3 DEF FollowInv, Undisturbed
<1>2. QED
  BY <1>1, Inductive, PTL

\* A capture the event log calls processed holds the money of its order, when
\* the order's events did not overlap and nothing failed (the webhook handler
\* and its AuditLog rows).
THEOREM ProcessedApplied == Spec => []ProcessedIsApplied
<1>1. ASSUME IInv PROVE ProcessedIsApplied
  <2>1. SUFFICES ASSUME NEW p \in Payments, "captured" \in Subscribed,
                        audit[<<"captured", p>>] = "processed", Undisturbed(gateway[p].order),
                        gateway[p].order \notin overlapped, HasEscrow(gateway[p].order)
                 PROVE  Paid(gateway[p].order)
    BY DEF ProcessedIsApplied
  <2>2. gateway[p].order \in Orders
    BY <1>1 DEF IInv, TypeOK
  <2>3. ProcessedInv(gateway[p].order)
    BY <1>1, <2>1, <2>2 DEF IInv, OrderInv, AloneInv
  <2>4. QED
    BY <2>1, <2>3 DEF ProcessedInv, Undisturbed
<1>2. QED
  BY <1>1, Inductive, PTL
=============================================================================
