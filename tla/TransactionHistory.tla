------------------------- MODULE TransactionHistory -------------------------
(***************************************************************************)
(* The transactions a poster or a helper is shown                          *)
(* (transactionHistoryService): the tables change while a request reads    *)
(* them query by query, and each payout, refund and payment is collected   *)
(* along more than one path.  Earnings_proofs reads this module together   *)
(* with Earnings, so no name of one is a name of the other.                *)
(***************************************************************************)
EXTENDS Integers, Sequences, FiniteSets, Functions

CONSTANTS
  Escrows, HelperPayouts, Refunds,  \* rows that may come to be
  Task,         \* [Escrows -> task]
  Lines,        \* [Escrows -> Nat], services of a Book Now booking, 0 for other escrows
  EscrowAmount, \* [Escrows -> Nat], rupees
  EscrowOf,     \* [HelperPayouts -> Escrows \cup {"none"}], "none": paid without an escrow
  Fee,          \* fee a cancelling poster pays, all of it to the helper
  Prepaid,      \* sequence of the escrows paid so far
  Requests,     \* the requests made: [user, type, status, category, offset, limit]
  MaxTime       \* bound: changes of the tables

\* A task with a Book Now booking has no other payment.
ASSUME BookingsAlone == \A e, f \in Escrows: Lines[e] > 0 /\ Task[e] = Task[f] => e = f

\* Every row has an id of its own.
ASSUME IdsApart ==
  /\ IsFiniteSet(Escrows) /\ IsFiniteSet(HelperPayouts) /\ IsFiniteSet(Refunds)
  /\ Escrows \cap HelperPayouts = {} /\ Escrows \cap Refunds = {} /\ HelperPayouts \cap Refunds = {}
  /\ {"none", "penalty"} \cap (Escrows \cup HelperPayouts \cup Refunds) = {}

\* No fee is more than what it is taken from; offset and limit are in range.
ASSUME InputsTyped ==
  /\ Lines \in [Escrows -> Nat] /\ EscrowAmount \in [Escrows -> Nat] /\ Fee \in Nat
  /\ \A e \in Escrows:
       Fee <= EscrowAmount[e] /\ (Lines[e] > 0 => Fee <= EscrowAmount[e] \div Lines[e])
  /\ EscrowOf \in [HelperPayouts -> Escrows \cup {"none"}]
  /\ Prepaid \in Seq(Escrows) /\ MaxTime \in Nat /\ Len(Prepaid) <= MaxTime
  /\ \A q \in Requests:
       q.user \in {"poster", "helper"} /\ q.offset \in Nat /\ q.limit \in 1 .. 100

VARIABLES
  clock,   \* changes so far
  escrow,  \* [Escrows -> row]
  payout,  \* [HelperPayouts -> row]
  refund,  \* [Refunds -> row]
  unseen,  \* the payouts before their partnerVisibleAt
  owed,    \* when the helper's pending cancellation penalty was made, 0: none
  req,     \* the request under way
  changed  \* history: what changed since that request began

historyVars == <<clock, escrow, payout, refund, unseen, owed, req, changed>>
historyTables == <<clock, escrow, payout, refund, unseen, owed>>

None == [status |-> "none"]
NoRequest == [step |-> "idle"]
IsMade(row) == row # None
SUCCESSFUL_ESCROW_PAYMENT_STATUSES == {"held", "released", "refunded"}
SUCCESSFUL_PAYOUT_STATUSES == {"completed", "released"}

RefundsOf(e) == {r \in Refunds: IsMade(refund[r]) /\ refund[r].of = e}
LineRefundsOf(e) == {r \in RefundsOf(e): ~refund[r].whole}
LineAmount(e) == IF Lines[e] = 0 THEN EscrowAmount[e] ELSE EscrowAmount[e] \div Lines[e]

HistoryInit ==
  /\ clock = Len(Prepaid)
  /\ escrow = [e \in Escrows |->
       IF \E i \in DOMAIN Prepaid: Prepaid[i] = e
       THEN LET at == CHOOSE i \in DOMAIN Prepaid: Prepaid[i] = e
            IN [status |-> "held", at |-> at, paid |-> at]
       ELSE None]
  /\ payout = [p \in HelperPayouts |-> None]
  /\ refund = [r \in Refunds |-> None]
  /\ unseen = {} /\ owed = 0
  /\ req = NoRequest /\ changed = {}

-----------------------------------------------------------------------------
(* The tables change.                                                      *)

Tick == clock < MaxTime /\ clock' = clock + 1
Notes(ids) == req' = req /\ changed' = IF req = NoRequest THEN {} ELSE changed \cup ids

Order(e) ==
  /\ Tick /\ escrow[e] = None
  /\ escrow' = [escrow EXCEPT ![e] = [status |-> "pending", at |-> clock', paid |-> 0]]
  /\ Notes({e}) /\ UNCHANGED <<payout, refund, unseen, owed>>

Capture(e) ==
  /\ Tick /\ escrow[e].status = "pending"
  /\ escrow' = [escrow EXCEPT ![e].status = "held", ![e].paid = clock']
  /\ Notes({e}) /\ UNCHANGED <<payout, refund, unseen, owed>>

\* The write does not look at the status again (cancellationService); a capture or
\* a refund that runs between its reading and its write is EscrowLifecycle's.
Cancel(e) ==
  /\ Tick /\ escrow[e].status = "pending"
  /\ escrow' = [escrow EXCEPT ![e].status = "cancelled"]
  /\ Notes({e}) /\ UNCHANGED <<payout, refund, unseen, owed>>

RefundRow(e, whole, fee) ==
  [status |-> "completed", of |-> e, whole |-> whole, at |-> clock', fee |-> fee,
   amount |-> (IF whole THEN EscrowAmount[e] ELSE LineAmount(e)) - fee]

\* A whole payment is refunded once, and not after one of its lines.
RefundWhole(r, e, fee) ==
  /\ Tick /\ escrow[e].status = "held" /\ refund[r] = None
  /\ \A x \in RefundsOf(e): refund[x].status = "failed"
  /\ refund' = [refund EXCEPT ![r] = RefundRow(e, TRUE, fee)]
  /\ escrow' = [escrow EXCEPT ![e].status = "refunded"]
  /\ Notes({r, e}) /\ UNCHANGED <<payout, unseen, owed>>

\* With its last line a booking is refunded.
RefundLine(r, e, fee) ==
  /\ Tick /\ escrow[e].status = "held" /\ refund[r] = None
  /\ Cardinality(LineRefundsOf(e)) < Lines[e]
  /\ refund' = [refund EXCEPT ![r] = RefundRow(e, FALSE, fee)]
  /\ escrow' = IF Cardinality(LineRefundsOf(e)) + 1 = Lines[e]
               THEN [escrow EXCEPT ![e].status = "refunded"] ELSE escrow
  /\ Notes({r, e}) /\ UNCHANGED <<payout, unseen, owed>>

\* The gateway reports later that it could not return the money.
RefundFails(r) ==
  /\ Tick /\ refund[r].status = "completed"
  /\ refund' = [refund EXCEPT ![r].status = "failed"]
  /\ Notes({r}) /\ UNCHANGED <<escrow, payout, unseen, owed>>

\* The escrow of a Book Now booking.
Booked(e) == e # "none" /\ Lines[e] > 0

\* A payout takes the helper's penalty with it; one of a Book Now booking is
\* hidden at first.
Pay(p, s) ==
  LET e == EscrowOf[p] IN
  /\ Tick /\ payout[p] = None
  /\ e # "none" => escrow[e].status = "held"
  /\ payout' = [payout EXCEPT ![p] =
       [status |-> s, at |-> clock', done |-> IF s = "completed" THEN clock' ELSE 0]]
  /\ escrow' = IF e = "none" THEN escrow ELSE [escrow EXCEPT ![e].status = "released"]
  /\ unseen' = IF Booked(e) THEN unseen \cup {p} ELSE unseen
  /\ owed' = 0
  /\ Notes({p, e, "penalty"}) /\ UNCHANGED refund

\* An operator, the provider or a resumed task moves a payout.  The hold for an
\* issue of a booking ends its window, and the resumed payout has a fresh one.
MovesPayout(p, s) ==
  /\ Tick /\ IsMade(payout[p]) /\ payout[p].status # s
  /\ payout' = [payout EXCEPT ![p].status = s,
                   ![p].done = IF s = "completed" /\ @ = 0 THEN clock' ELSE @]
  /\ \/ unseen' = unseen
     \/ Booked(EscrowOf[p]) /\ s = "held" /\ unseen' = unseen \ {p}
     \/ Booked(EscrowOf[p]) /\ payout[p].status = "held" /\ s = "processing" /\ unseen' = unseen \cup {p}
  /\ Notes({p}) /\ UNCHANGED <<escrow, refund, owed>>

BecomesVisible(p) ==
  /\ Tick /\ p \in unseen
  /\ unseen' = unseen \ {p}
  /\ Notes({p}) /\ UNCHANGED <<escrow, payout, refund, owed>>

Penalize ==
  /\ Tick /\ owed = 0
  /\ owed' = clock'
  /\ Notes({"penalty"}) /\ UNCHANGED <<escrow, payout, refund, unseen>>

-----------------------------------------------------------------------------
(* Rows of the answer.                                                     *)

Wants(q, types) == q.type = "any" \/ q.type \in types
HasStatus(q, s) == q.status = "any" \/ q.status = s

\* A query takes more rows than fit the page, the newest.
fetchLimit(q) == IF q.limit > 30 THEN q.limit + 20 ELSE 50
Newest(S, table, skip, take) ==
  {x \in S: Cardinality({y \in S: table[y].at > table[x].at}) \in skip .. (skip + take - 1)}
\* Wrong on purpose: a payout not yet completed has no date.
DoneOr_Completion(p) == payout[p].done

DoneOr(p) == IF payout[p].done > 0 THEN payout[p].done ELSE payout[p].at

\* One row per paid escrow, with what its completed refunds returned.
SumAmount(S) == SumFunction([r \in S |-> refund[r].amount])
RefundedAmount(q, e) ==
  SumAmount({r \in RefundsOf(e): refund[r].status = "completed" /\ HasStatus(q, "completed")})
PosterPaymentRow(q, e) ==
  [id |-> e, type |-> "escrow", status |-> escrow[e].status, category |-> "payments",
   amount |-> EscrowAmount[e], refunded |-> RefundedAmount(q, e), via |-> "escrow",
   date |-> IF escrow[e].paid > 0 THEN escrow[e].paid ELSE escrow[e].at]

PayoutRow(p, date, via) ==
  [id |-> p, type |-> "payout", status |-> payout[p].status, category |-> "earnings",
   amount |-> 1, refunded |-> 0, via |-> via, date |-> date]

RefundRowFor(r, via) ==
  [id |-> r, type |-> "refund", status |-> refund[r].status, category |-> "payments",
   amount |-> refund[r].amount, refunded |-> 0, via |-> via, date |-> refund[r].at]
CompensationRow(r) ==
  [id |-> r, type |-> "compensation", status |-> refund[r].status, category |-> "earnings",
   amount |-> refund[r].fee, refunded |-> 0, via |-> "escrow", date |-> refund[r].at]

isLineItem(r) ==
  LET e == refund[r].of IN
  Lines[e] > 0 /\ (\/ ~refund[r].whole
                   \/ /\ Lines[e] > 1 /\ refund[r].fee > 0 /\ refund[r].amount > 0
                      /\ refund[r].amount + refund[r].fee < EscrowAmount[e])
\* Wrong on purpose: the condition turned around.
shouldEmitPosterRefundAsStandalone_LinesOnly(r) == isLineItem(r)

\* Lines of a booking of several services are shown with its payment only.
shouldEmitPosterRefundAsStandalone(r) == isLineItem(r) => Lines[refund[r].of] < 2

\* Wrong on purpose: held payouts are shown.
Visible_Held(rows) == {x \in rows: x.type = "payout" => x.id \notin unseen}

\* Held payouts and those of a running window are left out.
Visible(rows) ==
  {x \in rows: x.type = "payout" => x.status # "held" /\ x.id \notin unseen}

\* What the query for escrows, their payouts and refunds yields.
Matching(q) == {e \in Escrows: IsMade(escrow[e]) /\ HasStatus(q, escrow[e].status)}
Fetched(q) == Newest(Matching(q), escrow, q.offset, fetchLimit(q))
EscrowRows(q) ==
  LET fetched == Fetched(q)
      refunds == {r \in Refunds: /\ IsMade(refund[r]) /\ refund[r].of \in fetched
                                 /\ HasStatus(q, refund[r].status)}
      payments == {e \in fetched: q.status # "any" \/ escrow[e].status \in SUCCESSFUL_ESCROW_PAYMENT_STATUSES}
      payouts == {p \in HelperPayouts: IsMade(payout[p]) /\ EscrowOf[p] \in fetched}
  IN IF q.user = "poster"
     THEN {PosterPaymentRow(q, e): e \in {f \in payments: Wants(q, {"payment", "escrow"})}}
            \cup {RefundRowFor(r, "escrow"): r \in {x \in refunds:
                    Wants(q, {"refund", "compensation"}) /\ shouldEmitPosterRefundAsStandalone(x)}}
     ELSE {PayoutRow(p, DoneOr(p), "escrow"): p \in {x \in payouts: Wants(q, {"payout"})}}
            \cup {CompensationRow(r): r \in {x \in refunds:
                    Wants(q, {"refund", "compensation"}) /\ refund[x].fee > 0}}

\* Wrong on purpose: payouts with an escrow are left to the query for escrows.
PerformerPayoutRows_Direct(q) ==
  IF q.user = "poster" \/ ~Wants(q, {"payout"}) THEN {}
  ELSE {PayoutRow(p, payout[p].at, "payouts"): p \in {x \in HelperPayouts:
          IsMade(payout[x]) /\ HasStatus(q, payout[x].status) /\ EscrowOf[x] = "none"}}

\* The helper's payouts on their own, whatever their escrow.
PerformerPayoutRows(q) ==
  IF q.user = "poster" \/ ~Wants(q, {"payout"}) THEN {}
  ELSE {PayoutRow(p, payout[p].at, "payouts"):
          p \in Newest({x \in HelperPayouts: IsMade(payout[x]) /\ HasStatus(q, payout[x].status)},
                       payout, 0, fetchLimit(q))}

\* Wrong on purpose: those there already are not left out.
PosterRefundRows_All(q, rows) ==
  IF q.user = "helper" \/ ~Wants(q, {"refund"}) THEN {}
  ELSE {RefundRowFor(r, "refunds"): r \in {x \in Refunds:
          IsMade(refund[x]) /\ HasStatus(q, refund[x].status) /\ shouldEmitPosterRefundAsStandalone(x)}}
\* The poster's refunds on their own, but for those there already.
PosterRefundRows(q, rows) ==
  IF q.user = "helper" \/ ~Wants(q, {"refund"}) THEN {}
  ELSE {RefundRowFor(r, "refunds"):
          r \in {x \in Newest({y \in Refunds: IsMade(refund[y]) /\ HasStatus(q, refund[y].status)},
                              refund, 0, fetchLimit(q)):
                   /\ shouldEmitPosterRefundAsStandalone(x)
                   /\ \A row \in rows: row.type = "refund" => row.id # x}}

PenaltyRows(q) ==
  IF q.user = "poster" \/ ~Wants(q, {"cancellation_penalty"}) \/ owed = 0 THEN {}
  ELSE {[id |-> "penalty", type |-> "cancellation_penalty", status |-> "pending",
         category |-> "payments", amount |-> 1, refunded |-> 0, via |-> "penalties", date |-> owed]}

\* The payouts no escrow has brought.
GapFill(rows, more) ==
  {x \in Visible(more): \A row \in rows: row.type = "payout" => row.id # x.id}

\* Of several payments for one task the furthest is kept, then the newest.
rankStatus(s) ==
  CASE s = "released" -> 5 [] s = "held" -> 4 [] s = "refunded" -> 3
    [] s = "pending" -> 2 [] s = "cancelled" -> 0 [] OTHER -> 1
Precedes(x, y) ==
  \/ rankStatus(x.status) > rankStatus(y.status)
  \/ rankStatus(x.status) = rankStatus(y.status) /\ x.date > y.date
dedupePosterEscrowPaymentRows(rows) ==
  {x \in rows: x.type = "escrow" =>
     \A y \in rows: y.type = "escrow" /\ Task[y.id] = Task[x.id] => ~Precedes(y, x)}

Filtered(q, rows) ==
  {x \in rows: /\ q.category \in {"all", x.category}
               /\ q.type \in {"any", x.type} /\ HasStatus(q, x.status)}
\* Sorted by date, newest first: every change has a moment of its own.
Page(q, rows) ==
  {x \in rows: Cardinality({y \in rows: y.date > x.date}) \in q.offset .. (q.offset + q.limit - 1)}

-----------------------------------------------------------------------------
(* A request, one query after the other.                                   *)

BeginTransactions(q) ==
  /\ req = NoRequest
  /\ req' = [step |-> "payouts", q |-> q, rows |-> EscrowRows(q)]
  /\ changed' = {} /\ UNCHANGED historyTables

ReadPerformerPayouts ==
  /\ req.step = "payouts"
  /\ req' = [step |-> "refunds", q |-> req.q, rows |-> Visible(req.rows),
             more |-> PerformerPayoutRows(req.q)]
  /\ UNCHANGED <<historyTables, changed>>

ReadPosterRefunds ==
  /\ req.step = "refunds"
  /\ req' = [step |-> "penalties", q |-> req.q, more |-> req.more,
             rows |-> req.rows \cup PosterRefundRows(req.q, req.rows)]
  /\ UNCHANGED <<historyTables, changed>>

\* The queries for refunds and penalties may fail: the history goes without.
SkipPosterRefunds ==
  /\ req.step = "refunds"
  /\ req' = [step |-> "penalties", q |-> req.q, more |-> req.more, rows |-> req.rows]
  /\ UNCHANGED <<historyTables, changed>>

AnswerTransactions ==
  /\ req.step = "penalties"
  /\ LET q == req.q
         rows == req.rows \cup PenaltyRows(q) \cup GapFill(req.rows, req.more)
         kept == Filtered(q, dedupePosterEscrowPaymentRows(rows))
     IN req' = [step |-> "answered", q |-> q, page |-> Page(q, kept), total |-> Cardinality(kept)]
  /\ UNCHANGED <<historyTables, changed>>

Received == req.step = "answered" /\ req' = NoRequest /\ changed' = {} /\ UNCHANGED historyTables

-----------------------------------------------------------------------------
(* The totals beside the list.                                             *)

Paid == {e \in Escrows: escrow[e].status \in SUCCESSFUL_ESCROW_PAYMENT_STATUSES}
\* Of several payments for one task the newest counts.
totalPayments ==
  LET newest == {e \in Paid: \A f \in Paid: Task[f] = Task[e] => escrow[f].at <= escrow[e].at}
  IN SumFunction([e \in newest |-> EscrowAmount[e]])
CompletedRefunds == {r \in Refunds: refund[r].status = "completed"}
totalRefunds == SumAmount(CompletedRefunds)
totalCompensation == SumFunction([r \in CompletedRefunds |-> refund[r].fee])
\* Wrong on purpose: a running window is not looked at.
totalPayouts_Hidden ==
  Cardinality({p \in HelperPayouts: payout[p].status \in SUCCESSFUL_PAYOUT_STATUSES})

totalPayouts ==
  Cardinality({p \in HelperPayouts: payout[p].status \in SUCCESSFUL_PAYOUT_STATUSES /\ p \notin unseen})
totalSpent == IF totalPayments > totalRefunds THEN totalPayments - totalRefunds ELSE 0

-----------------------------------------------------------------------------
HistoryNext ==
  \/ \E e \in Escrows: Order(e) \/ Capture(e) \/ Cancel(e)
  \/ \E r \in Refunds, e \in Escrows, fee \in {0, Fee}: RefundWhole(r, e, fee) \/ RefundLine(r, e, fee)
  \/ \E r \in Refunds: RefundFails(r)
  \/ \E p \in HelperPayouts, s \in {"processing", "completed"}: Pay(p, s)
  \/ \E p \in HelperPayouts, s \in {"processing", "completed", "held"}: MovesPayout(p, s)
  \/ \E p \in HelperPayouts: BecomesVisible(p)
  \/ Penalize
  \/ \E q \in Requests: BeginTransactions(q)
  \/ ReadPerformerPayouts \/ ReadPosterRefunds \/ SkipPosterRefunds
  \/ AnswerTransactions \/ Received
HistorySpec == HistoryInit /\ [][HistoryNext]_historyVars

-----------------------------------------------------------------------------
(* Properties.                                                             *)

Answered == req.step = "answered"

HistoryTypeOK ==
  /\ clock \in 0 .. MaxTime /\ owed \in 0 .. MaxTime /\ unseen \subseteq HelperPayouts
  /\ \A e \in Escrows: IsMade(escrow[e]) =>
       escrow[e].status \in {"pending", "held", "released", "refunded", "cancelled"}
  /\ \A p \in HelperPayouts: IsMade(payout[p]) => payout[p].status \in {"processing", "completed", "held"}
  /\ \A r \in Refunds: IsMade(refund[r]) =>
       refund[r].status \in {"completed", "failed"} /\ refund[r].amount >= 0
  /\ Answered => \A x \in req.page: x.amount >= 0 /\ x.date \in 1 .. clock

\* No payment, payout or refund is in one answer twice, whatever moved between
\* the queries that each may find it (rows of two queries differ in via).
NoRowTwice == Answered => \A x, y \in req.page: x.id = y.id => x = y

\* "Raise-issue / ops hold -- not shown on partner Payments until resumed", and
\* a running Book Now window hides: neither shows a payout in any answer.
HeldBackNotShown ==
  Answered => \A p \in HelperPayouts \ changed:
    IsMade(payout[p]) /\ (payout[p].status = "held" \/ p \in unseen) => \A x \in req.page: x.id # p

\* A payout of the helper that was there, visible and fit for the request all
\* along is in the answer, through its escrow or on its own, when the answer
\* is all on its first page and one query takes all payouts.
OnePage == req.q.offset = 0 /\ req.total <= req.q.limit
AllFetched(q) == Cardinality({p \in HelperPayouts: IsMade(payout[p])}) <= fetchLimit(q)
PayoutsNotMissed ==
  (Answered /\ req.q.user = "helper" /\ req.q.type \in {"any", "payout"}
     /\ req.q.category \in {"all", "earnings"} /\ OnePage /\ AllFetched(req.q)) =>
    \A p \in HelperPayouts \ changed:
      (IsMade(payout[p]) /\ payout[p].status # "held" /\ p \notin unseen
         /\ HasStatus(req.q, payout[p].status)) => \E x \in req.page: x.id = p

OnePaymentPerTask == \A e, f \in Paid: Task[e] = Task[f] => e = f
FullRequest(user) ==
  [user |-> user, type |-> "any", status |-> "any", category |-> "all", offset |-> 0, limit |-> 100]
FullList(user) ==
  LET q == FullRequest(user)
      rows == Visible(EscrowRows(q))
      all == rows \cup PosterRefundRows(q, rows)
  IN dedupePosterEscrowPaymentRows(all \cup GapFill(all, PerformerPayoutRows(q)))
\* One query takes all escrows, and one all payouts.
ListsAll ==
  \A user \in {"poster", "helper"}:
    LET q == FullRequest(user) IN AllFetched(q) /\ Cardinality(Matching(q)) <= fetchLimit(q)
Total(rows) == SumFunction([x \in rows |-> x.amount])
CompletedOf(rows, type) == {x \in rows: x.type = type /\ x.status = "completed"}

\* (Requests change no table, so this and the next look at the tables between
\* requests.)  The totals are those of the listed rows, unless a task was paid
\* twice or there are more rows than are listed; what the list says was returned
\* is what was, line by line.
TotalsMatchList ==
  LET poster == FullList("poster") helper == FullList("helper")
      payments == {x \in poster: x.type = "escrow"}
  IN req = NoRequest /\ ListsAll /\ OnePaymentPerTask =>
     /\ totalPayments = Total(payments)
     /\ totalRefunds = SumFunction([x \in payments |-> x.refunded])
     /\ totalSpent = totalPayments - totalRefunds
     /\ totalPayouts = Total(CompletedOf(helper, "payout"))
     /\ totalCompensation = Total(CompletedOf(helper, "compensation"))

\* A completed refund is in a row of its own or in what its payment shows as
\* returned: the poster sees each, also the one of a payment that a later
\* payment for the task has pushed out of the list.
RefundsVisible ==
  LET poster == FullList("poster")
      alone == {x.id: x \in {y \in poster: y.type = "refund"}}
      Rest(e) == {r \in CompletedRefunds \ alone: refund[r].of = e}
  IN req = NoRequest /\ ListsAll =>
       \A e \in Escrows: Rest(e) # {} =>
         \E x \in poster: x.type = "escrow" /\ x.id = e /\ x.refunded >= SumAmount(Rest(e))

\* Every answer is a list of well-formed rows, none of them twice.
HistoryInv == HistoryTypeOK /\ NoRowTwice

\* A helper's answer has the payouts it should and no other.
PayoutsShown == HeldBackNotShown /\ PayoutsNotMissed

\* The summary and the list, computed along different paths, tell one story.
SummaryAgrees == TotalsMatchList /\ RefundsVisible
=============================================================================
