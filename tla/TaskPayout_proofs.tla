------------------------- MODULE TaskPayout_proofs -------------------------
(***************************************************************************)
(* Proofs about TaskPayout, for any tasks (with and without an escrow),    *)
(* payouts, handlers, penalties and amounts, and any combination of modes, *)
(* operations and faults, and about Bookings, for any percentages up to    *)
(* 100%, services, prices, categories, offers, moments and refund calls.   *)
(*                                                                         *)
(*   PayoutTypeCorrect   Spec => []TypeOK                                  *)
(*   ClaimedFirst        Spec => []UnclaimedUnpaid                         *)
(*   PaidByOneRow        Spec => []OnePayout                               *)
(*   PaidNoMoreThanHeld  Spec => []PaidWithinHeld                          *)
(*   PenaltiesKept       Spec => []NeverForgiven                           *)
(*   ChargedAsAgreed     BookingSpec => []ChargesHold                      *)
(*   BookingsAddUp       BookingSpec => []BookingAddsUp                    *)
(*                                                                         *)
(* Knows says what a payout request relies on between its steps: that the  *)
(* escrow it claimed has no row and no money yet, that the row it will     *)
(* write is still there, and that its plan takes no penalty down by more   *)
(* than is and will be deducted for it.                                    *)
(*                                                                         *)
(* BookInv is the invariant of a booking.  RatesInv: a value kept by an    *)
(* instance is the stored one, or was kept before the last change.  TaskInv*)
(* and AnswerInv: what was shown, told and answered about a task is what   *)
(* the stored percentages give, under the same proviso.  RefundInv: while  *)
(* refund requests do not overlap the one in flight knows the lines listed *)
(* and dropped, and what was given back and kept is what the lines cost.   *)
(***************************************************************************)
EXTENDS TaskPayout, Bookings, FiniteSums, TLAPS

\* Request r holds the claim of a payment it has made no row for yet.
Claims(r) == r.step \in {"transfer", "insert"} /\ r.task \notin Direct

Planned == {"adjust", "manual", "claim", "transfer", "insert"}

\* What request r knows, given the escrows, the rows, the money paid and the
\* deductions.
Knows(r, state, table, money, lines) ==
    /\ Claims(r) =>
         /\ state[r.task] = "released"
         /\ \A i \in Payouts : table[i].status # "none" => table[i].task # r.task
         /\ r.step = "transfer" => money[r.task] = 0
    /\ r.step \in {"held.resume", "hold"} =>
         r.row \in Payouts /\ table[r.row].status # "none"
    /\ r.step \in Planned =>
         \A p \in Penalties : PenaltyAmount - r.after[p] <= lines[p] + r.take[p]
    /\ r.step = "apply" =>
         \A p \in Penalties : PenaltyAmount - r.after[p] <= lines[p]

\* Each request knows its part, and no two claim the same payment.
RequestInv ==
    /\ req \in [Handlers -> Requests]
    /\ \A h \in Handlers : Knows(req[h], escrow, payout, paid, deducted)
    /\ \A g, h \in Handlers :
         g # h /\ Claims(req[g]) /\ Claims(req[h]) => req[g].task # req[h].task

\* A row operators have yet to transfer, never completed before, was not paid.
RowInv ==
    \A i \in Payouts :
        /\ Exists(i) /\ payout[i].task \notin Direct
        /\ payout[i].manual /\ ~payout[i].reopened
        /\ payout[i].status # "completed"
        => paid[payout[i].task] = 0

EscrowInv == \A t \in EscrowBacked : escrow[t] # "none"

MoneyInv == UnclaimedUnpaid /\ OnePayout /\ PaidWithinHeld /\ EscrowInv /\ RowInv

PInv == TypeOK /\ RequestInv /\ MoneyInv /\ NeverForgiven

-----------------------------------------------------------------------------
(* Requests                                                                *)

\* Rows stay and deductions grow.
Grows ==
    /\ \A i \in Payouts : Exists(i) =>
         payout'[i].status # "none" /\ payout'[i].task = payout[i].task
    /\ \A p \in Penalties : deducted[p] <= deducted'[p]

\* What is known of a claimed payment stays true.
Undisturbed(t) ==
    escrow[t] = "released" /\ RowsOf(t) = {} =>
        /\ escrow'[t] = "released"
        /\ \A i \in Payouts : payout'[i].status # "none" => payout'[i].task # t
        /\ paid'[t] = paid[t]

LEMMA IdleKnows ==
  /\ Idle \in Requests
  /\ \A state, table, money, lines : Knows(Idle, state, table, money, lines)
<1>1. NoLines \in Lines /\ (CHOOSE t \in Tasks : TRUE) \in Tasks /\ 0 \in 0..Amount
  BY TaskPayoutAssumption DEF NoLines, Lines
<1> QED BY <1>1 DEF Idle, Requests, Steps, Knows, Claims, Planned

LEMMA KnowsKept ==
  ASSUME TypeOK, TypeOK', Grows, NEW r \in Requests,
         Knows(r, escrow, payout, paid, deducted),
         Claims(r) => Undisturbed(r.task)
  PROVE  Knows(r, escrow', payout', paid', deducted')
<1>1. ASSUME Claims(r)
      PROVE  /\ escrow'[r.task] = "released"
             /\ \A i \in Payouts : payout'[i].status # "none" => payout'[i].task # r.task
             /\ r.step = "transfer" => paid'[r.task] = 0
  <2>1. escrow[r.task] = "released" /\ RowsOf(r.task) = {}
    BY <1>1 DEF Knows, RowsOf, Exists
  <2> QED BY <1>1, <2>1 DEF Knows, Undisturbed
<1>2. r.step \in {"held.resume", "hold"} =>
        r.row \in Payouts /\ payout'[r.row].status # "none"
  BY DEF Knows, Grows, Exists
<1>3. ASSUME r.step \in Planned, NEW p \in Penalties
      PROVE  PenaltyAmount - r.after[p] <= deducted'[p] + r.take[p]
  <2>1. PenaltyAmount - r.after[p] <= deducted[p] + r.take[p] /\ deducted[p] <= deducted'[p]
    BY <1>3 DEF Knows, Grows
  <2>2. deducted[p] \in Nat /\ deducted'[p] \in Nat /\ r.take[p] \in Nat
        /\ r.after[p] \in Nat /\ PenaltyAmount \in Nat
    BY TaskPayoutAssumption DEF TypeOK, Lines, Requests
  <2> QED BY <2>1, <2>2
<1>4. ASSUME r.step = "apply", NEW p \in Penalties
      PROVE  PenaltyAmount - r.after[p] <= deducted'[p]
  <2>1. PenaltyAmount - r.after[p] <= deducted[p] /\ deducted[p] <= deducted'[p]
    BY <1>4 DEF Knows, Grows
  <2>2. deducted[p] \in Nat /\ deducted'[p] \in Nat
        /\ r.after[p] \in Nat /\ PenaltyAmount \in Nat
    BY TaskPayoutAssumption DEF TypeOK, Lines, Requests
  <2> QED BY <2>1, <2>2
<1> QED BY <1>1, <1>2, <1>3, <1>4 DEF Knows

\* Handler h goes on with r, and no step of it disturbs what others claim.
LEMMA BecomeKnows ==
  ASSUME TypeOK, TypeOK', RequestInv, Grows, NEW h \in Handlers, NEW r \in Requests,
         Become(h, r), Knows(r, escrow', payout', paid', deducted'),
         \A g \in Handlers \ {h} : Claims(req[g]) =>
             Undisturbed(req[g].task) /\ (Claims(r) => r.task # req[g].task)
  PROVE  RequestInv'
<1>1. req' \in [Handlers -> Requests]
  BY DEF RequestInv, Become
<1>2. \A g \in Handlers : req'[g] = IF g = h THEN r ELSE req[g]
  BY DEF RequestInv, Become
<1>3. ASSUME NEW g \in Handlers
      PROVE  Knows(req'[g], escrow', payout', paid', deducted')
  <2>1. CASE g = h
    BY <2>1, <1>2
  <2>2. CASE g # h
    <3>1. req'[g] = req[g] /\ req[g] \in Requests
          /\ Knows(req[g], escrow, payout, paid, deducted)
      BY <2>2, <1>2 DEF RequestInv
    <3>2. Claims(req[g]) => Undisturbed(req[g].task)
      BY <2>2
    <3> QED BY <3>1, <3>2, KnowsKept
  <2> QED BY <2>1, <2>2
<1>4. ASSUME NEW f \in Handlers, NEW g \in Handlers, f # g,
             Claims(req'[f]), Claims(req'[g])
      PROVE  req'[f].task # req'[g].task
  <2>1. CASE f # h /\ g # h
    BY <2>1, <1>2, <1>4 DEF RequestInv
  <2>2. CASE f = h
    BY <2>2, <1>2, <1>4
  <2>3. CASE g = h
    BY <2>3, <1>2, <1>4
  <2> QED BY <2>1, <2>2, <2>3
<1> QED BY <1>1, <1>3, <1>4 DEF RequestInv

-----------------------------------------------------------------------------
(* Steps that only take a request further                                  *)

LEMMA QuietStep ==
  ASSUME PInv, NEW h \in Handlers, NEW r \in Requests, Become(h, r),
         UNCHANGED <<escrow, payout, owed, deducted, paid>>,
         Knows(r, escrow, payout, paid, deducted),
         Claims(r) => Claims(req[h]) /\ r.task = req[h].task
  PROVE  PInv'
<1>1. TypeOK'
  BY DEF PInv, TypeOK, Become
<1>2. Grows /\ \A t : Undisturbed(t)
  <2>1. \A p \in Penalties : deducted[p] <= deducted[p]
    BY DEF PInv, TypeOK, Lines
  <2>2. \A t : Undisturbed(t)
    BY DEF Undisturbed, RowsOf, Exists
  <2> QED BY <2>1, <2>2 DEF Grows, Exists
<1>3. RequestInv'
  <2>1. Knows(r, escrow', payout', paid', deducted')
    OBVIOUS
  <2>2. \A g \in Handlers \ {h} : Claims(req[g]) =>
          Undisturbed(req[g].task) /\ (Claims(r) => r.task # req[g].task)
    BY <1>2 DEF PInv, RequestInv
  <2> QED BY <1>1, <1>2, <2>1, <2>2, BecomeKnows DEF PInv
<1>4. MoneyInv'
  BY DEF PInv, MoneyInv, UnclaimedUnpaid, OnePayout, PaidWithinHeld, EscrowInv,
         RowInv, RowsOf, Exists
<1>5. NeverForgiven'
  BY DEF PInv, NeverForgiven
<1> QED BY <1>1, <1>3, <1>4, <1>5 DEF PInv

LEMMA QuietReturn ==
  ASSUME PInv, NEW h \in Handlers, Return(h),
         UNCHANGED <<escrow, payout, owed, deducted, paid>>
  PROVE  PInv'
<1>1. ~Claims(Idle)
  BY DEF Claims, Idle
<1> QED BY <1>1, IdleKnows, QuietStep DEF Return

\* A step named among those that rely on nothing.
LEMMA QuietGoTo ==
  ASSUME PInv, NEW h \in Handlers, NEW step \in {"escrow.read", "plan"}, GoTo(h, step),
         UNCHANGED <<escrow, payout, owed, deducted, paid>>
  PROVE  PInv'
<1> DEFINE r == [req[h] EXCEPT !.step = step]
<1>1. r \in Requests /\ r.step = step
  BY DEF PInv, TypeOK, Requests, Steps
<1>2. Become(h, r)
  BY DEF Become, GoTo, PInv, TypeOK
<1> HIDE DEF r
<1>3. ~Claims(r) /\ Knows(r, escrow, payout, paid, deducted)
  BY <1>1 DEF Claims, Knows, Planned
<1> QED BY <1>1, <1>2, <1>3, QuietStep

LEMMA BeginPayoutStep ==
  ASSUME PInv, NEW h \in Handlers, NEW t \in Tasks, NEW user \in BOOLEAN,
         BeginPayout(h, t, user)
  PROVE  PInv'
<1> DEFINE r == [Idle EXCEPT !.step = "held.find", !.task = t, !.user = user]
<1>1. r \in Requests /\ r.step = "held.find"
  BY IdleKnows DEF Idle, Requests, Steps
<1>2. Become(h, r) /\ UNCHANGED <<escrow, payout, owed, deducted, paid>>
  BY DEF BeginPayout
<1> HIDE DEF r
<1>3. ~Claims(r) /\ Knows(r, escrow, payout, paid, deducted)
  BY <1>1 DEF Claims, Knows, Planned
<1> QED BY <1>1, <1>2, <1>3, QuietStep

LEMMA FindHeldPayoutStep ==
  ASSUME PInv, NEW h \in Handlers, FindHeldPayout(h)
  PROVE  PInv'
<1>1. UNCHANGED <<escrow, payout, owed, deducted, paid>>
  BY DEF FindHeldPayout
<1>2. ASSUME NEW i \in HeldRows(req[h].task),
             Become(h, [req[h] EXCEPT !.step = "held.resume", !.row = i,
                                      !.from = payout[i].from])
      PROVE  PInv'
  <2> DEFINE r == [req[h] EXCEPT !.step = "held.resume", !.row = i,
                                 !.from = payout[i].from]
  <2>1. i \in Payouts /\ payout[i].status # "none" /\ payout[i] \in Rows
    BY DEF HeldRows, RowsOf, Exists, PInv, TypeOK
  <2>2. payout[i].from \in Statuses \cup {"none"}
    BY <2>1 DEF Rows
  <2>3. req[h] \in Requests
    BY DEF PInv, TypeOK
  <2>4. r \in Requests /\ r.step = "held.resume" /\ r.row = i
    BY <2>1, <2>2, <2>3 DEF Requests, Steps
  <2>5. Become(h, r)
    BY <1>2
  <2> HIDE DEF r
  <2>6. ~Claims(r) /\ Knows(r, escrow, payout, paid, deducted)
    BY <2>1, <2>4 DEF Claims, Knows, Planned
  <2> QED BY <1>1, <2>4, <2>5, <2>6, QuietStep
<1>3. ASSUME GoTo(h, "escrow.read") PROVE PInv'
  BY <1>1, <1>3, QuietGoTo
<1>4. ASSUME Return(h) PROVE PInv'
  BY <1>1, <1>4, QuietReturn
<1> QED BY <1>2, <1>3, <1>4 DEF FindHeldPayout

LEMMA ReadEscrowStep ==
  ASSUME PInv, NEW h \in Handlers, ReadEscrow(h)
  PROVE  PInv'
<1>1. UNCHANGED <<escrow, payout, owed, deducted, paid>>
      /\ (GoTo(h, "plan") \/ Return(h))
  BY DEF ReadEscrow
<1> QED BY <1>1, QuietGoTo, QuietReturn

LEMMA PlanPayoutStep ==
  ASSUME PInv, NEW h \in Handlers, PlanPayout(h)
  PROVE  PInv'
<1>1. UNCHANGED <<escrow, payout, owed, deducted, paid>>
  BY DEF PlanPayout
<1>2. PICK fee \in FeesOf(req[h].task), coins \in 0..CoinCap, net \in 0..Amount,
           take \in [Penalties -> 0..Amount] :
        /\ coins <= fee
        /\ PlansDeductions(take, net, Amount - fee + coins)
        /\ \E step \in IF net = 0 THEN {"adjust"} ELSE RecordSteps :
             Become(h, [req[h] EXCEPT !.step = step, !.net = net, !.take = take,
                          !.after = [p \in Penalties |-> owed[p] - take[p]]])
  BY Zenon DEF PlanPayout
<1>3. PICK step \in {"adjust", "manual", "claim"} :
        Become(h, [req[h] EXCEPT !.step = step, !.net = net, !.take = take,
                     !.after = [p \in Penalties |-> owed[p] - take[p]]])
  BY <1>2 DEF RecordSteps
<1> DEFINE after == [p \in Penalties |-> owed[p] - take[p]]
           r == [req[h] EXCEPT !.step = step, !.net = net, !.take = take, !.after = after]
<1>4. \A p \in Penalties : owed[p] \in Nat /\ deducted[p] \in Nat
                           /\ take[p] \in Nat /\ take[p] <= owed[p]
  BY <1>2, TaskPayoutAssumption DEF PlansDeductions, PInv, TypeOK, Lines
<1>5. take \in Lines /\ after \in Lines
  BY <1>4 DEF Lines
<1>6. req[h] \in Requests
  BY DEF PInv, TypeOK
<1> HIDE DEF after
<1>7. /\ r \in Requests
      /\ r.step = step /\ r.take = take /\ r.after = after
  BY <1>5, <1>6 DEF Requests, Steps
<1>8. Become(h, r)
  BY <1>3 DEF after
<1>9. ASSUME NEW p \in Penalties
      PROVE  PenaltyAmount - after[p] <= deducted[p] + take[p]
  <2>1. PenaltyAmount - owed[p] <= deducted[p]
    BY DEF PInv, NeverForgiven
  <2>2. after[p] = owed[p] - take[p]
    BY DEF after
  <2> QED BY <2>1, <2>2, <1>4, TaskPayoutAssumption
<1> HIDE DEF r
<1>10. ~Claims(r) /\ Knows(r, escrow, payout, paid, deducted)
  BY <1>7, <1>9 DEF Claims, Knows, Planned
<1> QED BY <1>1, <1>7, <1>8, <1>10, QuietStep

LEMMA BeginRaiseIssueStep ==
  ASSUME PInv, NEW h \in Handlers, NEW i \in Payouts, BeginRaiseIssue(h, i)
  PROVE  PInv'
<1> DEFINE r == [Idle EXCEPT !.step = "hold", !.row = i, !.from = payout[i].status]
<1>1. payout[i] \in Rows /\ payout[i].status # "none"
  BY DEF PInv, TypeOK, BeginRaiseIssue
<1>2. r \in Requests /\ r.step = "hold" /\ r.row = i
  BY <1>1, IdleKnows DEF Idle, Requests, Steps, Rows
<1>3. Become(h, r) /\ UNCHANGED <<escrow, payout, owed, deducted, paid>>
  BY DEF BeginRaiseIssue
<1> HIDE DEF r
<1>4. ~Claims(r) /\ Knows(r, escrow, payout, paid, deducted)
  BY <1>1, <1>2 DEF Claims, Knows, Planned
<1> QED BY <1>2, <1>3, <1>4, QuietStep

LEMMA CrashStep ==
  ASSUME PInv, NEW h \in Handlers, Crash(h)
  PROVE  PInv'
BY QuietReturn DEF Crash

-----------------------------------------------------------------------------
(* Steps that write a row already there                                    *)

\* A step of no request.
LEMMA RequestsKept ==
  ASSUME TypeOK, TypeOK', RequestInv, Grows, UNCHANGED req,
         \A g \in Handlers : Claims(req[g]) => Undisturbed(req[g].task)
  PROVE  RequestInv'
<1>1. ASSUME NEW g \in Handlers
      PROVE  Knows(req[g], escrow', payout', paid', deducted')
  <2>1. req[g] \in Requests /\ Knows(req[g], escrow, payout, paid, deducted)
    BY DEF RequestInv
  <2> QED BY <2>1, KnowsKept
<1> QED BY <1>1 DEF RequestInv

LEMMA RowWritten ==
  ASSUME TypeOK, NEW i \in Payouts, Exists(i), NEW state \in Statuses,
         NEW from \in Statuses \cup {"none"}, SetStatus(i, state, from)
  PROVE  /\ payout' \in [Payouts -> Rows]
         /\ \A j \in Payouts :
              /\ payout'[j].status # "none" <=> payout[j].status # "none"
              /\ payout'[j].task = payout[j].task
              /\ payout'[j].manual = payout[j].manual
              /\ payout[j].reopened => payout'[j].reopened
              /\ j # i => payout'[j] = payout[j]
         /\ payout'[i].status = state
         /\ payout[i].status = "completed" /\ state # "completed"
              => payout'[i].reopened
<1> DEFINE again == payout[i].reopened
                    \/ (payout[i].status = "completed" /\ state # "completed")
           row == [payout[i] EXCEPT !.status = state, !.from = from, !.reopened = again]
<1>1. payout[i] \in Rows /\ again \in BOOLEAN
  BY DEF TypeOK, Rows
<1>2. payout' = [payout EXCEPT ![i] = row]
  BY DEF SetStatus, TypeOK
<1> HIDE DEF again
<1>3. row \in Rows /\ row.status = state /\ row.reopened = again
      /\ row.task = payout[i].task /\ row.manual = payout[i].manual
  BY <1>1 DEF Rows
<1> HIDE DEF row
<1>4. payout' \in [Payouts -> Rows]
  BY <1>2, <1>3 DEF TypeOK
<1>5. \A j \in Payouts : payout'[j] = IF j = i THEN row ELSE payout[j]
  BY <1>2 DEF TypeOK
<1>6. state # "none" /\ payout[i].status # "none"
  BY DEF Statuses, Exists
<1>7. payout[i].reopened => again
  BY DEF again
<1>8. payout[i].status = "completed" /\ state # "completed" => again
  BY DEF again
<1> QED BY <1>3, <1>4, <1>5, <1>6, <1>7, <1>8

\* Rewriting a row keeps what is known of the money.
LEMMA RewriteKeepsMoney ==
  ASSUME PInv, NEW i \in Payouts, Exists(i), NEW state \in Statuses,
         NEW from \in Statuses \cup {"none"}, SetStatus(i, state, from),
         UNCHANGED <<escrow, owed, deducted, paid>>
  PROVE  /\ req' \in [Handlers -> Requests] => TypeOK'
         /\ Grows /\ \A t : Undisturbed(t)
         /\ MoneyInv' /\ NeverForgiven'
<1>1. TypeOK
  BY DEF PInv
<1>2. /\ payout' \in [Payouts -> Rows]
      /\ \A j \in Payouts :
           /\ payout'[j].status # "none" <=> payout[j].status # "none"
           /\ payout'[j].task = payout[j].task
           /\ payout'[j].manual = payout[j].manual
           /\ payout[j].reopened => payout'[j].reopened
           /\ j # i => payout'[j] = payout[j]
      /\ payout'[i].status = state
      /\ payout[i].status = "completed" /\ state # "completed" => payout'[i].reopened
  BY <1>1, RowWritten
<1>3. \A t : RowsOf(t)' = RowsOf(t)
  BY <1>2 DEF RowsOf, Exists
<1>4. req' \in [Handlers -> Requests] => TypeOK'
  BY <1>1, <1>2 DEF TypeOK
<1>5. Grows
  <2>1. \A p \in Penalties : deducted[p] <= deducted'[p]
    BY <1>1 DEF TypeOK, Lines
  <2> QED BY <2>1, <1>2 DEF Grows, Exists
<1>6. \A t : Undisturbed(t)
  BY <1>2 DEF Undisturbed, RowsOf, Exists
<1>7. UnclaimedUnpaid' /\ OnePayout' /\ EscrowInv'
  BY <1>3 DEF PInv, MoneyInv, UnclaimedUnpaid, OnePayout, EscrowInv
<1>8. PaidWithinHeld'
  <2>1. \A t \in EscrowBacked : \A j \in RowsOf(t) :
          payout[j].reopened => j \in RowsOf(t)' /\ payout'[j].reopened
    BY <1>2, <1>3 DEF RowsOf
  <2> QED BY <2>1 DEF PInv, MoneyInv, PaidWithinHeld
<1>9. RowInv'
  <2> SUFFICES ASSUME NEW j \in Payouts, payout'[j].status # "none",
                      payout'[j].task \notin Direct, payout'[j].manual,
                      ~payout'[j].reopened, payout'[j].status # "completed"
               PROVE  paid[payout'[j].task] = 0
    BY DEF RowInv, Exists
  <2>1. /\ payout[j].status # "none" /\ payout[j].task = payout'[j].task
        /\ payout[j].manual /\ ~payout[j].reopened
    BY <1>2
  <2>2. payout[j].status # "completed"
    BY <1>2
  <2> QED BY <2>1, <2>2 DEF PInv, MoneyInv, RowInv, Exists
<1>10. NeverForgiven'
  BY DEF PInv, NeverForgiven
<1> QED BY <1>4, <1>5, <1>6, <1>7, <1>8, <1>9, <1>10 DEF MoneyInv

\* A request that rewrites a row and returns.
LEMMA RewriteStep ==
  ASSUME PInv, NEW h \in Handlers, NEW i \in Payouts, Exists(i), NEW state \in Statuses,
         NEW from \in Statuses \cup {"none"}, SetStatus(i, state, from), Return(h),
         UNCHANGED <<escrow, owed, deducted, paid>>
  PROVE  PInv'
<1>1. req' \in [Handlers -> Requests]
  BY IdleKnows DEF Return, Become, PInv, TypeOK
<1>2. TypeOK' /\ Grows /\ (\A t : Undisturbed(t)) /\ MoneyInv' /\ NeverForgiven'
  BY <1>1, RewriteKeepsMoney
<1>3. ~Claims(Idle)
  BY DEF Claims, Idle
<1>4. RequestInv'
  BY <1>2, <1>3, IdleKnows, BecomeKnows DEF PInv, Return
<1> QED BY <1>2, <1>4 DEF PInv

LEMMA ResumeHeldPayoutStep ==
  ASSUME PInv, NEW h \in Handlers, ResumeHeldPayout(h)
  PROVE  PInv'
<1> DEFINE i == req[h].row
           state == IF req[h].from \in {"none", "completed"} THEN "processing"
                     ELSE req[h].from
<1>1. i \in Payouts /\ Exists(i)
  BY DEF ResumeHeldPayout, At, PInv, RequestInv, Knows, Exists
<1>2. req[h].from \in Statuses \cup {"none"} /\ payout[i].from \in Statuses \cup {"none"}
  BY <1>1 DEF PInv, TypeOK, Requests, Rows
<1>3. state \in Statuses
  BY <1>2 DEF Statuses
<1>4. /\ SetStatus(i, state, payout[i].from)
      /\ Return(h) /\ UNCHANGED <<escrow, owed, deducted, paid>>
  BY DEF ResumeHeldPayout
<1> HIDE DEF i, state
<1> QED BY <1>1, <1>2, <1>3, <1>4, RewriteStep

LEMMA HoldBookNowPayoutStep ==
  ASSUME PInv, NEW h \in Handlers, HoldBookNowPayout(h)
  PROVE  PInv'
<1> DEFINE i == req[h].row
<1>1. i \in Payouts /\ Exists(i)
  BY DEF HoldBookNowPayout, At, PInv, RequestInv, Knows, Exists
<1>2. req[h].from \in Statuses \cup {"none"} /\ "held" \in Statuses
  BY DEF PInv, TypeOK, Requests, Statuses
<1>3. /\ SetStatus(i, "held", req[h].from)
      /\ Return(h) /\ UNCHANGED <<escrow, owed, deducted, paid>>
  BY DEF HoldBookNowPayout
<1> HIDE DEF i
<1> QED BY <1>1, <1>2, <1>3, RewriteStep

\* Operators' updates of a row.
LEMMA OperatorRewriteStep ==
  ASSUME PInv, NEW i \in Payouts, Exists(i), NEW state \in Statuses,
         SetStatus(i, state, payout[i].from),
         UNCHANGED <<escrow, owed, deducted, paid, req>>
  PROVE  PInv'
<1>1. payout[i].from \in Statuses \cup {"none"} /\ req' \in [Handlers -> Requests]
  BY DEF PInv, TypeOK, Rows
<1>2. TypeOK' /\ Grows /\ (\A t : Undisturbed(t)) /\ MoneyInv' /\ NeverForgiven'
  BY <1>1, RewriteKeepsMoney
<1>3. RequestInv'
  BY <1>2, RequestsKept DEF PInv
<1> QED BY <1>2, <1>3 DEF PInv

LEMMA UpdatePayoutStatusStep ==
  ASSUME PInv, NEW i \in Payouts, NEW state \in Statuses, UpdatePayoutStatus(i, state)
  PROVE  PInv'
BY OperatorRewriteStep DEF UpdatePayoutStatus, Exists

LEMMA HoldPayoutStep ==
  ASSUME PInv, NEW i \in Payouts, HoldPayout(i)
  PROVE  PInv'
BY OperatorRewriteStep DEF HoldPayout, Statuses

-----------------------------------------------------------------------------
(* Steps that move money                                                   *)

LEMMA PayAdds ==
  ASSUME TypeOK, NEW t \in Tasks, NEW net \in 0..Amount, Pay(t, net)
  PROVE  /\ paid' \in [Tasks -> 0..MaxPaid]
         /\ \A u \in Tasks : u # t => paid'[u] = paid[u]
         /\ paid[t] = 0 => paid'[t] <= Amount
<1> DEFINE sum == IF paid[t] + net < MaxPaid THEN paid[t] + net ELSE MaxPaid
<1>1. paid[t] \in 0..MaxPaid /\ MaxPaid \in Nat /\ Amount \in Nat /\ MaxPaid > Amount
  BY TaskPayoutAssumption DEF TypeOK
<1>2. sum \in 0..MaxPaid /\ (paid[t] = 0 => sum <= Amount)
  BY <1>1
<1>3. paid' = [paid EXCEPT ![t] = sum]
  BY DEF Pay, TypeOK
<1> HIDE DEF sum
<1> QED BY <1>2, <1>3 DEF TypeOK

LEMMA OpsPayOutStep ==
  ASSUME PInv, NEW i \in Payouts, OpsPayOut(i)
  PROVE  PInv'
<1> DEFINE t == payout[i].task
<1>1. TypeOK /\ payout[i] \in Rows
  BY DEF PInv, TypeOK
<1>2. /\ payout[i].status = "processing" /\ payout[i].manual /\ Exists(i)
      /\ SetStatus(i, "completed", payout[i].from)
      /\ Pay(t, payout[i].net)
      /\ UNCHANGED <<escrow, owed, deducted, req>>
  BY DEF OpsPayOut, Exists
<1>3. t \in Tasks /\ payout[i].net \in 0..Amount
      /\ payout[i].from \in Statuses \cup {"none"} /\ "completed" \in Statuses
  BY <1>1 DEF Rows, Statuses
<1>4. /\ payout' \in [Payouts -> Rows]
      /\ \A j \in Payouts :
           /\ payout'[j].status # "none" <=> payout[j].status # "none"
           /\ payout'[j].task = payout[j].task
           /\ payout'[j].manual = payout[j].manual
           /\ payout[j].reopened => payout'[j].reopened
           /\ j # i => payout'[j] = payout[j]
      /\ payout'[i].status = "completed"
  BY <1>1, <1>2, <1>3, RowWritten
<1>5. /\ paid' \in [Tasks -> 0..MaxPaid]
      /\ \A u \in Tasks : u # t => paid'[u] = paid[u]
      /\ paid[t] = 0 => paid'[t] <= Amount
  BY <1>1, <1>2, <1>3, PayAdds
<1>6. i \in RowsOf(t) /\ \A u : RowsOf(u)' = RowsOf(u)
  BY <1>2, <1>4 DEF RowsOf, Exists
<1> HIDE DEF t
<1>7. TypeOK'
  BY <1>1, <1>2, <1>4, <1>5 DEF TypeOK
<1>8. Grows
  <2>1. \A p \in Penalties : deducted[p] <= deducted'[p]
    BY <1>1, <1>2 DEF TypeOK, Lines
  <2> QED BY <2>1, <1>4 DEF Grows, Exists
<1>9. \A u \in Tasks : Undisturbed(u)
  BY <1>2, <1>4, <1>5, <1>6 DEF Undisturbed, RowsOf, Exists
<1>10. RequestInv'
  <2>1. \A g \in Handlers : req[g].task \in Tasks
    BY <1>1 DEF TypeOK, Requests
  <2> QED BY <1>2, <1>7, <1>8, <1>9, <2>1, RequestsKept DEF PInv
<1>11. UnclaimedUnpaid'
  <2> SUFFICES ASSUME NEW u \in EscrowBacked, escrow[u] \in {"held", "refunded"}
               PROVE  paid'[u] = 0 /\ RowsOf(u)' = {}
    BY <1>2 DEF UnclaimedUnpaid
  <2>1. paid[u] = 0 /\ RowsOf(u) = {}
    BY DEF PInv, MoneyInv, UnclaimedUnpaid
  <2> QED BY <2>1, <1>5, <1>6 DEF EscrowBacked
<1>12. OnePayout' /\ EscrowInv'
  BY <1>2, <1>6 DEF PInv, MoneyInv, OnePayout, EscrowInv
<1>13. PaidWithinHeld'
  <2> SUFFICES ASSUME NEW u \in EscrowBacked
               PROVE  paid'[u] <= Amount \/ \E j \in RowsOf(u)' : payout'[j].reopened
    BY DEF PaidWithinHeld
  <2>1. CASE \E j \in RowsOf(u) : payout[j].reopened
    BY <2>1, <1>4, <1>6 DEF RowsOf
  <2>2. CASE ~\E j \in RowsOf(u) : payout[j].reopened
    <3>1. CASE u # t
      BY <3>1, <2>2, <1>5 DEF PInv, MoneyInv, PaidWithinHeld, EscrowBacked
    <3>2. CASE u = t
      <4>1. paid[t] = 0
        BY <3>2, <2>2, <1>2, <1>6 DEF PInv, MoneyInv, RowInv, EscrowBacked, t
      <4> QED BY <4>1, <3>2, <1>5
    <3> QED BY <3>1, <3>2
  <2> QED BY <2>1, <2>2
<1>14. RowInv'
  <2> SUFFICES ASSUME NEW j \in Payouts, payout'[j].status # "none",
                      payout'[j].task \notin Direct, payout'[j].manual,
                      ~payout'[j].reopened, payout'[j].status # "completed"
               PROVE  paid'[payout'[j].task] = 0
    BY DEF RowInv, Exists
  <2>1. j # i /\ payout'[j] = payout[j]
    BY <1>4
  <2>2. payout[j].task \in EscrowBacked
    BY <2>1, <1>1 DEF TypeOK, Rows, EscrowBacked
  <2>3. payout[j].task # t
    BY <2>1, <2>2, <1>6 DEF PInv, MoneyInv, OnePayout, RowsOf, Exists
  <2>4. paid[payout[j].task] = 0
    BY <2>1 DEF PInv, MoneyInv, RowInv, Exists
  <2> QED BY <2>1, <2>2, <2>3, <2>4, <1>5 DEF EscrowBacked
<1>15. NeverForgiven'
  BY <1>2 DEF PInv, NeverForgiven
<1> QED BY <1>7, <1>10, <1>11, <1>12, <1>13, <1>14, <1>15 DEF PInv, MoneyInv

LEMMA RefundHeldPaymentStep ==
  ASSUME PInv, NEW t \in Tasks, RefundHeldPayment(t)
  PROVE  PInv'
<1>1. /\ escrow[t] = "held" /\ escrow' = [escrow EXCEPT ![t] = "refunded"]
      /\ UNCHANGED <<payout, owed, deducted, paid, req>>
  BY DEF RefundHeldPayment
<1>2. TypeOK'
  BY <1>1 DEF PInv, TypeOK
<1>3. Grows
  <2>1. \A p \in Penalties : deducted[p] <= deducted'[p]
    BY <1>1 DEF PInv, TypeOK, Lines
  <2> QED BY <2>1, <1>1 DEF Grows, Exists
<1>4. \A u \in Tasks : escrow'[u] = IF u = t THEN "refunded" ELSE escrow[u]
  BY <1>1 DEF PInv, TypeOK
<1>5. \A u \in Tasks : Undisturbed(u)
  BY <1>1, <1>4 DEF Undisturbed, RowsOf, Exists
<1>6. RequestInv'
  <2>1. \A g \in Handlers : req[g].task \in Tasks
    BY DEF PInv, TypeOK, Requests
  <2> QED BY <1>1, <1>2, <1>3, <1>5, <2>1, RequestsKept DEF PInv
<1>7. \A u : RowsOf(u)' = RowsOf(u)
  BY <1>1 DEF RowsOf, Exists
<1>8. UnclaimedUnpaid' /\ EscrowInv'
  BY <1>1, <1>4, <1>7 DEF PInv, MoneyInv, UnclaimedUnpaid, EscrowInv, EscrowBacked
<1>9. OnePayout' /\ PaidWithinHeld' /\ RowInv' /\ NeverForgiven'
  BY <1>1, <1>7 DEF PInv, MoneyInv, OnePayout, PaidWithinHeld, RowInv, NeverForgiven, Exists
<1> QED BY <1>2, <1>6, <1>8, <1>9 DEF PInv, MoneyInv

-----------------------------------------------------------------------------
(* Steps that claim a payment and make its row                             *)

\* A row is made for a payment just claimed, or claimed before.
LEMMA CreateKeepsMoney ==
  ASSUME PInv, NEW r \in Requests, NEW i \in Payouts,
         NEW state \in {"processing", "completed", "failed"}, NEW manual \in BOOLEAN,
         CreateRow(i, r, state, manual), UNCHANGED paid,
         escrow' \in [Tasks -> {"none", "held", "released", "refunded"}],
         \A u \in Tasks : u # r.task => escrow'[u] = escrow[u],
         r.task \notin Direct =>
             /\ RowsOf(r.task) = {} /\ escrow'[r.task] = "released"
             /\ manual => paid[r.task] = 0
  PROVE  /\ payout' \in [Payouts -> Rows] /\ deducted' \in Lines
         /\ \A p \in Penalties : deducted'[p] = deducted[p] + r.take[p]
         /\ Grows /\ MoneyInv'
         /\ \A u \in EscrowBacked : u # r.task => Undisturbed(u)
<1> DEFINE t == r.task
           row == [status |-> state, task |-> t, net |-> r.net, manual |-> manual,
                   adjusted |-> r.net = 0, from |-> "none", reopened |-> FALSE]
<1>1. TypeOK /\ t \in Tasks /\ r.net \in 0..Amount /\ r.take \in Lines
  BY DEF PInv, Requests
<1>2. row \in Rows
  BY <1>1 DEF Rows, Statuses
<1>3. payout[i].status = "none" /\ payout' = [payout EXCEPT ![i] = row]
      /\ deducted' = [p \in Penalties |-> deducted[p] + r.take[p]]
  BY DEF CreateRow, Exists
<1>4. row.status # "none" /\ row.task = t /\ row.manual = manual
  OBVIOUS
<1> HIDE DEF row
<1>5. payout' \in [Payouts -> Rows] /\ deducted' \in Lines
      /\ \A p \in Penalties : deducted[p] \in Nat /\ deducted'[p] = deducted[p] + r.take[p]
                              /\ r.take[p] \in Nat
  BY <1>1, <1>2, <1>3 DEF TypeOK, Lines
<1>6. \A j \in Payouts : payout'[j] = IF j = i THEN row ELSE payout[j]
  BY <1>1, <1>3 DEF TypeOK
<1>7. Grows
  <2>1. \A p \in Penalties : deducted[p] <= deducted'[p]
    BY <1>5
  <2>2. \A j \in Payouts : Exists(j) => payout'[j] = payout[j]
    BY <1>3, <1>6 DEF Exists
  <2> QED BY <2>1, <2>2 DEF Grows, Exists
<1>8. \A u : u # t => RowsOf(u)' = RowsOf(u)
  BY <1>3, <1>4, <1>6 DEF RowsOf, Exists
<1>9. t \notin Direct => RowsOf(t)' = {i}
  BY <1>4, <1>6 DEF RowsOf, Exists
<1> HIDE DEF t
<1>10. \A u \in EscrowBacked : u # t => Undisturbed(u)
  <2> SUFFICES ASSUME NEW u \in EscrowBacked, u # t, RowsOf(u) = {}
               PROVE  /\ escrow'[u] = escrow[u] /\ paid'[u] = paid[u]
                      /\ \A j \in Payouts : payout'[j].status # "none"
                                              => payout'[j].task # u
    BY DEF Undisturbed
  <2>1. RowsOf(u)' = {}
    BY <1>8
  <2> QED BY <2>1 DEF RowsOf, Exists, EscrowBacked, t
<1>11. UnclaimedUnpaid'
  <2> SUFFICES ASSUME NEW u \in EscrowBacked, escrow'[u] \in {"held", "refunded"}
               PROVE  paid[u] = 0 /\ RowsOf(u)' = {}
    BY DEF UnclaimedUnpaid
  <2>1. u # t
    BY DEF t, EscrowBacked
  <2>2. escrow'[u] = escrow[u]
    BY <2>1 DEF t, EscrowBacked
  <2> QED BY <2>1, <2>2, <1>8 DEF PInv, MoneyInv, UnclaimedUnpaid
<1>12. OnePayout' /\ EscrowInv'
  <2>1. ASSUME NEW u \in EscrowBacked
        PROVE  escrow'[u] # "none" /\ \A j, k \in RowsOf(u)' : j = k
    <3>1. CASE u = t
      BY <3>1, <1>9 DEF t, EscrowBacked
    <3>2. CASE u # t
      BY <3>2, <1>8 DEF PInv, MoneyInv, OnePayout, EscrowInv, EscrowBacked, t
    <3> QED BY <3>1, <3>2
  <2> QED BY <2>1 DEF OnePayout, EscrowInv
<1>13. PaidWithinHeld'
  <2> SUFFICES ASSUME NEW u \in EscrowBacked
               PROVE  paid[u] <= Amount \/ \E j \in RowsOf(u)' : payout'[j].reopened
    BY DEF PaidWithinHeld
  <2>1. CASE RowsOf(u) = {}
    BY <2>1 DEF PInv, MoneyInv, PaidWithinHeld
  <2>2. CASE RowsOf(u) # {}
    <3>1. u # t
      BY <2>2 DEF t, EscrowBacked
    <3>2. \A j \in RowsOf(u) : payout'[j] = payout[j]
      BY <1>3, <1>6 DEF RowsOf, Exists
    <3> QED BY <3>1, <3>2, <1>8 DEF PInv, MoneyInv, PaidWithinHeld
  <2> QED BY <2>1, <2>2
<1>14. RowInv'
  <2> SUFFICES ASSUME NEW j \in Payouts, payout'[j].status # "none",
                      payout'[j].task \notin Direct, payout'[j].manual,
                      ~payout'[j].reopened, payout'[j].status # "completed"
               PROVE  paid[payout'[j].task] = 0
    BY DEF RowInv, Exists
  <2>1. CASE j = i
    BY <2>1, <1>4, <1>6 DEF t
  <2>2. CASE j # i
    BY <2>2, <1>6 DEF PInv, MoneyInv, RowInv, Exists
  <2> QED BY <2>1, <2>2
<1> QED BY <1>5, <1>7, <1>10, <1>11, <1>12, <1>13, <1>14 DEF MoneyInv, t

\* Applying the lines of a plan forgives nothing.
LEMMA PenaltiesApplied ==
  ASSUME TypeOK, NeverForgiven, NEW r \in Requests, deducted' \in Lines,
         \A p \in Penalties : deducted[p] <= deducted'[p],
         \A p \in Penalties : PenaltyAmount - r.after[p] <= deducted'[p],
         ApplyPenaltyLines(r)
  PROVE  owed' \in Lines /\ NeverForgiven'
<1>1. \A p \in Penalties :
        /\ owed[p] \in Nat /\ deducted[p] \in Nat /\ deducted'[p] \in Nat
        /\ r.after[p] \in Nat /\ PenaltyAmount \in Nat
  BY TaskPayoutAssumption DEF TypeOK, Lines, Requests
<1>2. \A p \in Penalties : owed'[p] = IF r.take[p] > 0 THEN r.after[p] ELSE owed[p]
  BY DEF ApplyPenaltyLines
<1>3. owed' \in Lines
  BY <1>1 DEF ApplyPenaltyLines, Lines
<1>4. ASSUME NEW p \in Penalties PROVE PenaltyAmount - owed'[p] <= deducted'[p]
  <2>1. PenaltyAmount - owed[p] <= deducted[p]
    BY DEF NeverForgiven
  <2> QED BY <2>1, <1>1, <1>2
<1> QED BY <1>3, <1>4 DEF NeverForgiven

LEMMA RecordPayoutStep ==
  ASSUME PInv, NEW h \in Handlers, NEW step \in {"adjust", "manual"},
         NEW state \in {"processing", "completed"}, NEW manual \in BOOLEAN,
         RecordPayout(h, step, state, manual)
  PROVE  PInv'
<1>1. CASE UNCHANGED <<escrow, payout, owed, deducted>>
  BY <1>1, QuietReturn DEF RecordPayout
<1>2. CASE /\ Claimable(req[h].task) /\ Claim(req[h].task)
           /\ \E i \in Payouts : CreateRow(i, req[h], state, manual)
           /\ ApplyPenaltyLines(req[h])
  <2> DEFINE r == req[h]
  <2>1. PICK i \in Payouts : CreateRow(i, r, state, manual)
    BY <1>2
  <2>2. TypeOK /\ RequestInv /\ NeverForgiven /\ r \in Requests /\ r.task \in Tasks
        /\ Return(h) /\ UNCHANGED paid /\ r.step = step
    BY DEF PInv, TypeOK, Requests, RecordPayout, At
  <2>3. /\ escrow' \in [Tasks -> {"none", "held", "released", "refunded"}]
        /\ \A u \in Tasks : u # r.task => escrow'[u] = escrow[u]
        /\ r.task \notin Direct => escrow[r.task] = "held" /\ escrow'[r.task] = "released"
    BY <1>2, <2>2 DEF Claimable, Claim, TypeOK
  <2>4. r.task \notin Direct => RowsOf(r.task) = {} /\ paid[r.task] = 0
    BY <2>2, <2>3 DEF PInv, MoneyInv, UnclaimedUnpaid, EscrowBacked
  <2> HIDE DEF r
  <2>5. /\ payout' \in [Payouts -> Rows] /\ deducted' \in Lines
        /\ \A p \in Penalties : deducted'[p] = deducted[p] + r.take[p]
        /\ Grows /\ MoneyInv'
        /\ \A u \in EscrowBacked : u # r.task => Undisturbed(u)
    BY <2>1, <2>2, <2>3, <2>4, CreateKeepsMoney
  <2>6. \A p \in Penalties : PenaltyAmount - r.after[p] <= deducted'[p]
    BY <2>2, <2>5 DEF RequestInv, Knows, Planned, r
  <2>7. owed' \in Lines /\ NeverForgiven'
    BY <1>2, <2>2, <2>5, <2>6, PenaltiesApplied DEF Grows, r
  <2>8. TypeOK'
    BY <2>2, <2>3, <2>5, <2>7, IdleKnows DEF TypeOK, Return, Become
  <2>9. \A u \in EscrowBacked : Undisturbed(u)
    BY <2>3, <2>5 DEF Undisturbed, EscrowBacked
  <2>10. \A g \in Handlers : Claims(req[g]) => Undisturbed(req[g].task)
    BY <2>2, <2>9 DEF TypeOK, Requests, Claims, EscrowBacked
  <2>11. ~Claims(Idle)
    BY DEF Claims, Idle
  <2>12. RequestInv'
    BY <2>2, <2>5, <2>8, <2>10, <2>11, IdleKnows, BecomeKnows DEF Return
  <2> QED BY <2>5, <2>7, <2>8, <2>12 DEF PInv
<1> QED BY <1>1, <1>2 DEF RecordPayout

LEMMA ClaimForTransferStep ==
  ASSUME PInv, NEW h \in Handlers, ClaimForTransfer(h)
  PROVE  PInv'
<1>1. UNCHANGED <<payout, owed, deducted, paid>>
  BY DEF ClaimForTransfer
<1>2. CASE UNCHANGED escrow /\ Return(h)
  BY <1>1, <1>2, QuietReturn
<1>3. CASE Claimable(req[h].task) /\ Claim(req[h].task) /\ GoTo(h, "transfer")
  <2> DEFINE t == req[h].task
             r == [req[h] EXCEPT !.step = "transfer"]
  <2>1. TypeOK /\ RequestInv /\ req[h] \in Requests /\ t \in Tasks
        /\ req[h].step = "claim" /\ Claim(t)
    BY <1>3 DEF PInv, TypeOK, Requests, ClaimForTransfer, At
  <2>2. /\ r \in Requests /\ r.step = "transfer" /\ r.task = t
        /\ r.take = req[h].take /\ r.after = req[h].after
    BY <2>1 DEF Requests, Steps
  <2>3. Become(h, r)
    BY <1>3, <2>1 DEF ClaimForTransfer, GoTo, Become, TypeOK
  <2> HIDE DEF r
  <2>4. /\ escrow' \in [Tasks -> {"none", "held", "released", "refunded"}]
        /\ \A u \in Tasks : escrow'[u] = escrow[u]
             \/ (u = t /\ t \notin Direct /\ escrow[t] = "held" /\ escrow'[t] = "released")
        /\ t \notin Direct => escrow[t] = "held" /\ escrow'[t] = "released"
    BY <1>3, <2>1 DEF Claimable, Claim, TypeOK
  <2>5. TypeOK' /\ Grows
    <3>1. \A p \in Penalties : deducted[p] <= deducted'[p]
      BY <1>1, <2>1 DEF TypeOK, Lines
    <3>2. TypeOK'
      BY <1>1, <2>1, <2>2, <2>3, <2>4 DEF TypeOK, Become
    <3> QED BY <3>1, <3>2, <1>1 DEF Grows, Exists
  <2>6. \A u \in Tasks : Undisturbed(u)
    BY <1>1, <2>4 DEF Undisturbed, RowsOf, Exists
  <2>7. t \notin Direct => RowsOf(t) = {} /\ paid[t] = 0
    BY <2>1, <2>4 DEF PInv, MoneyInv, UnclaimedUnpaid, EscrowBacked
  <2>8. Knows(req[h], escrow, payout, paid, deducted)
    BY <2>1 DEF RequestInv
  <2>9. Knows(r, escrow', payout', paid', deducted')
    BY <1>1, <2>1, <2>2, <2>4, <2>7, <2>8
       DEF Knows, Claims, Planned, RowsOf, Exists
  <2>10. \A g \in Handlers \ {h} : Claims(req[g]) =>
           Undisturbed(req[g].task) /\ (Claims(r) => r.task # req[g].task)
    <3> SUFFICES ASSUME NEW g \in Handlers \ {h}, Claims(req[g])
                 PROVE  Undisturbed(req[g].task) /\ (Claims(r) => r.task # req[g].task)
      OBVIOUS
    <3>1. req[g].task \in Tasks /\ escrow[req[g].task] = "released"
      BY <2>1 DEF TypeOK, Requests, RequestInv, Knows
    <3>2. Claims(r) => r.task = t /\ escrow[t] = "held"
      BY <2>2, <2>4 DEF Claims
    <3> QED BY <2>6, <3>1, <3>2
  <2>11. RequestInv'
    BY <2>1, <2>2, <2>3, <2>5, <2>9, <2>10, BecomeKnows
  <2>12. \A u : RowsOf(u)' = RowsOf(u)
    BY <1>1 DEF RowsOf, Exists
  <2>13. UnclaimedUnpaid' /\ EscrowInv'
    BY <1>1, <2>4, <2>12 DEF PInv, MoneyInv, UnclaimedUnpaid, EscrowInv, EscrowBacked
  <2>14. OnePayout' /\ PaidWithinHeld' /\ RowInv' /\ NeverForgiven'
    BY <1>1, <2>12 DEF PInv, MoneyInv, OnePayout, PaidWithinHeld, RowInv, NeverForgiven,
                       Exists
  <2> QED BY <2>5, <2>11, <2>13, <2>14 DEF PInv, MoneyInv
<1> QED BY <1>2, <1>3 DEF ClaimForTransfer

\* The claimed payment is transferred; request h goes on with r.
LEMMA TransferredStep ==
  ASSUME PInv, NEW h \in Handlers, req[h].step = "transfer",
         Pay(req[h].task, req[h].net), UNCHANGED <<escrow, payout, owed, deducted>>,
         NEW r \in Requests, Become(h, r), Knows(r, escrow, payout, paid', deducted),
         Claims(r) => Claims(req[h]) /\ r.task = req[h].task
  PROVE  PInv'
<1> DEFINE t == req[h].task
<1>1. TypeOK /\ RequestInv /\ t \in Tasks /\ req[h].net \in 0..Amount
  BY DEF PInv, TypeOK, Requests
<1>2. /\ paid' \in [Tasks -> 0..MaxPaid]
      /\ \A u \in Tasks : u # t => paid'[u] = paid[u]
      /\ paid[t] = 0 => paid'[t] <= Amount
  BY <1>1, PayAdds
<1>3. t \notin Direct => RowsOf(t) = {} /\ escrow[t] = "released" /\ paid[t] = 0
  <2>1. Knows(req[h], escrow, payout, paid, deducted)
    BY <1>1 DEF RequestInv
  <2> QED BY <2>1 DEF Knows, Claims, RowsOf, Exists
<1>4. t \notin Direct => Claims(req[h])
  BY DEF Claims
<1> HIDE DEF t
<1>5. TypeOK' /\ Grows
  <2>1. \A p \in Penalties : deducted[p] <= deducted'[p]
    BY <1>1 DEF TypeOK, Lines
  <2>2. TypeOK'
    BY <1>1, <1>2 DEF TypeOK, Become
  <2> QED BY <2>1, <2>2 DEF Grows, Exists
<1>6. \A g \in Handlers \ {h} : Claims(req[g]) =>
        Undisturbed(req[g].task) /\ (Claims(r) => r.task # req[g].task)
  <2> SUFFICES ASSUME NEW g \in Handlers \ {h}, Claims(req[g])
               PROVE  Undisturbed(req[g].task) /\ (Claims(r) => r.task # req[g].task)
    OBVIOUS
  <2>1. req[g].task \in Tasks /\ req[g].task \notin Direct
    BY <1>1 DEF TypeOK, Requests, Claims
  <2>2. req[g].task # t
    BY <2>1, <1>1, <1>4 DEF RequestInv, t
  <2>3. Undisturbed(req[g].task)
    BY <2>1, <2>2, <1>2 DEF Undisturbed, RowsOf, Exists
  <2> QED BY <2>2, <2>3 DEF t
<1>7. RequestInv'
  BY <1>1, <1>5, <1>6, BecomeKnows
<1>8. \A u : RowsOf(u)' = RowsOf(u)
  BY DEF RowsOf, Exists
<1>9. UnclaimedUnpaid'
  BY <1>2, <1>3, <1>8 DEF PInv, MoneyInv, UnclaimedUnpaid, EscrowBacked
<1>10. OnePayout' /\ EscrowInv' /\ NeverForgiven'
  BY <1>8 DEF PInv, MoneyInv, OnePayout, EscrowInv, NeverForgiven
<1>11. PaidWithinHeld'
  <2> SUFFICES ASSUME NEW u \in EscrowBacked
               PROVE  paid'[u] <= Amount \/ \E j \in RowsOf(u) : payout[j].reopened
    BY <1>8 DEF PaidWithinHeld
  <2>1. CASE u = t
    BY <2>1, <1>2, <1>3 DEF EscrowBacked
  <2>2. CASE u # t
    BY <2>2, <1>2 DEF PInv, MoneyInv, PaidWithinHeld, EscrowBacked
  <2> QED BY <2>1, <2>2
<1>12. RowInv'
  <2> SUFFICES ASSUME NEW j \in Payouts, Exists(j), payout[j].task \notin Direct,
                      payout[j].manual, ~payout[j].reopened, payout[j].status # "completed"
               PROVE  paid'[payout[j].task] = 0
    BY DEF RowInv, Exists
  <2>1. payout[j].task \in Tasks /\ paid[payout[j].task] = 0
    BY <1>1 DEF TypeOK, Rows, PInv, MoneyInv, RowInv
  <2>2. payout[j].task # t
    BY <1>3 DEF RowsOf
  <2> QED BY <2>1, <2>2, <1>2
<1> QED BY <1>5, <1>7, <1>9, <1>10, <1>11, <1>12 DEF PInv, MoneyInv

LEMMA TransferRazorpayXStep ==
  ASSUME PInv, NEW h \in Handlers, TransferRazorpayX(h)
  PROVE  PInv'
<1>1. req[h].step = "transfer" /\ UNCHANGED <<escrow, payout, owed, deducted>>
      /\ req[h] \in Requests /\ Knows(req[h], escrow, payout, paid, deducted)
  BY DEF TransferRazorpayX, At, PInv, RequestInv
<1>2. ASSUME NEW result \in {"processing", "completed", "failed"},
             Become(h, [req[h] EXCEPT !.step = "insert", !.result = result]),
             Pay(req[h].task, req[h].net) \/ UNCHANGED paid
      PROVE  PInv'
  <2> DEFINE r == [req[h] EXCEPT !.step = "insert", !.result = result]
  <2>1. /\ r \in Requests /\ r.step = "insert" /\ r.task = req[h].task
        /\ r.take = req[h].take /\ r.after = req[h].after
    BY <1>1 DEF Requests, Steps
  <2>2. Become(h, r)
    BY <1>2
  <2> HIDE DEF r
  <2>3. Claims(r) => Claims(req[h]) /\ r.task = req[h].task
    BY <1>1, <2>1 DEF Claims
  <2>4. \A money : Knows(r, escrow, payout, money, deducted)
    BY <1>1, <2>1 DEF Knows, Claims, Planned
  <2>5. CASE UNCHANGED paid
    BY <1>1, <2>1, <2>2, <2>3, <2>4, <2>5, QuietStep
  <2>6. CASE Pay(req[h].task, req[h].net)
    BY <1>1, <2>1, <2>2, <2>3, <2>4, <2>6, TransferredStep
  <2> QED BY <1>2, <2>5, <2>6
<1>3. ASSUME Return(h), Pay(req[h].task, req[h].net) \/ UNCHANGED paid
      PROVE  PInv'
  <2>1. ~Claims(Idle)
    BY DEF Claims, Idle
  <2>2. CASE UNCHANGED paid
    BY <1>1, <1>3, <2>2, QuietReturn
  <2>3. CASE Pay(req[h].task, req[h].net)
    BY <1>1, <1>3, <2>1, <2>3, IdleKnows, TransferredStep DEF Return
  <2> QED BY <1>3, <2>2, <2>3
<1> QED BY <1>2, <1>3 DEF TransferRazorpayX

LEMMA InsertPayoutStep ==
  ASSUME PInv, NEW h \in Handlers, InsertPayout(h)
  PROVE  PInv'
<1> DEFINE q == req[h]
           together == q.result = "completed"
<1>1. TypeOK /\ RequestInv /\ NeverForgiven /\ q.step = "insert" /\ q \in Requests
      /\ q.task \in Tasks /\ UNCHANGED <<escrow, paid>>
      /\ Knows(q, escrow, payout, paid, deducted)
  BY DEF PInv, TypeOK, RequestInv, Requests, InsertPayout, At
<1>2. CASE Return(h) /\ UNCHANGED <<payout, owed, deducted>>
  BY <1>1, <1>2, QuietReturn
<1>3. CASE /\ \E i \in Payouts : CreateRow(i, q, q.result, FALSE)
           /\ IF together THEN ApplyPenaltyLines(q) ELSE UNCHANGED owed
           /\ IF together \/ ~Deducts(q) THEN Return(h) ELSE GoTo(h, "apply")
  <2>1. PICK i \in Payouts : CreateRow(i, q, q.result, FALSE)
    BY <1>3
  <2>2. q.result \in {"processing", "completed", "failed"}
    BY <1>1 DEF Requests
  <2>3. q.task \notin Direct => RowsOf(q.task) = {} /\ escrow[q.task] = "released"
    BY <1>1 DEF Knows, Claims, RowsOf, Exists
  <2> HIDE DEF q
  <2>4. escrow' \in [Tasks -> {"none", "held", "released", "refunded"}]
    BY <1>1 DEF TypeOK
  <2>5. /\ payout' \in [Payouts -> Rows] /\ deducted' \in Lines
        /\ \A p \in Penalties : deducted'[p] = deducted[p] + q.take[p]
        /\ Grows /\ MoneyInv'
        /\ \A u \in EscrowBacked : u # q.task => Undisturbed(u)
    BY <1>1, <2>1, <2>2, <2>3, <2>4, CreateKeepsMoney
  <2>6. \A p \in Penalties : PenaltyAmount - q.after[p] <= deducted'[p]
    BY <1>1, <2>5 DEF Knows, Planned
  <2>7. owed' \in Lines /\ NeverForgiven'
    <3>1. CASE together
      BY <3>1, <1>1, <1>3, <2>5, <2>6, PenaltiesApplied DEF Grows
    <3>2. CASE ~together
      <4>1. owed' = owed
        BY <3>2, <1>3
      <4>2. ASSUME NEW p \in Penalties PROVE PenaltyAmount - owed[p] <= deducted'[p]
        <5>1. PenaltyAmount - owed[p] <= deducted[p] /\ deducted[p] <= deducted'[p]
          BY <1>1, <2>5 DEF NeverForgiven, Grows
        <5>2. PenaltyAmount \in Nat /\ owed[p] \in Nat /\ deducted[p] \in Nat
              /\ deducted'[p] \in Nat
          BY TaskPayoutAssumption, <1>1, <2>5 DEF TypeOK, Lines
        <5> QED BY <5>1, <5>2
      <4> QED BY <1>1, <4>1, <4>2 DEF TypeOK, NeverForgiven
    <3> QED BY <3>1, <3>2
  <2>8. \E r \in Requests : /\ Become(h, r) /\ ~Claims(r)
                            /\ Knows(r, escrow', payout', paid', deducted')
    <3>1. CASE Return(h)
      <4>1. ~Claims(Idle)
        BY DEF Claims, Idle
      <4> QED BY <3>1, <4>1, IdleKnows DEF Return
    <3>2. CASE GoTo(h, "apply")
      <4> DEFINE r == [q EXCEPT !.step = "apply"]
      <4>1. r \in Requests /\ r.step = "apply" /\ r.after = q.after
        BY <1>1 DEF Requests, Steps
      <4>2. Become(h, r)
        BY <3>2 DEF GoTo, Become, q, PInv, TypeOK
      <4> HIDE DEF r
      <4>3. ~Claims(r) /\ Knows(r, escrow', payout', paid', deducted')
        BY <4>1, <2>6 DEF Claims, Knows, Planned
      <4> QED BY <4>1, <4>2, <4>3
    <3> QED BY <3>1, <3>2, <1>3
  <2>9. PICK r \in Requests : /\ Become(h, r) /\ ~Claims(r)
                              /\ Knows(r, escrow', payout', paid', deducted')
    BY <2>8
  <2>10. TypeOK'
    BY <1>1, <2>4, <2>5, <2>7, <2>9 DEF TypeOK, Become
  <2>11. \A g \in Handlers \ {h} : Claims(req[g]) => Undisturbed(req[g].task)
    <3> SUFFICES ASSUME NEW g \in Handlers \ {h}, Claims(req[g])
                 PROVE  Undisturbed(req[g].task)
      OBVIOUS
    <3>1. req[g].task \in EscrowBacked
      BY <1>1 DEF TypeOK, Requests, Claims, EscrowBacked
    <3>2. CASE q.task \in Direct
      BY <3>1, <3>2, <2>5 DEF EscrowBacked
    <3>3. CASE q.task \notin Direct
      <4>1. Claims(req[h]) /\ q = req[h]
        BY <3>3, <1>1 DEF Claims, q
      <4>2. req[g].task # q.task
        BY <4>1, <1>1 DEF RequestInv
      <4> QED BY <3>1, <4>2, <2>5
    <3> QED BY <3>2, <3>3
  <2>12. RequestInv'
    BY <1>1, <2>5, <2>9, <2>10, <2>11, BecomeKnows
  <2> QED BY <2>5, <2>7, <2>10, <2>12 DEF PInv
<1> QED BY <1>2, <1>3 DEF InsertPayout

LEMMA ApplyPenaltiesStep ==
  ASSUME PInv, NEW h \in Handlers, ApplyPenalties(h)
  PROVE  PInv'
<1>1. TypeOK /\ RequestInv /\ NeverForgiven /\ req[h].step = "apply" /\ req[h] \in Requests
      /\ Return(h) /\ UNCHANGED <<escrow, payout, deducted, paid>>
      /\ Knows(req[h], escrow, payout, paid, deducted)
  BY DEF PInv, TypeOK, RequestInv, ApplyPenalties, At
<1>2. CASE UNCHANGED owed
  BY <1>1, <1>2, QuietReturn
<1>3. CASE ApplyPenaltyLines(req[h])
  <2>1. Grows
    <3>1. \A p \in Penalties : deducted[p] <= deducted'[p]
      BY <1>1 DEF TypeOK, Lines
    <3> QED BY <3>1, <1>1 DEF Grows, Exists
  <2>2. deducted' \in Lines
        /\ \A p \in Penalties : PenaltyAmount - req[h].after[p] <= deducted'[p]
    BY <1>1 DEF TypeOK, Knows
  <2>3. owed' \in Lines /\ NeverForgiven'
    BY <1>1, <1>3, <2>1, <2>2, PenaltiesApplied DEF Grows
  <2>4. TypeOK'
    BY <1>1, <2>3, IdleKnows DEF TypeOK, Return, Become
  <2>5. \A u : Undisturbed(u)
    BY <1>1 DEF Undisturbed, RowsOf, Exists
  <2>6. ~Claims(Idle)
    BY DEF Claims, Idle
  <2>7. RequestInv'
    BY <1>1, <2>1, <2>4, <2>5, <2>6, IdleKnows, BecomeKnows DEF Return
  <2>8. MoneyInv'
    BY <1>1 DEF PInv, MoneyInv, UnclaimedUnpaid, OnePayout, PaidWithinHeld, EscrowInv,
                RowInv, RowsOf, Exists
  <2> QED BY <2>3, <2>4, <2>7, <2>8 DEF PInv
<1> QED BY <1>1, <1>2, <1>3 DEF ApplyPenalties

-----------------------------------------------------------------------------
(* The theorems                                                            *)

LEMMA PInvInit == Init => PInv
<1> SUFFICES ASSUME Init PROVE PInv
  OBVIOUS
<1>1. (CHOOSE t \in Tasks : TRUE) \in Tasks /\ PenaltyAmount \in Nat
      /\ 0 \in 0..Amount /\ 0 \in 0..MaxPaid
  BY TaskPayoutAssumption
<1>2. NoRow \in Rows /\ NoRow.status = "none"
  BY <1>1 DEF NoRow, Rows
<1>3. NoLines \in Lines
  BY DEF NoLines, Lines
<1>4. TypeOK
  BY <1>1, <1>2, <1>3, IdleKnows DEF Init, TypeOK, Lines
<1>5. RequestInv
  <2>1. ~Claims(Idle)
    BY DEF Claims, Idle
  <2> QED BY <2>1, IdleKnows DEF Init, RequestInv
<1>6. \A i \in Payouts : ~Exists(i)
  BY <1>2 DEF Init, Exists
<1>7. MoneyInv
  BY <1>6, TaskPayoutAssumption
     DEF Init, MoneyInv, UnclaimedUnpaid, OnePayout, PaidWithinHeld, EscrowInv, RowInv,
         RowsOf, EscrowBacked
<1>8. NeverForgiven
  BY <1>1 DEF Init, NeverForgiven, NoLines
<1> QED BY <1>4, <1>5, <1>7, <1>8 DEF PInv

LEMMA PInvStep == PInv /\ [Next]_vars => PInv'
<1> SUFFICES ASSUME PInv, [Next]_vars PROVE PInv'
  OBVIOUS
<1>1. CASE UNCHANGED vars
  BY <1>1 DEF vars, PInv, TypeOK, RequestInv, MoneyInv, UnclaimedUnpaid, OnePayout,
              PaidWithinHeld, EscrowInv, RowInv, NeverForgiven, RowsOf, Exists
<1>2. CASE Operate
  BY <1>2, OpsPayOutStep, HoldPayoutStep, UpdatePayoutStatusStep, RefundHeldPaymentStep
     DEF Operate
<1>3. ASSUME NEW h \in Handlers, Receive(h) PROVE PInv'
  <2>1. ASSUME NEW t \in Tasks, NEW user \in Callers(t), BeginPayout(h, t, user)
        PROVE  PInv'
    <3>1. user \in BOOLEAN
      BY DEF Callers
    <3> QED BY <2>1, <3>1, BeginPayoutStep
  <2> QED BY <1>3, <2>1, BeginRaiseIssueStep DEF Receive
<1>4. ASSUME NEW h \in Handlers, Continue(h) PROVE PInv'
  <2>1. CASE FindHeldPayout(h) \/ ResumeHeldPayout(h) \/ ReadEscrow(h) \/ PlanPayout(h)
    BY <2>1, FindHeldPayoutStep, ResumeHeldPayoutStep, ReadEscrowStep, PlanPayoutStep
  <2>2. CASE RecordAdjustedPayout(h) \/ RecordManualPayout(h)
    BY <2>2, RecordPayoutStep DEF RecordAdjustedPayout, RecordManualPayout
  <2>3. CASE ClaimForTransfer(h) \/ TransferRazorpayX(h) \/ InsertPayout(h)
             \/ ApplyPenalties(h) \/ HoldBookNowPayout(h)
    BY <2>3, ClaimForTransferStep, TransferRazorpayXStep, InsertPayoutStep,
       ApplyPenaltiesStep, HoldBookNowPayoutStep
  <2> QED BY <1>4, <2>1, <2>2, <2>3 DEF Continue
<1> QED BY <1>1, <1>2, <1>3, <1>4, CrashStep DEF Next

LEMMA PInvAlways == Spec => []PInv
BY PInvInit, PInvStep, PTL DEF Spec

\* Every state of a payout, of the penalties and of the requests has its type;
\* in particular no plan takes a penalty below zero.
THEOREM PayoutTypeCorrect == Spec => []TypeOK
BY PInvAlways, PTL DEF PInv

\* The claim comes before any money and any row (processTaskCompletionPayout's
\* conditional held -> released update).
THEOREM ClaimedFirst == Spec => []UnclaimedUnpaid
BY PInvAlways, PTL DEF PInv, MoneyInv

\* However many completions of a task race, fail and are retried, one Payout row
\* pays its held payment.
THEOREM PaidByOneRow == Spec => []OnePayout
BY PInvAlways, PTL DEF PInv, MoneyInv

\* A held payment pays out at most the task amount, unless its completed row was
\* put on hold and resumed.
THEOREM PaidNoMoreThanHeld == Spec => []PaidWithinHeld
BY PInvAlways, PTL DEF PInv, MoneyInv

\* Overlapping payouts, crashes and failed writes never shrink a penalty by more
\* than Payout rows deducted for it.
THEOREM PenaltiesKept == Spec => []NeverForgiven
BY PInvAlways, PTL DEF PInv

-----------------------------------------------------------------------------
(* Bookings: amounts and shares of them                                    *)

LEMMA NearestBounds ==
  ASSUME NEW a \in Nat, NEW b \in Nat \ {0}
  PROVE  /\ Nearest(a, b) \in Nat
         /\ 2 * b * Nearest(a, b) <= 2 * a + b
         /\ 2 * a + b < 2 * b * Nearest(a, b) + 2 * b
BY DEF Nearest

LEMMA ShareBounds ==
  ASSUME NEW a, NEW p, NEW product \in Nat, product = a * p
  PROVE  /\ Share(a, p) \in Nat
         /\ 20000 * Share(a, p) <= 2 * product + 10000
         /\ 2 * product + 10000 < 20000 * Share(a, p) + 20000
<1> DEFINE n == Nearest(product, 10000)
<1>1. /\ n \in Nat
      /\ 2 * 10000 * n <= 2 * product + 10000
      /\ 2 * product + 10000 < 2 * 10000 * n + 2 * 10000
  BY NearestBounds
<1>2. Share(a, p) = n
  BY DEF Share, Whole
<1> HIDE DEF n
<1> QED BY <1>1, <1>2

LEMMA ShareNat == ASSUME NEW a \in Nat, NEW p \in Nat PROVE Share(a, p) \in Nat
<1> DEFINE product == a * p
<1>1. product \in Nat /\ product = a * p
  OBVIOUS
<1> HIDE DEF product
<1> QED BY <1>1, ShareBounds

LEMMA LargestMember ==
  ASSUME NEW S, IsFiniteSet(S), S # {}, \A x \in S : x \in Int
  PROVE  Max(S) \in S /\ \A x \in S : x <= Max(S)
<1> DEFINE UpTo(x) == {y \in S : y > x}
           Tails == {UpTo(x) : x \in S}
<1>1. Tails \subseteq SUBSET S
  OBVIOUS
<1>2. Tails # {}
  OBVIOUS
<1>3. \E s \in Tails : \A t \in Tails : t \subseteq s => t = s
  <2> HIDE DEF Tails, UpTo
  <2> QED BY <1>1, <1>2, SmallestMember
<1>4. PICK m \in S : \A x \in S : UpTo(x) \subseteq UpTo(m) => UpTo(x) = UpTo(m)
  <2> HIDE DEF UpTo
  <2> QED BY <1>3
<1>5. ASSUME NEW x \in S, x > m PROVE FALSE
  <2>1. \A y \in S : y \in Int
    OBVIOUS
  <2>2. x \in UpTo(m) /\ x \notin UpTo(x)
    BY <1>5, <2>1
  <2>3. \A y \in S : y > x => y > m
    BY <1>5, <2>1
  <2>4. UpTo(x) \subseteq UpTo(m)
    BY <2>3
  <2> QED BY <1>4, <2>2, <2>4
<1>6. \A x \in S : m >= x
  BY <1>5
<1> QED BY <1>6 DEF Max

-----------------------------------------------------------------------------
(* Bookings: percentages that change and are kept                          *)

RateEntries == [key : Categories, rate : Percent \cup {Unset}, at : Moments]
AllRows == FeeRows({r.key : r \in CategoryRows})

\* Every value kept is of now or from before the last change.
FreshInv ==
  \A i \in Instances :
    /\ \A e \in cache[i] :
         e.at >= left /\ (e.value = StoredStructure \/ changed <= e.at)
    /\ \A e \in gstCache[i] :
         e.at >= left /\ (e.rate = queryGstPercentageForCategory(e.key) \/ changed <= e.at)

RatesTyped ==
  /\ left \in Moments
  /\ stored \in {{}} \cup {{s} : s \in Structures}
  /\ rows \subseteq AllRows /\ RowNames(rows) \subseteq RowNames(CategoryRows)
  /\ cache \in [Instances -> SUBSET [value : Structures \cup {DEFAULT}, at : Moments]]
  /\ gstCache \in [Instances -> SUBSET RateEntries]
  /\ changes \in 0 .. MaxChanges
  /\ changed \in Moments \cup {LongAgo}

RatesInv == RatesTyped /\ FreshInv

LEMMA RatesNumbers ==
  /\ \A m \in Moments : m \in Int
  /\ TTL \in Int /\ TTL > 0
  /\ Max(Moments) \in Moments /\ LongAgo \in Int
<1>1. IsFiniteSet(Moments) /\ Moments # {} /\ \A m \in Moments : m \in Int
  BY FeeRatesAssumption
<1>2. Max(Moments) \in Moments
  BY <1>1, LargestMember
<1>3. TTL \in Int /\ TTL > 0
  BY FeeRatesAssumption
<1> QED BY <1>1, <1>2, <1>3 DEF LongAgo

LEMMA StoredIs == ASSUME RatesTyped PROVE StoredStructure \in Structures \cup {DEFAULT}
BY DEF RatesTyped, StoredStructure

LEMMA RateIs ==
  ASSUME RatesTyped, NEW category
  PROVE  queryGstPercentageForCategory(category) \in Percent \cup {Unset}
<1>1. \A key, mode : RowsAt(key, mode) \subseteq rows /\ ActiveAt(key, mode) \subseteq rows
  BY DEF RowsAt, ActiveAt
<1>2. \A r \in rows : r.gst \in Percent \cup {Unset}
  BY DEF RatesTyped, AllRows, FeeRows
<1>3. \A key : RateAt(key) \in Percent \cup {Unset}
  BY <1>1, <1>2 DEF RateAt
<1> QED BY <1>1, <1>2, <1>3 DEF queryGstPercentageForCategory

LEMMA StructureIs ==
  ASSUME RatesTyped, NEW base \in FeeStructures, NEW category, NEW mode, NEW down
  PROVE  getFeeStructureForCategory(base, category, mode, down) \in FeeStructures
<1>1. CategoryRow(category, mode) \subseteq rows
  BY DEF CategoryRow, RowsAt
<1>2. \A r \in rows : r.gst \in Percent \cup {Unset} /\ r.platform \in Percent \cup {Unset}
  BY DEF RatesTyped, AllRows, FeeRows
<1>3. 1800 \in Percent
  BY DEF Percent, Whole
<1>4. \A p, g \in Percent : [base EXCEPT !.platform = p, !.gst = g] \in FeeStructures
  BY DEF FeeStructures
<1>5. base.platform \in Percent /\ base.gst \in Percent
  BY DEF FeeStructures
<1> DEFINE row == CHOOSE r \in CategoryRow(category, mode) : TRUE
<1>6. CASE down \/ CategoryRow(category, mode) = {}
  BY <1>6 DEF getFeeStructureForCategory
<1>7. CASE ~down /\ CategoryRow(category, mode) # {}
  <2>1. row \in rows
    BY <1>1, <1>7
  <2>2. row.gst \in Percent \cup {Unset} /\ row.platform \in Percent \cup {Unset}
    BY <1>2, <2>1
  <2> DEFINE p == IF row.platform = Unset THEN base.platform ELSE row.platform
             g == IF category \in Forced18 THEN 1800
                  ELSE IF row.gst = Unset THEN base.gst ELSE row.gst
  <2>3. p \in Percent /\ g \in Percent
    BY <1>3, <1>5, <2>2
  <2>4. getFeeStructureForCategory(base, category, mode, down)
          = [base EXCEPT !.platform = p, !.gst = g]
    BY <1>7 DEF getFeeStructureForCategory
  <2> HIDE DEF p, g
  <2> QED BY <1>4, <2>3, <2>4
<1> QED BY <1>6, <1>7

\* A load brings the rate of now, or serves the entry kept.
LEMMA LoadIs ==
  ASSUME RatesTyped, NEW i \in Instances, NEW c \in Categories, NEW down
  PROVE  LET got == loadGstPercentageForCategory(i, c, down) IN
         /\ got.rate \in Percent \cup {Unset, Failed}
         /\ got.kept \subseteq gstCache[i]
              \cup {[key |-> c, rate |-> queryGstPercentageForCategory(c), at |-> left]}
<1> DEFINE old == {e \in gstCache[i] : e.key = c}
           entry == CHOOSE e \in old : TRUE
<1>1. old # {} => entry.rate \in Percent \cup {Unset}
  BY DEF RatesTyped, RateEntries
<1>2. queryGstPercentageForCategory(c) \in Percent \cup {Unset}
  BY RateIs
<1> HIDE DEF entry
<1>3. old \subseteq gstCache[i]
  OBVIOUS
<1> HIDE DEF old
<1> QED BY <1>1, <1>2, <1>3 DEF loadGstPercentageForCategory, old, entry

LEMMA RowRateIs ==
  ASSUME RatesTyped, NEW i \in Instances, NEW c \in Categories, NEW down
  PROVE  resolveBookNowGstPercentage(i, c, down) \in Percent
<1>1. "default" \in Categories
  BY FeeRatesAssumption
<1>2. \A d \in Categories :
        loadGstPercentageForCategory(i, d, down).rate \in Percent \cup {Unset, Failed}
  BY LoadIs
<1>3. FALLBACK_GST \in Percent
  BY DEF FALLBACK_GST, Percent, Whole
<1> QED BY <1>1, <1>2, <1>3 DEF resolveBookNowGstPercentage

LEMMA KeptAfterIs ==
  ASSUME RatesTyped, NEW i \in Instances, NEW S \in SUBSET Categories, NEW down,
         NEW e \in KeptAfter(i, S, down)
  PROVE  \/ e \in gstCache[i]
         \/ \E c \in Categories :
              e = [key |-> c, rate |-> queryGstPercentageForCategory(c), at |-> left]
<1>1. "default" \in Categories
  BY FeeRatesAssumption
<1>2. e \in gstCache[i] \/ \E c \in Categories : e \in loadGstPercentageForCategory(i, c, down).kept
  BY <1>1 DEF KeptAfter
<1> QED BY <1>2, LoadIs

\* What is known of a value kept survives a change noted now.
LEMMA NoticedFresh ==
  ASSUME RatesTyped, FreshInv, NEW down \in BOOLEAN, Noticed(down),
         UNCHANGED <<left, stored, rows>>
  PROVE  /\ changed' \in Moments \cup {LongAgo} /\ changed' \in Int
         /\ StoredStructure' = StoredStructure
         /\ \A c : queryGstPercentageForCategory(c)' = queryGstPercentageForCategory(c)
         /\ \A i \in Instances : \A e \in cache[i] :
              /\ e.at \in Int /\ e.at >= left
              /\ e.value = StoredStructure \/ changed' <= e.at
         /\ \A i \in Instances : \A e \in gstCache[i] :
              /\ e.at \in Int /\ e.at >= left
              /\ e.rate = queryGstPercentageForCategory(e.key) \/ changed' <= e.at
         /\ down => changed' = left
         /\ ~down => changed' = changed
<1>1. left \in Moments /\ left \in Int /\ changed \in Moments \cup {LongAgo} /\ changed \in Int
  BY RatesNumbers DEF RatesTyped
<1>2. changed' = IF down THEN left ELSE changed
  BY DEF Noticed
<1>3. StoredStructure' = StoredStructure
      /\ \A c : queryGstPercentageForCategory(c)' = queryGstPercentageForCategory(c)
  BY DEF StoredStructure, queryGstPercentageForCategory, RateAt, ActiveAt, RowsAt
<1>4. \A i \in Instances : \A e \in cache[i] :
        /\ e.at \in Int /\ e.at >= left
        /\ e.value = StoredStructure \/ changed' <= e.at
  <2>1. \A i \in Instances : \A e \in cache[i] : e.at \in Int
    BY RatesNumbers DEF RatesTyped
  <2> QED BY <1>1, <1>2, <2>1 DEF FreshInv
<1>5. \A i \in Instances : \A e \in gstCache[i] :
        /\ e.at \in Int /\ e.at >= left
        /\ e.rate = queryGstPercentageForCategory(e.key) \/ changed' <= e.at
  <2>1. \A i \in Instances : \A e \in gstCache[i] : e.at \in Int
    BY RatesNumbers DEF RatesTyped, RateEntries
  <2> QED BY <1>1, <1>2, <2>1 DEF FreshInv
<1> QED BY <1>1, <1>2, <1>3, <1>4, <1>5

\* A request is served a structure of now, unless the last change is recent.
LEMMA Served ==
  ASSUME RatesInv, NEW i \in Instances, NEW base, NEW down \in BOOLEAN,
         getFeeStructure(i, base, down), Noticed(down),
         UNCHANGED <<left, stored, rows, gstCache, changes>>
  PROVE  /\ RatesInv'
         /\ base \in Structures \cup {DEFAULT}
         /\ base = StoredStructure \/ changed' - left < TTL
         /\ down => changed' = left
<1> USE DEF RatesInv
<1>1. left \in Moments /\ left \in Int /\ TTL \in Int /\ TTL > 0
  BY RatesNumbers DEF RatesTyped
<1>2. /\ changed' \in Moments \cup {LongAgo} /\ changed' \in Int
      /\ StoredStructure' = StoredStructure
      /\ \A c : queryGstPercentageForCategory(c)' = queryGstPercentageForCategory(c)
      /\ \A g \in Instances : \A e \in cache[g] :
           /\ e.at \in Int /\ e.at >= left
           /\ e.value = StoredStructure \/ changed' <= e.at
      /\ \A g \in Instances : \A e \in gstCache[g] :
           /\ e.at \in Int /\ e.at >= left
           /\ e.rate = queryGstPercentageForCategory(e.key) \/ changed' <= e.at
      /\ down => changed' = left
  BY NoticedFresh
<1>3. StoredStructure \in Structures \cup {DEFAULT}
  BY StoredIs
<1> DEFINE kept == {e \in cache[i] : Kept(e)}
<1>4. CASE kept # {}
  <2> DEFINE e == CHOOSE e \in kept : TRUE
  <2>1. e \in cache[i] /\ Kept(e)
    BY <1>4
  <2>2. base = e.value /\ cache' = cache
    BY <1>4 DEF getFeeStructure
  <2>3. e.value \in Structures \cup {DEFAULT}
    BY <2>1 DEF RatesTyped
  <2> HIDE DEF e
  <2>4. base = StoredStructure \/ changed' - left < TTL
    BY <1>1, <1>2, <2>1, <2>2 DEF Kept
  <2>5. RatesTyped'
    BY <1>2, <2>2 DEF RatesTyped
  <2>6. FreshInv'
    BY <1>2, <2>2 DEF FreshInv
  <2> QED BY <1>2, <2>2, <2>3, <2>4, <2>5, <2>6
<1>5. CASE kept = {}
  <2> DEFINE new == [value |-> base, at |-> left]
  <2>1. /\ base = IF down THEN DEFAULT ELSE StoredStructure
        /\ cache' = [cache EXCEPT ![i] = {new}]
    BY <1>5 DEF getFeeStructure
  <2>2. base \in Structures \cup {DEFAULT}
    BY <1>3, <2>1
  <2>3. base = StoredStructure \/ changed' <= left
    BY <1>1, <1>2, <2>1
  <2>4. new \in [value : Structures \cup {DEFAULT}, at : Moments]
    BY <1>1, <2>2
  <2>5. cache' \in [Instances -> SUBSET [value : Structures \cup {DEFAULT}, at : Moments]]
    BY <2>1, <2>4 DEF RatesTyped
  <2>6. RatesTyped'
    BY <1>2, <2>5 DEF RatesTyped
  <2>7. \A g \in Instances : \A e \in cache'[g] : e \in cache[g] \/ e = new
    BY <2>1 DEF RatesTyped
  <2>8. FreshInv'
    BY <1>1, <1>2, <2>3, <2>7 DEF FreshInv
  <2> QED BY <1>1, <1>2, <2>2, <2>3, <2>6, <2>8
<1> QED BY <1>4, <1>5

LEMMA RatesLoaded ==
  ASSUME RatesInv, NEW i \in Instances, NEW S \in SUBSET Categories, NEW down \in BOOLEAN,
         gstCache' = [gstCache EXCEPT ![i] = KeptAfter(i, S, down)], Noticed(down),
         UNCHANGED <<left, stored, rows, cache, changes>>
  PROVE  RatesInv'
<1> USE DEF RatesInv
<1>1. left \in Moments /\ left \in Int
  BY RatesNumbers DEF RatesTyped
<1>2. /\ changed' \in Moments \cup {LongAgo} /\ changed' \in Int
      /\ StoredStructure' = StoredStructure
      /\ \A c : queryGstPercentageForCategory(c)' = queryGstPercentageForCategory(c)
      /\ \A g \in Instances : \A e \in cache[g] :
           /\ e.at \in Int /\ e.at >= left
           /\ e.value = StoredStructure \/ changed' <= e.at
      /\ \A g \in Instances : \A e \in gstCache[g] :
           /\ e.at \in Int /\ e.at >= left
           /\ e.rate = queryGstPercentageForCategory(e.key) \/ changed' <= e.at
  BY NoticedFresh
<1> DEFINE New(c) == [key |-> c, rate |-> queryGstPercentageForCategory(c), at |-> left]
<1>3. \A c \in Categories : New(c) \in RateEntries
  BY <1>1, RateIs DEF RateEntries
<1>4. \A g \in Instances : \A e \in gstCache'[g] :
        e \in gstCache[g] \/ \E c \in Categories : e = New(c)
  <2>1. \A g \in Instances : gstCache'[g] = IF g = i THEN KeptAfter(i, S, down) ELSE gstCache[g]
    BY DEF RatesTyped
  <2> QED BY <2>1, KeptAfterIs
<1>5. gstCache' \in [Instances -> SUBSET RateEntries]
  <2>1. gstCache' \in [Instances -> SUBSET UNION {gstCache'[g] : g \in Instances}]
    BY DEF RatesTyped
  <2>2. \A g \in Instances : gstCache'[g] \subseteq RateEntries
    BY <1>3, <1>4 DEF RatesTyped
  <2> QED BY <2>1, <2>2
<1>6. RatesTyped'
  BY <1>2, <1>5 DEF RatesTyped
<1>7. \A g \in Instances : \A e \in gstCache'[g] :
        /\ e.at >= left
        /\ e.rate = queryGstPercentageForCategory(e.key) \/ changed' <= e.at
  BY <1>1, <1>2, <1>4
<1>8. FreshInv'
  BY <1>2, <1>7 DEF FreshInv
<1> QED BY <1>6, <1>8

LEMMA RatesKept ==
  ASSUME RatesInv, UNCHANGED rateVars
  PROVE  RatesInv'
<1>1. StoredStructure' = StoredStructure
      /\ \A c : queryGstPercentageForCategory(c)' = queryGstPercentageForCategory(c)
  BY DEF rateVars, StoredStructure, queryGstPercentageForCategory, RateAt, ActiveAt, RowsAt
<1> QED BY <1>1 DEF rateVars, RatesInv, RatesTyped, FreshInv

LEMMA RatesStart == ASSUME RatesInit PROVE RatesInv
<1>1. RatesTyped
  <2>1. rows \subseteq AllRows /\ RowNames(rows) \subseteq RowNames(CategoryRows)
    BY FeeRatesAssumption DEF RatesInit, AllRows
  <2>2. left \in Moments /\ 0 \in 0 .. MaxChanges
    BY RatesNumbers, FeeRatesAssumption DEF RatesInit
  <2> QED BY <2>1, <2>2 DEF RatesInit, RatesTyped
<1>2. FreshInv
  BY DEF RatesInit, FreshInv
<1> QED BY <1>1, <1>2 DEF RatesInv

\* A change of the configuration makes every kept value one of before.
LEMMA Reconfigured ==
  ASSUME RatesInv, ConfigurationChanges
  PROVE  RatesInv' /\ changed' = left /\ left' = left
<1> USE DEF RatesInv
<1>1. left \in Moments /\ left \in Int
  BY RatesNumbers DEF RatesTyped
<1>2. ASSUME changed' = left, left' = left, UNCHANGED gstCache, changes' = changes + 1,
             changes < MaxChanges,
             \A g \in Instances : cache'[g] \subseteq cache[g]
      PROVE  FreshInv' /\ changes' \in 0 .. MaxChanges
  <2>1. \A g \in Instances : \A e \in cache[g] : e.at \in Int /\ e.at >= left
    BY RatesNumbers DEF RatesTyped, FreshInv
  <2>2. \A g \in Instances : \A e \in gstCache[g] : e.at \in Int /\ e.at >= left
    BY RatesNumbers DEF RatesTyped, RateEntries, FreshInv
  <2>3. FreshInv'
    BY <1>1, <1>2, <2>1, <2>2 DEF FreshInv
  <2> QED BY <1>2, <2>3, FeeRatesAssumption DEF RatesTyped
<1>3. ASSUME NEW s \in Structures, StoreStructure(s)
      PROVE  RatesInv' /\ changed' = left /\ left' = left
  BY <1>1, <1>2, <1>3 DEF StoreStructure, RatesTyped
<1>4. ASSUME NEW i \in Instances, NEW new, ChangeRows(i, new), new \subseteq AllRows,
             RowNames(new) \subseteq RowNames(CategoryRows)
      PROVE  RatesInv' /\ changed' = left /\ left' = left
  <2>1. \A g \in Instances : cache'[g] \subseteq cache[g]
    BY <1>4 DEF ChangeRows, RatesTyped
  <2>2. cache' \in [Instances -> SUBSET [value : Structures \cup {DEFAULT}, at : Moments]]
    BY <1>4 DEF ChangeRows, RatesTyped
  <2>3. FreshInv' /\ changes' \in 0 .. MaxChanges
    BY <1>2, <1>4, <2>1 DEF ChangeRows
  <2> QED BY <1>1, <1>4, <2>2, <2>3 DEF ChangeRows, RatesTyped
<1>5. ASSUME NEW i \in Instances, NEW r \in CategoryRows, upsertCategoryFeeConfig(i, r)
      PROVE  RatesInv' /\ changed' = left /\ left' = left
  <2> DEFINE old == RowsAt(r.key, r.mode)
             o == CHOOSE o \in old : TRUE
             was == IF old = {} THEN r ELSE o
             p == IF r.platform = Unset THEN was.platform ELSE r.platform
             g == IF r.gst = Unset THEN was.gst ELSE r.gst
             row == [r EXCEPT !.platform = p, !.gst = g]
  <2>1. r \in AllRows
    BY FeeRatesAssumption DEF AllRows
  <2>2. old \subseteq rows /\ (old # {} => o \in rows)
    BY DEF RowsAt
  <2>3. was \in AllRows
    BY <2>1, <2>2 DEF RatesTyped
  <2> HIDE DEF was
  <2>4. p \in Percent \cup {Unset} /\ g \in Percent \cup {Unset}
    BY <2>1, <2>3 DEF AllRows, FeeRows
  <2>5. row \in AllRows /\ row.key = r.key /\ row.mode = r.mode
    <3> HIDE DEF p, g
    <3> QED BY <2>1, <2>4 DEF AllRows, FeeRows
  <2>6. ChangeRows(i, (rows \ old) \cup {row})
    BY <1>5 DEF upsertCategoryFeeConfig, was
  <2> HIDE DEF row, old
  <2>7. (rows \ old) \cup {row} \subseteq AllRows
    BY <2>5 DEF RatesTyped
  <2>8. RowNames((rows \ old) \cup {row}) \subseteq RowNames(CategoryRows)
    BY <2>5 DEF RatesTyped, RowNames
  <2> QED BY <1>4, <2>6, <2>7, <2>8
<1>6. ASSUME NEW i \in Instances, NEW r \in CategoryRows, deleteCategoryFeeConfig(i, r)
      PROVE  RatesInv' /\ changed' = left /\ left' = left
  <2>1. ChangeRows(i, rows \ {r})
    BY <1>6 DEF deleteCategoryFeeConfig
  <2>2. rows \ {r} \subseteq AllRows
    BY DEF RatesTyped
  <2>3. RowNames(rows \ {r}) \subseteq RowNames(CategoryRows)
    BY DEF RatesTyped, RowNames
  <2> QED BY <1>4, <2>1, <2>2, <2>3
<1> QED BY <1>3, <1>5, <1>6 DEF ConfigurationChanges

LEMMA Passed ==
  ASSUME RatesInv, Pass
  PROVE  RatesInv' /\ left' <= left /\ changed' = changed
<1> USE DEF RatesInv
<1> DEFINE later == {m \in Moments : m < left}
<1>1. left \in Moments /\ left \in Int
  BY RatesNumbers DEF RatesTyped
<1>2. \A m \in later : m \in Int
  BY RatesNumbers
<1>3. IsFiniteSet(later)
  <2>1. IsFiniteSet(Moments) /\ later \subseteq Moments
    BY FeeRatesAssumption
  <2> HIDE DEF later
  <2> QED BY <2>1, FS_Subset
<1>4. later # {} /\ left' = Max(later)
  BY DEF Pass
<1>5. Max(later) \in later
  BY <1>2, <1>3, <1>4, LargestMember
<1>6. left' \in Moments /\ left' \in Int /\ left' < left
  BY <1>2, <1>4, <1>5
<1>7. StoredStructure' = StoredStructure
      /\ \A c : queryGstPercentageForCategory(c)' = queryGstPercentageForCategory(c)
  BY DEF Pass, StoredStructure, queryGstPercentageForCategory, RateAt, ActiveAt, RowsAt
<1>8. RatesTyped'
  BY <1>6 DEF Pass, RatesTyped
<1>9. FreshInv'
  <2>1. \A g \in Instances : \A e \in cache[g] : e.at \in Int /\ e.at >= left
    BY RatesNumbers DEF RatesTyped, FreshInv
  <2>2. \A g \in Instances : \A e \in gstCache[g] : e.at \in Int /\ e.at >= left
    BY RatesNumbers DEF RatesTyped, RateEntries, FreshInv
  <2>3. \A x \in Int : x >= left => x >= left'
    BY <1>1, <1>6
  <2> QED BY <1>7, <2>1, <2>2, <2>3 DEF Pass, FreshInv
<1> QED BY <1>1, <1>6, <1>8, <1>9 DEF Pass

\* What the invariant is for.
LEMMA RatesHold == ASSUME RatesInv PROVE RatesTypeOK /\ RatesSettle
<1> USE DEF RatesInv
<1>1. Cardinality(stored) <= 1 /\ stored \subseteq Structures
  <2>1. CASE stored = {}
    BY <2>1, FS_EmptySet
  <2>2. CASE \E s \in Structures : stored = {s}
    <3>1. PICK s \in Structures : stored = {s}
      BY <2>2
    <3>2. Cardinality({s}) = 1
      BY FS_Singleton
    <3> QED BY <3>1, <3>2
  <2> QED BY <2>1, <2>2 DEF RatesTyped
<1>2. RatesTypeOK
  BY <1>1 DEF RatesTyped, RatesTypeOK, RateEntries
<1>3. left \in Int /\ changed \in Int /\ TTL \in Int
  BY RatesNumbers DEF RatesTyped
<1>4. \A i \in Instances : \A e \in cache[i] : e.at \in Int
  BY RatesNumbers DEF RatesTyped
<1>5. \A i \in Instances : \A e \in gstCache[i] : e.at \in Int
  BY RatesNumbers DEF RatesTyped, RateEntries
<1>6. RatesSettle
  BY <1>3, <1>4, <1>5 DEF RatesSettle, FreshInv, Kept
<1> QED BY <1>2, <1>6

-----------------------------------------------------------------------------
(* Bookings: a bidding task                                                *)

CurrentFees == CategoryFees(StoredStructure, FALSE)

\* Something said at the moment at holds now, or a change came too late.
Timely(holds, at) == at \in Int /\ at >= left /\ (holds \/ changed - at < TTL)

TaskOrder(o) ==
  /\ o.total \in Nat /\ o.captured \in Nat /\ o.captured <= o.total /\ Task <= o.total
  /\ o.structure \in FeeStructures /\ o.task \in {Task, NoAmount} /\ o.current \in BOOLEAN
  /\ o.task = NoAmount =>
       ~o.current /\ o.captured = calculatePosterFees(Task, o.structure).totalAmount

AnswerInv ==
  /\ answer.of = "refusal" => Timely(FALSE, answer.asked)
  /\ EstimateIsPaid /\ CancelCovered /\ FeeIsSplit

ShownInv ==
  \A q \in shown :
    /\ q.total \in Nat /\ Task <= q.total
    /\ Timely(q.total = calculatePosterFees(Task, CurrentFees).totalAmount, q.at)

EstimateInv ==
  \A e \in estimate :
    Timely(e.net = estimateBiddingTaskCompletionPayout(Task, CurrentFees), e.at)

TaskInv ==
  kind = "bidding" =>
    /\ ShownInv /\ EstimateInv
    /\ \A o \in order : TaskOrder(o)
    /\ answer = NoAnswer => returned = 0

OrderInv ==
  /\ kind \in Kinds
  /\ \A o, p \in order : o = p
  /\ order = {} <=> status = "none"
  /\ status \in {"none", "held", "released", "refunded"}
  /\ assigned \in Moments \cup {Unassigned} /\ reached \in BOOLEAN
  /\ answer # NoAnswer => kind = "bidding"

LEMMA PaidIs ==
  ASSUME OrderInv, NEW o \in order
  PROVE  Paid = o
<1>1. (CHOOSE p \in order : TRUE) \in order
  OBVIOUS
<1> QED BY <1>1 DEF Paid, OrderInv

LEMMA StructureParts ==
  ASSUME NEW s \in FeeStructures
  PROVE  /\ Whole = 10000
         /\ s.platform \in Nat /\ s.platform <= Whole
         /\ s.gst \in Nat /\ s.gst <= Whole
         /\ s.toOtherParty \in Nat /\ s.toPlatform \in Nat
         /\ s.toOtherParty + s.toPlatform = Whole
<1>1. /\ s.platform \in Nat /\ s.platform <= Whole
      /\ s.gst \in Nat /\ s.gst <= Whole
      /\ s.toOtherParty \in Nat /\ s.toPlatform \in Nat
      /\ s.toOtherParty + s.toPlatform = Whole
  BY DEF FeeStructures, Percent
<1>2. Whole = 10000
  BY DEF Whole
<1> QED BY <1>1, <1>2

LEMMA FeesNat ==
  ASSUME NEW task \in Nat, NEW s \in FeeStructures
  PROVE  /\ PlatformFeeTotal(task, s) \in Nat
         /\ Share(task, s.platform) \in Nat
         /\ Share(task, s.platform) <= PlatformFeeTotal(task, s)
<1>1. s.platform \in Nat /\ s.gst \in Nat
  BY DEF FeeStructures, Percent
<1>2. Share(task, s.platform) \in Nat
  BY <1>1, ShareNat
<1>3. Share(Share(task, s.platform), s.gst) \in Nat
  BY <1>1, <1>2, ShareNat
<1> QED BY <1>2, <1>3 DEF PlatformFeeTotal

\* The amount of the task taken out of the captured amount is a part of it.
LEMMA InferredIs ==
  ASSUME NEW s \in FeeStructures, NEW captured \in Nat,
         captured = calculatePosterFees(Task, s).totalAmount
  PROVE  InferredTask(captured, s) \in 1 .. captured
<1> DEFINE p == s.platform
           g == s.gst
           k == Nearest(p * (Whole + g), Whole)
           b == Whole + k
           n == InferredTask(captured, s)
<1>1. Task \in Nat /\ Task >= 1
  BY BookingAssumption
<1>2. /\ p \in Nat /\ p <= Whole /\ g \in Nat /\ g <= Whole /\ Whole = 10000
      /\ Task \in Nat /\ Task >= 1
  BY <1>1, StructureParts
<1>3. captured >= Task + Share(Task, p) /\ Share(Task, p) \in Nat
  BY <1>2, FeesNat DEF calculatePosterFees
<1>4. 2 * (Task * p) + 10000 < 20000 * Share(Task, p) + 20000
  <2> DEFINE product == Task * p
  <2>1. product \in Nat /\ product = Task * p
    BY <1>2
  <2> HIDE DEF product
  <2>2. 2 * product + 10000 < 20000 * Share(Task, p) + 20000
    BY <2>1, ShareBounds
  <2> QED BY <2>2 DEF product
<1>5. n = Nearest(captured * Whole, b)
  BY DEF InferredTask
<1> HIDE DEF n
<1>6. k \in Nat /\ 2 * Whole * k <= 2 * (p * (Whole + g)) + Whole
  <2>1. p * (Whole + g) \in Nat /\ Whole \in Nat \ {0}
    BY <1>2
  <2> QED BY <2>1, NearestBounds
<1> HIDE DEF k
<1>7. k <= 2 * p
  <2>1. p * (Whole + g) <= 2 * (p * Whole)
    BY <1>2
  <2> QED BY <1>2, <1>6, <2>1
<1>8. b \in Nat \ {0} /\ b >= Whole /\ b <= 2 * (captured * Whole)
  <2>1. CASE p < 5000
    BY <1>2, <1>3, <1>6, <1>7, <2>1
  <2>2. CASE p >= 5000
    <3>1. Task * p >= 5000
      BY <1>2, <2>2
    <3>2. Share(Task, p) >= 1
      BY <1>2, <1>3, <1>4, <3>1
    <3> QED BY <1>2, <1>3, <1>6, <1>7, <3>2
  <2> QED BY <1>2, <2>1, <2>2
<1> HIDE DEF b
<1>9. /\ n \in Nat
      /\ 2 * b * n <= 2 * (captured * Whole) + b
      /\ 2 * (captured * Whole) + b < 2 * b * n + 2 * b
  <2>1. captured * Whole \in Nat
    BY <1>2
  <2> QED BY <1>5, <1>8, <2>1, NearestBounds
<1>10. n >= 1
  BY <1>2, <1>8, <1>9
<1>11. ASSUME n > captured PROVE FALSE
  <2>1. b * n >= b * (captured + 1)
    BY <1>8, <1>9, <1>11
  <2>2. b * captured >= Whole * captured
    BY <1>2, <1>8
  <2> QED BY <1>2, <1>8, <1>9, <2>1, <2>2
<1> QED BY <1>9, <1>10, <1>11 DEF n

LEMMA RefundBaseIs ==
  ASSUME NEW o, TaskOrder(o)
  PROVE  LET base == RefundTaskBase(o.task, o.captured, o.structure) IN
         base \in Nat /\ base >= 1 /\ (o.captured = o.total => base <= o.captured)
<1>1. Task \in Nat /\ Task >= 1 /\ Task # NoAmount
  BY BookingAssumption DEF NoAmount
<1>2. CASE o.task = Task
  BY <1>1, <1>2 DEF RefundTaskBase, TaskOrder
<1>3. CASE o.task = NoAmount
  BY <1>3, InferredIs DEF RefundTaskBase, TaskOrder
<1> QED BY <1>2, <1>3 DEF TaskOrder

\* Two shares of a fee that make it up do so to a paisa.
LEMMA FeeSplits ==
  ASSUME NEW fee \in Nat, NEW s \in FeeStructures
  PROVE  Share(fee, s.toOtherParty) + Share(fee, s.toPlatform) - fee \in 0 .. 1
<1> DEFINE a == s.toOtherParty
           b == s.toPlatform
<1>1. a \in Nat /\ b \in Nat /\ a + b = Whole /\ Whole = 10000
  BY StructureParts
<1> HIDE DEF a, b
<1>2. fee * a + fee * b = 10000 * fee
  BY <1>1
<1> DEFINE u == fee * a
           v == fee * b
<1>3. u \in Nat /\ v \in Nat /\ u + v = 10000 * fee
  BY <1>1, <1>2
<1>4. u = fee * a /\ v = fee * b
  OBVIOUS
<1> HIDE DEF u, v
<1>5. /\ Share(fee, a) \in Nat
      /\ 20000 * Share(fee, a) <= 2 * u + 10000
      /\ 2 * u + 10000 < 20000 * Share(fee, a) + 20000
  BY <1>3, <1>4, ShareBounds
<1>6. /\ Share(fee, b) \in Nat
      /\ 20000 * Share(fee, b) <= 2 * v + 10000
      /\ 2 * v + 10000 < 20000 * Share(fee, b) + 20000
  BY <1>3, <1>4, ShareBounds
<1>7. Share(fee, a) + Share(fee, b) - fee \in 0 .. 1
  BY <1>3, <1>5, <1>6
<1> QED BY <1>7 DEF a, b

LEMMA PercentsAre ==
  ASSUME NEW m, NEW at, NEW s \in FeeStructures
  PROVE  /\ PosterCancellationPercent(m, at) \in {0, 1000, 2000}
         /\ PerformerCancellationPercent(m, s) \in Nat
<1>1. s.platform \in Nat /\ Whole + s.gst \in Nat /\ Whole \in Nat \ {0}
  BY StructureParts
<1>2. s.platform * (Whole + s.gst) \in Nat
  BY <1>1
<1>3. Nearest(s.platform * (Whole + s.gst), Whole) \in Nat
  BY <1>1, <1>2, NearestBounds, Zenon
<1> QED BY <1>3 DEF PosterCancellationPercent, PerformerCancellationPercent

\* What happened less than t before one moment did so before a later one.
LEMMA StillRecent == \A a, b, c, t \in Int : a >= b /\ c - b < t => c - a < t
OBVIOUS

\* Time passes, or something is changed now.
Moves ==
  /\ left' \in Int /\ left' <= left /\ changed' \in Int
  /\ changed' = left \/ (changed' = changed /\ CurrentFees' = CurrentFees)

LEMMA SaidStays ==
  ASSUME RatesInv, Moves
  PROVE  /\ ShownInv /\ UNCHANGED shown => ShownInv'
         /\ EstimateInv /\ UNCHANGED estimate => EstimateInv'
         /\ AnswerInv /\ (answer.of = "payout" => EstimateInv)
              /\ UNCHANGED <<answer, order, status, returned, estimate>> => AnswerInv'
<1>1. left \in Int /\ changed \in Int /\ TTL \in Int /\ TTL > 0
  BY RatesNumbers DEF RatesInv, RatesTyped
<1>2. left' \in Int /\ left' <= left /\ changed' \in Int
  BY DEF Moves
<1>3. ASSUME NEW at \in Int, at >= left PROVE at >= left'
  BY <1>1, <1>2, <1>3
<1>4. ASSUME NEW at \in Int, at >= left, changed' = left PROVE changed' - at < TTL
  BY <1>1, <1>4
<1>5. \A at \in Int : at >= left =>
        /\ at >= left'
        /\ changed - at < TTL => changed' - at < TTL
        /\ changed' - at < TTL \/ (changed' = changed /\ CurrentFees' = CurrentFees)
  BY <1>3, <1>4 DEF Moves
<1>6. ASSUME ShownInv, UNCHANGED shown PROVE ShownInv'
  BY <1>5, <1>6 DEF ShownInv, Timely
<1>7. ASSUME EstimateInv, UNCHANGED estimate PROVE EstimateInv'
  BY <1>5, <1>7 DEF EstimateInv, Timely
<1>8. ASSUME AnswerInv, answer.of = "payout" => EstimateInv,
             UNCHANGED <<answer, order, status, returned, estimate>>
      PROVE  AnswerInv'
  <2>1. Paid' = Paid
    BY <1>8 DEF Paid
  <2>2. (answer.of = "refusal" => Timely(FALSE, answer.asked))'
    BY <1>5, <1>8 DEF AnswerInv, Timely
  <2>3. EstimateIsPaid'
    <3>1. ASSUME answer.of = "payout", Paid.current, NEW e \in estimate
          PROVE  changed' - e.at < TTL \/ answer.net = e.net
      <4>1. e.at \in Int /\ e.at >= left
        BY <1>8, <3>1 DEF EstimateInv, Timely
      <4>2. changed - e.at < TTL \/ answer.net = e.net
        BY <1>8, <3>1 DEF AnswerInv, EstimateIsPaid
      <4> QED BY <1>5, <4>1, <4>2
    <3> QED BY <1>8, <2>1, <3>1 DEF EstimateIsPaid
  <2>4. CancelCovered' /\ FeeIsSplit'
    BY <1>8, <2>1 DEF AnswerInv, CancelCovered, FeeIsSplit
  <2> QED BY <2>2, <2>3, <2>4 DEF AnswerInv
<1> QED BY <1>6, <1>7, <1>8

\* A request about a task.
LEMMA TaskServed ==
  ASSUME RatesInv, NEW i \in Instances, NEW base, NEW down \in BOOLEAN, Serves(i, base, down)
  PROVE  /\ RatesInv' /\ Moves
         /\ base \in FeeStructures /\ CategoryFees(base, down) \in FeeStructures
         /\ CategoryFees(base, down) = CurrentFees \/ changed' - left < TTL
         /\ CurrentFees' = CurrentFees /\ left' = left /\ left \in Int
         /\ CurrentFees \in FeeStructures
         /\ kind' = kind /\ kind = "bidding" /\ answer = NoAnswer
<1>1. /\ getFeeStructure(i, base, down) /\ Noticed(down)
      /\ UNCHANGED <<left, stored, rows, gstCache, changes>>
      /\ kind' = kind /\ kind = "bidding" /\ answer = NoAnswer
  BY DEF Serves
<1>2. /\ RatesInv' /\ base \in Structures \cup {DEFAULT}
      /\ base = StoredStructure \/ changed' - left < TTL
      /\ down => changed' = left
  BY <1>1, Served
<1>3. left \in Int /\ changed \in Int /\ changed' \in Int /\ TTL \in Int /\ TTL > 0
  BY <1>2, RatesNumbers DEF RatesInv, RatesTyped
<1>4. Structures \cup {DEFAULT} \subseteq FeeStructures
  BY FeeRatesAssumption
<1>5. StoredStructure \in FeeStructures
  BY <1>4, StoredIs DEF RatesInv
<1>6. base \in FeeStructures /\ CategoryFees(base, down) \in FeeStructures
      /\ CurrentFees \in FeeStructures
  BY <1>2, <1>4, <1>5, StructureIs DEF CategoryFees, CurrentFees, RatesInv
<1>7. CategoryFees(base, down) = CurrentFees \/ changed' - left < TTL
  <2>1. CASE down
    <3>1. changed' = left
      BY <1>2, <2>1
    <3> QED BY <1>3, <3>1
  <2>2. CASE ~down
    <3>1. down = FALSE
      BY <2>2
    <3> QED BY <1>2, <3>1 DEF CurrentFees
  <2> QED BY <2>1, <2>2
<1>8. CurrentFees' = CurrentFees
  BY <1>1 DEF CurrentFees, CategoryFees, getFeeStructureForCategory, CategoryRow, ActiveAt, RowsAt,
              StoredStructure
<1>9. changed' = left \/ changed' = changed
  BY <1>1 DEF Noticed
<1>10. Moves
  BY <1>1, <1>3, <1>8, <1>9 DEF Moves
<1> QED BY <1>1, <1>2, <1>3, <1>6, <1>7, <1>8, <1>10

LEMMA ChargeIs ==
  ASSUME NEW a \in Nat, NEW coins \in Nat, NEW cap \in Nat
  PROVE  FinalCharge(a, coins, cap) \in Nat /\ FinalCharge(a, coins, cap) <= a
<1>1. Share(a, cap) \in Nat
  BY ShareNat
<1> QED BY <1>1 DEF FinalCharge, Larger, Smaller

LEMMA NothingAnswered ==
  ASSUME answer' = NoAnswer PROVE AnswerInv'
BY DEF NoAnswer, AnswerInv, EstimateIsPaid, CancelCovered, FeeIsSplit

\* What a request about a task must leave behind.
TaskKept == RatesInv' /\ TaskInv' /\ AnswerInv' /\ OrderInv'

LEMMA FeesCalculated ==
  ASSUME RatesInv, TaskInv, AnswerInv, OrderInv, NEW i \in Instances, NEW base,
         NEW down \in BOOLEAN, calculateFees(i, base, down)
  PROVE  TaskKept
<1> DEFINE s == CategoryFees(base, down)
           total == calculatePosterFees(Task, s).totalAmount
<1>1. Serves(i, base, down) /\ shown' = {[total |-> total, at |-> left]}
      /\ UNCHANGED <<estimate, order, status, assigned, answer, refundVars>>
  BY DEF calculateFees
<1>2. /\ RatesInv' /\ Moves /\ s \in FeeStructures
      /\ s = CurrentFees \/ changed' - left < TTL
      /\ CurrentFees' = CurrentFees /\ left' = left /\ left \in Int
      /\ kind' = kind /\ kind = "bidding" /\ answer = NoAnswer
  BY <1>1, TaskServed
<1>3. Task \in Nat /\ total = Task + PlatformFeeTotal(Task, s) /\ PlatformFeeTotal(Task, s) \in Nat
  BY <1>2, BookingAssumption, FeesNat DEF calculatePosterFees
<1>4. ShownInv'
  <2>1. total \in Nat /\ Task <= total
    BY <1>3
  <2>2. total = calculatePosterFees(Task, CurrentFees').totalAmount \/ changed' - left < TTL
    BY <1>2
  <2> HIDE DEF total, s
  <2> QED BY <1>1, <1>2, <2>1, <2>2 DEF ShownInv, Timely
<1>5. EstimateInv'
  BY <1>1, <1>2, SaidStays DEF TaskInv
<1>6. AnswerInv'
  BY <1>1, <1>2, NothingAnswered
<1>7. TaskInv'
  BY <1>1, <1>2, <1>4, <1>5 DEF TaskInv, refundVars, TaskOrder
<1>8. OrderInv'
  BY <1>1 DEF OrderInv, Serves
<1> QED BY <1>2, <1>6, <1>7, <1>8 DEF TaskKept

LEMMA PayoutEstimated ==
  ASSUME RatesInv, TaskInv, AnswerInv, OrderInv, NEW i \in Instances, NEW base,
         NEW down \in BOOLEAN, estimateTaskerPayout(i, base, down)
  PROVE  TaskKept
<1> DEFINE s == CategoryFees(base, down)
           net == estimateBiddingTaskCompletionPayout(Task, s)
<1>1. Serves(i, base, down) /\ estimate' = {[net |-> net, at |-> left]}
      /\ UNCHANGED <<shown, order, status, assigned, answer, refundVars>>
  BY DEF estimateTaskerPayout
<1>2. /\ RatesInv' /\ Moves
      /\ s = CurrentFees \/ changed' - left < TTL
      /\ CurrentFees' = CurrentFees /\ left' = left /\ left \in Int
      /\ kind' = kind /\ kind = "bidding" /\ answer = NoAnswer
  BY <1>1, TaskServed
<1>3. ShownInv'
  BY <1>1, <1>2, SaidStays DEF TaskInv
<1>4. EstimateInv'
  <2>1. net = estimateBiddingTaskCompletionPayout(Task, CurrentFees') \/ changed' - left < TTL
    BY <1>2
  <2> HIDE DEF net, s
  <2> QED BY <1>1, <1>2, <2>1 DEF EstimateInv, Timely
<1>5. AnswerInv'
  BY <1>1, <1>2, NothingAnswered
<1>6. TaskInv'
  BY <1>1, <1>2, <1>3, <1>4 DEF TaskInv, refundVars, TaskOrder
<1>7. OrderInv'
  BY <1>1 DEF OrderInv, Serves
<1> QED BY <1>2, <1>5, <1>6, <1>7 DEF TaskKept

LEMMA VisitOrdered ==
  ASSUME RatesInv, TaskInv, AnswerInv, OrderInv, NEW i \in Instances, NEW base,
         NEW down \in BOOLEAN, NEW offer \in Offers,
         createVisitOrder(i, base, down, offer.discount, offer.coins)
  PROVE  TaskKept
<1> DEFINE s == CategoryFees(base, down)
           fee == PlatformFeeTotal(Task, s)
           Ok(q) == validateRecurringVisitOrderAmounts(Task, fee, Task, q.total)
           charge(q) == FinalCharge(Larger(q.total - offer.discount, 0), offer.coins, CapPercent)
           new(q) == [total |-> q.total, task |-> Task, structure |-> s, current |-> TRUE,
                      captured |-> charge(q)]
<1>1. PICK q \in shown :
        IF Ok(q) THEN order' = {new(q)} /\ status' = "held" /\ assigned' = left /\ UNCHANGED answer
        ELSE answer' = [of |-> "refusal", asked |-> q.at] /\ UNCHANGED <<order, status, assigned>>
  BY DEF createVisitOrder
<1>2. Serves(i, base, down) /\ UNCHANGED <<shown, estimate, refundVars>>
  BY DEF createVisitOrder
<1>3. /\ RatesInv' /\ Moves /\ s \in FeeStructures
      /\ s = CurrentFees \/ changed' - left < TTL
      /\ CurrentFees' = CurrentFees /\ left' = left /\ left \in Int
      /\ kind' = kind /\ kind = "bidding" /\ answer = NoAnswer
  BY <1>2, TaskServed
<1>4. /\ q.total \in Nat /\ Task <= q.total
      /\ Timely(q.total = calculatePosterFees(Task, CurrentFees).totalAmount, q.at)
      /\ \A o \in order : TaskOrder(o)
      /\ returned = 0
  BY <1>3 DEF TaskInv, ShownInv
<1>5. ShownInv' /\ EstimateInv'
  BY <1>2, <1>3, SaidStays DEF TaskInv
<1>6. returned' = 0
  BY <1>2, <1>4 DEF refundVars
<1>7. CASE Ok(q)
  <2>1. order' = {new(q)} /\ status' = "held" /\ assigned' = left /\ answer' = NoAnswer
    BY <1>1, <1>3, <1>7
  <2>2. charge(q) \in Nat /\ charge(q) <= q.total
    <3> DEFINE a == Larger(q.total - offer.discount, 0)
    <3>1. offer.discount \in Nat /\ offer.coins \in Nat /\ CapPercent \in Nat
      BY BookingAssumption DEF Percent
    <3>2. a \in Nat /\ a <= q.total
      BY <1>4, <3>1 DEF Larger
    <3> HIDE DEF a
    <3>3. FinalCharge(a, offer.coins, CapPercent) \in Nat
          /\ FinalCharge(a, offer.coins, CapPercent) <= a
      BY <3>1, <3>2, ChargeIs
    <3> QED BY <1>4, <3>2, <3>3 DEF a
  <2>3. TaskOrder(new(q))
    <3>1. Task # NoAmount
      BY BookingAssumption DEF NoAmount
    <3> HIDE DEF charge, s
    <3> QED BY <1>3, <1>4, <2>2, <3>1 DEF TaskOrder
  <2> HIDE DEF new
  <2>4. TaskInv'
    BY <1>3, <1>5, <1>6, <2>1, <2>3 DEF TaskInv
  <2>5. AnswerInv'
    BY <2>1, NothingAnswered
  <2>6. OrderInv'
    BY <1>2, <1>3, <2>1 DEF OrderInv, Serves, RatesInv, RatesTyped
  <2> QED BY <1>3, <2>4, <2>5, <2>6 DEF TaskKept
<1>8. CASE ~Ok(q)
  <2>1. answer' = [of |-> "refusal", asked |-> q.at] /\ UNCHANGED <<order, status, assigned>>
    BY <1>1, <1>8
  <2>2. q.at \in Int /\ q.at >= left
    BY <1>4 DEF Timely
  <2>3. changed' - q.at < TTL
    <3>1. left \in Int /\ changed' \in Int /\ changed \in Int /\ TTL \in Int /\ TTL > 0
      BY <1>3, RatesNumbers DEF RatesInv, RatesTyped
    <3>2. ASSUME NEW at \in Int, at >= left, changed' - left < TTL PROVE changed' - at < TTL
      BY <3>1, <3>2, StillRecent
    <3>3. CASE changed - q.at < TTL
      <4>1. changed' = left \/ changed' = changed
        BY <1>3 DEF Moves
      <4>2. CASE changed' = left
        BY <2>2, <3>1, <3>2, <4>2
      <4> QED BY <3>3, <4>1, <4>2
    <3>4. CASE s = CurrentFees /\ q.total = calculatePosterFees(Task, CurrentFees).totalAmount
      <4>1. q.total = Task + fee /\ fee \in Nat /\ Task \in Nat /\ Task > 0
        BY <1>3, <3>4, BookingAssumption, FeesNat DEF calculatePosterFees
      <4> HIDE DEF fee
      <4>2. Task - Task = 0 /\ q.total - (Task + fee) = 0 /\ 0 \in -Tolerance .. Tolerance
        BY <4>1 DEF Tolerance
      <4>3. validateRecurringVisitOrderAmounts(Task, fee, Task, q.total)
        BY <4>1, <4>2 DEF validateRecurringVisitOrderAmounts
      <4> QED BY <1>8, <4>3
    <3> QED BY <1>3, <1>4, <2>2, <3>2, <3>3, <3>4 DEF Timely
  <2>4. AnswerInv'
    BY <1>3, <2>1, <2>2, <2>3
       DEF AnswerInv, Timely, EstimateIsPaid, CancelCovered, FeeIsSplit
  <2>5. TaskInv'
    BY <1>3, <1>4, <1>5, <1>6, <2>1 DEF TaskInv
  <2>6. OrderInv'
    BY <1>2, <1>3, <2>1 DEF OrderInv, Serves
  <2> QED BY <1>3, <2>4, <2>5, <2>6 DEF TaskKept
<1> QED BY <1>7, <1>8

LEMMA TaskPaid ==
  ASSUME RatesInv, TaskInv, AnswerInv, OrderInv, NEW i \in Instances, NEW base,
         NEW down \in BOOLEAN, payCompletedTask(i, base, down)
  PROVE  TaskKept
<1> DEFINE s == CategoryFees(base, down)
           held == resolveEscrowTaskAmountForPayout(Paid.task, Paid.captured,
                                                    Paid.total - Paid.captured, Paid.structure)
           net == PayoutBase(held, s, Paid.current)
<1>1. /\ Serves(i, base, down) /\ status = "held" /\ status' = "released"
      /\ answer' = [of |-> "payout", gross |-> held, net |-> net]
      /\ UNCHANGED <<shown, estimate, order, assigned, refundVars>>
  BY DEF payCompletedTask
<1>2. /\ RatesInv' /\ Moves
      /\ s = CurrentFees \/ changed' - left < TTL
      /\ CurrentFees' = CurrentFees /\ left' = left /\ left \in Int
      /\ kind' = kind /\ kind = "bidding" /\ answer = NoAnswer
  BY <1>1, TaskServed
<1>3. order # {}
  BY <1>1 DEF OrderInv
<1>4. PICK o \in order : Paid = o
  BY <1>3, PaidIs
<1>5. TaskOrder(Paid) /\ Paid' = Paid
  BY <1>1, <1>2, <1>4 DEF TaskInv, Paid
<1>6. ShownInv' /\ EstimateInv' /\ EstimateInv
  BY <1>1, <1>2, SaidStays DEF TaskInv
<1>7. answer'.of = "payout" /\ answer'.net = net
  BY <1>1
<1>8. ASSUME Paid.current PROVE net = estimateBiddingTaskCompletionPayout(Task, s)
  <2>1. Task # NoAmount
    BY BookingAssumption DEF NoAmount
  <2>2. Paid.task = Task
    BY <1>5, <1>8 DEF TaskOrder
  <2>3. held = Task
    BY <2>1, <2>2 DEF resolveEscrowTaskAmountForPayout
  <2>4. net = PayoutBase(Task, s, Paid.current)
    BY <2>3
  <2> HIDE DEF net, held, s
  <2> QED BY <1>8, <2>4
       DEF PayoutBase, PolicyStructure, estimateBiddingTaskCompletionPayout, PlatformFeeTotal
<1> HIDE DEF net, held, s
<1>9. ASSUME Paid.current, NEW e \in estimate PROVE changed' - e.at < TTL \/ net = e.net
  <2>1. /\ e.at \in Int /\ e.at >= left
        /\ \/ e.net = estimateBiddingTaskCompletionPayout(Task, CurrentFees)
           \/ changed' - e.at < TTL
    BY <1>1, <1>2, <1>6 DEF EstimateInv, Timely
  <2>2. changed' \in Int /\ TTL \in Int
    BY <1>2, RatesNumbers DEF Moves
  <2>3. CASE changed' - left < TTL
    BY <1>2, <2>1, <2>2, <2>3, StillRecent
  <2>4. CASE s = CurrentFees
    BY <1>8, <1>9, <2>1, <2>4
  <2> QED BY <1>2, <2>3, <2>4
<1>10. EstimateIsPaid'
  BY <1>1, <1>5, <1>7, <1>9 DEF EstimateIsPaid
<1>11. AnswerInv'
  BY <1>7, <1>10 DEF AnswerInv, CancelCovered, FeeIsSplit
<1>12. TaskInv'
  BY <1>1, <1>2, <1>6 DEF TaskInv, refundVars, TaskOrder
<1>13. OrderInv'
  BY <1>1, <1>2, <1>3 DEF OrderInv, Serves
<1> QED BY <1>2, <1>11, <1>12, <1>13 DEF TaskKept

\* A cancelled task: what a poster gets back leaves the fee, unless a coupon or
\* coins paid a part of it.
LEMMA CancelCovers ==
  ASSUME NEW o, TaskOrder(o), Paid = o, returned = 0, o.captured = o.total,
         NEW by \in {"poster", "performer"}, NEW s \in FeeStructures
  PROVE  LET result == Cancelled(by, s) IN
         /\ ~Refused(result.refund)
         /\ result.fee \in Nat /\ result.refund \in Nat
         /\ o.captured - Smaller(result.refund, Refundable)
              >= (IF by = "poster" THEN result.fee ELSE 0)
<1> DEFINE base == RefundTaskBase(o.task, o.captured, o.structure)
           percent == IF by = "poster" THEN PosterCancellationPercent(left, assigned)
                      ELSE PerformerCancellationPercent(left, s)
           fee == Share(base, percent)
           refund == IF by = "poster" THEN Larger(base - fee, 0) ELSE Refundable
           result == Cancelled(by, s)
<1>1. base \in Nat /\ base >= 1 /\ base <= o.captured /\ o.captured \in Nat
  BY RefundBaseIs DEF TaskOrder
<1>2. Refundable = o.captured
  BY <1>1 DEF Refundable
<1>3. percent \in Nat /\ (by = "poster" => percent \in {0, 1000, 2000})
  BY PercentsAre
<1>4. result.fee = fee /\ result.refund = refund
  BY DEF Cancelled, calculateCancellationFee
<1> HIDE DEF result, base, percent
<1>5. fee \in Nat
  <2>1. base \in Nat /\ percent \in Nat
    BY <1>1, <1>3
  <2> QED BY <2>1, ShareNat
<1>6. ASSUME by = "poster" PROVE fee < base
  <2> DEFINE product == base * percent
  <2>1. product \in Nat /\ product = base * percent
    BY <1>1, <1>3
  <2>2. product <= 2000 * base
    BY <1>1, <1>3, <1>6
  <2> HIDE DEF product
  <2>3. 20000 * fee <= 2 * product + 10000
    BY <2>1, ShareBounds
  <2> HIDE DEF fee
  <2> QED BY <1>1, <1>5, <2>1, <2>2, <2>3
<1> HIDE DEF fee
<1>7. /\ refund \in Nat /\ refund >= 1 /\ refund <= o.captured
      /\ by = "poster" => refund = base - fee
  BY <1>1, <1>2, <1>5, <1>6 DEF Larger
<1> HIDE DEF refund
<1>8. ~Refused(refund) /\ Smaller(refund, Refundable) = refund
  BY <1>1, <1>2, <1>7 DEF Refused, Smaller
<1>9. o.captured - refund >= (IF by = "poster" THEN fee ELSE 0)
  BY <1>1, <1>5, <1>7
<1> QED BY <1>4, <1>5, <1>7, <1>8, <1>9 DEF result

LEMMA TaskCancelled ==
  ASSUME RatesInv, TaskInv, AnswerInv, OrderInv, NEW i \in Instances, NEW base,
         NEW down \in BOOLEAN, NEW by \in {"poster", "performer"},
         cancelTask(i, base, down, by)
  PROVE  TaskKept
<1> DEFINE result == Cancelled(by, base)
<1>1. /\ Serves(i, base, down) /\ status = "held" /\ answer' = result
      /\ IF Refused(result.refund) THEN UNCHANGED <<status, returned>>
         ELSE status' = "refunded" /\ returned' = Smaller(result.refund, Refundable)
      /\ UNCHANGED <<shown, estimate, order, assigned>>
  BY DEF cancelTask
<1>2. /\ RatesInv' /\ Moves /\ base \in FeeStructures
      /\ CurrentFees' = CurrentFees /\ left' = left /\ left \in Int
      /\ kind' = kind /\ kind = "bidding" /\ answer = NoAnswer
  BY <1>1, TaskServed
<1>3. order # {}
  BY <1>1 DEF OrderInv
<1>4. PICK o \in order : Paid = o
  BY <1>3, PaidIs
<1>5. TaskOrder(o) /\ Paid' = o /\ returned = 0
  BY <1>1, <1>2, <1>4 DEF TaskInv, Paid
<1>6. ShownInv' /\ EstimateInv'
  BY <1>1, <1>2, SaidStays DEF TaskInv
<1>7. result.of = "cancel" /\ result.by = by
  BY DEF Cancelled
<1>8. result.toOtherParty + result.toPlatform - result.fee \in 0 .. 1
  <2> DEFINE amount == RefundTaskBase(o.task, o.captured, o.structure)
             percent == IF by = "poster" THEN PosterCancellationPercent(left, assigned)
                        ELSE PerformerCancellationPercent(left, base)
             fee == Share(amount, percent)
  <2>1. amount \in Nat /\ percent \in Nat
    BY <1>2, <1>5, RefundBaseIs, PercentsAre
  <2>2. fee \in Nat
    BY <2>1, ShareNat
  <2>3. /\ result.fee = fee
        /\ result.toOtherParty = Share(fee, base.toOtherParty)
        /\ result.toPlatform = Share(fee, base.toPlatform)
    BY <1>4 DEF Cancelled, calculateCancellationFee
  <2> HIDE DEF fee, result
  <2> QED BY <1>2, <2>2, <2>3, FeeSplits
<1> HIDE DEF result
<1>9. ASSUME ~(o.captured < o.total)
      PROVE  /\ status' = "refunded"
             /\ o.captured - returned' >= (IF by = "poster" THEN result.fee ELSE 0)
  <2>1. o.captured = o.total
    BY <1>5, <1>9 DEF TaskOrder
  <2>2. /\ ~Refused(result.refund)
        /\ o.captured - Smaller(result.refund, Refundable)
             >= (IF by = "poster" THEN result.fee ELSE 0)
    BY <1>2, <1>4, <1>5, <2>1, CancelCovers DEF result
  <2> QED BY <1>1, <2>2
<1>10. CancelCovered'
  BY <1>1, <1>5, <1>7, <1>9 DEF CancelCovered
<1>11. AnswerInv'
  BY <1>1, <1>7, <1>8, <1>10 DEF AnswerInv, EstimateIsPaid, FeeIsSplit
<1>12. TaskInv'
  BY <1>1, <1>2, <1>5, <1>6, <1>7 DEF TaskInv, TaskOrder, NoAnswer
<1>13. OrderInv'
  BY <1>1, <1>2, <1>3 DEF OrderInv, Serves
<1> QED BY <1>2, <1>11, <1>12, <1>13 DEF TaskKept

-----------------------------------------------------------------------------
(* Bookings: a checkout of services, and its refunds                       *)

\* What each service cost out of the captured amount.
Bases(captured) ==
  [l \in Services |-> resolveBookNowLineFeeBase(Price[l], CatalogTotal, captured, 0, FALSE)]

KeptIn(made) == SumFunction([n \in DOMAIN made |-> made[n].fee])

Targets == Services \cup {WholeBooking}
Policies == {"free", "within_24h", "within_4h", "partner_reached"}

\* A receipt says that nothing was kept when nothing was.
RefundRows ==
  {r \in [line : Targets, amount : Nat, fee : Nat, policy : Policies] :
     r.fee = 0 <=> r.policy = "free"}

Fetched ==
  [step : {"fetch"}, line : Targets, last : BOOLEAN, listed : SUBSET Services,
   assigned : BOOLEAN, reached : BOOLEAN]
Priced ==
  {c \in [step : {"refund", "commit"}, line : Targets, last : BOOLEAN, listed : SUBSET Services,
          room : Nat, amount : Nat, fee : Nat, policy : Policies] :
     c.amount \in 1 .. c.room /\ (c.fee = 0 <=> c.policy = "free")}

RefundTyped ==
  /\ listed \subseteq Services /\ dropped \subseteq Services
  /\ calls \in 0 .. MaxCalls /\ tangled \in BOOLEAN
  /\ refunds \in Seq(RefundRows)
  /\ call \in [RefundCalls -> {NoCall} \cup Fetched \cup Priced]

\* Nothing was refunded, or asked for.
Quiet ==
  /\ listed = {} /\ dropped = {} /\ refunds = <<>>
  /\ \A h \in RefundCalls : call[h] = NoCall

\* Of captured, what was given back and what was kept are what the services
\* done with cost.
Balanced(captured, done, given, kept) ==
  /\ done # Services =>
       given = captured \/ given + kept = SumFunctionOnSet(Bases(captured), done)
  /\ done = Services =>
       captured - (given + kept) \in -Cardinality(Services) .. Cardinality(Services)

\* The books of the refunds made so far, which gave back g paise.
Books(g) ==
  /\ g \in 0 .. Paid.captured
  /\ refunds = <<>> => g = 0 /\ dropped = {}
  /\ Balanced(Paid.captured, dropped, g, KeptIn(refunds))

\* What the one request in flight knows of them.
Aims(c) ==
  /\ c.listed = listed
  /\ c.line \in Services =>
       c.line \notin dropped /\ (c.last <=> Services \subseteq dropped \cup {c.line})
  /\ c.line = WholeBooking => refunds = <<>>
Gives(c, g) ==
  /\ Books(g) /\ c.room = Paid.captured - g
  /\ c.line = WholeBooking => c.amount + c.fee = c.room
  /\ c.line \in Services =>
       LET base == Bases(Paid.captured)[c.line] IN
       IF c.last THEN c.amount + c.fee = Smaller(base, c.room)
       ELSE c.amount + c.fee = base \/ c.amount = c.room

\* The lines dropped are those refunded, each once.
Receipts ==
  /\ \A n \in DOMAIN refunds :
       IF refunds[n].line = WholeBooking THEN dropped = Services ELSE refunds[n].line \in dropped
  /\ listed \subseteq {refunds[n].line : n \in DOMAIN refunds}
  /\ \A n, m \in DOMAIN refunds : refunds[n].line = refunds[m].line => n = m
  /\ dropped = Services => status = "refunded"

OneByOne ==
  /\ Receipts
  /\ \A g, h \in RefundCalls : Busy(g) /\ Busy(h) => g = h
  /\ (\A h \in RefundCalls : call[h].step # "commit") => Books(returned)
  /\ \A h \in RefundCalls :
       /\ Busy(h) => Aims(call[h])
       /\ call[h].step = "refund" => Gives(call[h], returned)
       /\ call[h].step = "commit" => Gives(call[h], returned - call[h].amount)

RefundInv ==
  /\ RefundTyped
  /\ kind # "book_now" \/ order = {} => Quiet
  /\ order = {} => returned = 0
  /\ kind = "book_now" =>
       \A o \in order :
         /\ o.captured \in Nat \ {0} /\ returned \in 0 .. o.captured
         /\ tangled \/ OneByOne

TotalRows(r) ==
  \E n \in Nat : r \in [1 .. n -> [key : Categories, subtotal : Nat, rate : Percent, gst : Nat]]

BuysInv ==
  kind = "book_now" => \A q \in shown :
    /\ q.total \in Nat
    /\ TotalRows(q.rows)

LEMMA BaseIs ==
  ASSUME NEW l \in Services, NEW captured \in Nat
  PROVE  /\ CatalogTotal \in Nat \ {0} /\ Price[l] \in Nat
         /\ Bases(captured)[l] \in Nat
         /\ captured - CatalogTotal \in -1 .. 1 => Bases(captured)[l] = Price[l]
         /\ captured - CatalogTotal \notin -1 .. 1 =>
              LET b == Bases(captured)[l] IN
              /\ 2 * CatalogTotal * b <= 2 * (Price[l] * captured) + CatalogTotal
              /\ 2 * (Price[l] * captured) + CatalogTotal < 2 * CatalogTotal * b + 2 * CatalogTotal
<1> DEFINE b == Bases(captured)[l]
           p == Price[l]
<1>1. IsFiniteSet(Services) /\ Price \in [Services -> Nat] /\ CatalogTotal > 0
  BY BookingAssumption
<1>2. CatalogTotal = SumOver(Price, Services)
  BY <1>1, FunctionSum DEF CatalogTotal
<1>3. CatalogTotal \in Nat
  BY <1>1, <1>2, SumNat
<1>4. CatalogTotal \in Nat \ {0} /\ p \in Nat
  BY <1>1, <1>3
<1>5. b = IF captured - CatalogTotal \in -1 .. 1 THEN p ELSE Nearest(p * captured, CatalogTotal)
  BY DEF Bases, resolveBookNowLineFeeBase
<1>6. p * captured \in Nat
  BY <1>4
<1> HIDE DEF b, p
<1>7. /\ Nearest(p * captured, CatalogTotal) \in Nat
      /\ 2 * CatalogTotal * Nearest(p * captured, CatalogTotal) <= 2 * (p * captured) + CatalogTotal
      /\ 2 * (p * captured) + CatalogTotal
           < 2 * CatalogTotal * Nearest(p * captured, CatalogTotal) + 2 * CatalogTotal
  BY <1>4, <1>6, NearestBounds
<1>8. b \in Nat
  BY <1>4, <1>5, <1>7, Zenon
<1>9. captured - CatalogTotal \notin -1 .. 1 => b = Nearest(p * captured, CatalogTotal)
  BY <1>5, Zenon
<1>10. captured - CatalogTotal \in -1 .. 1 => b = p
  BY <1>5, Zenon
<1> QED BY <1>4, <1>7, <1>8, <1>9, <1>10, Zenon DEF b, p

\* The costs of the services make up the captured amount to a paisa each.
LEMMA BasesAddUp ==
  ASSUME NEW captured \in Nat
  PROVE  /\ IsFiniteSet(Services) /\ Cardinality(Services) \in Nat
         /\ SumOver(Bases(captured), Services) \in Nat
         /\ SumOver(Bases(captured), Services) - captured
              \in -Cardinality(Services) .. Cardinality(Services)
<1> DEFINE b == Bases(captured)
           n == Cardinality(Services)
           C == CatalogTotal
           s == SumOver(b, Services)
<1>1. IsFiniteSet(Services) /\ Services # {} /\ Price \in [Services -> Nat]
  BY BookingAssumption
<1>2. C = SumOver(Price, Services)
  BY <1>1, FunctionSum DEF CatalogTotal
<1>3. n \in Nat /\ n >= 1
  BY <1>1, FS_CardinalityType, FS_EmptySet
<1>4. C \in Nat /\ C >= 1
  <2>1. PICK l \in Services : TRUE
    BY <1>1
  <2> QED BY <2>1, BaseIs
<1>5. \A l \in Services : b[l] \in Nat /\ Price[l] \in Nat
  BY BaseIs
<1> HIDE DEF b, C, n
<1>6. s \in Nat
  BY <1>1, <1>5, SumNat
<1>7. CASE captured - C \in -1 .. 1
  <2>1. \A l \in Services : b[l] = Price[l]
    BY <1>7, BaseIs DEF b, C
  <2>2. s = C
    BY <1>1, <1>2, <2>1, SumSame
  <2> QED BY <1>1, <1>3, <1>4, <1>6, <1>7, <2>2 DEF b, n
<1>8. CASE captured - C \notin -1 .. 1
  <2> DEFINE up == 2 * captured
             two == 2 * C
             top == two * s
  <2>1. \A l \in Services : two * b[l] <= up * Price[l] + C
    <3>1. ASSUME NEW l \in Services PROVE two * b[l] <= up * Price[l] + C
      <4>1. 2 * C * b[l] <= 2 * (Price[l] * captured) + C
        BY <1>8, BaseIs DEF b, C
      <4> QED BY <1>4, <1>5, <4>1
    <3> QED BY <3>1
  <2>2. \A l \in Services : up * Price[l] <= two * b[l] + C
    <3>1. ASSUME NEW l \in Services PROVE up * Price[l] <= two * b[l] + C
      <4>1. 2 * (Price[l] * captured) + C < 2 * C * b[l] + 2 * C
        BY <1>8, BaseIs DEF b, C
      <4> QED BY <1>4, <1>5, <4>1
    <3> QED BY <3>1
  <2>3. two \in Int /\ up \in Int
    BY <1>4
  <2> HIDE DEF two, up
  <2>4. two * s <= up * C + C * n
    <3>1. /\ C \in Int
          /\ \A l \in Services : b[l] \in Int /\ Price[l] \in Int /\ two * b[l] <= up * Price[l] + C
      BY <1>4, <1>5, <2>1
    <3>2. two * SumOver(b, Services) <= up * SumOver(Price, Services) + C * Cardinality(Services)
      BY <1>1, <2>3, <3>1, SumScaled
    <3> QED BY <1>2, <3>2 DEF n
  <2>5. up * C <= two * s + C * n
    <3>1. /\ C \in Int
          /\ \A l \in Services : Price[l] \in Int /\ b[l] \in Int /\ up * Price[l] <= two * b[l] + C
      BY <1>4, <1>5, <2>2
    <3>2. up * SumOver(Price, Services) <= two * SumOver(b, Services) + C * Cardinality(Services)
      BY <1>1, <2>3, <3>1, SumScaled
    <3> QED BY <1>2, <3>2 DEF n
  <2>6. 2 * C * s <= 2 * captured * C + C * n /\ 2 * captured * C <= 2 * C * s + C * n
    BY <2>4, <2>5 DEF two, up
  <2>7. ASSUME s - captured > n PROVE FALSE
    <3>1. C * (s - captured) >= C * (n + 1)
      BY <1>3, <1>4, <1>6, <2>7
    <3> QED BY <1>3, <1>4, <1>6, <2>6, <3>1
  <2>8. ASSUME captured - s > n PROVE FALSE
    <3>1. C * (captured - s) >= C * (n + 1)
      BY <1>3, <1>4, <1>6, <2>8
    <3> QED BY <1>3, <1>4, <1>6, <2>6, <3>1
  <2> QED BY <1>1, <1>3, <1>6, <2>7, <2>8 DEF b, n
<1> QED BY <1>7, <1>8

\* What a cancellation keeps of a service is a fee its receipt names.
LEMMA QuoteIs ==
  ASSUME NEW base \in Int, NEW m, NEW was, NEW there,
         NEW q, q = calculateBookNowCancellationFee(Group, base, m, was, there)
  PROVE  /\ q.refund \in Int
         /\ q.refund > 0 =>
              /\ q.fee \in Nat /\ q.refund + q.fee = base
              /\ describeBookNowCancellationPolicy(q.tier, q.fee) \in Policies
              /\ q.fee = 0 <=> describeBookNowCancellationPolicy(q.tier, q.fee) = "free"
<1> DEFINE tier == IF there THEN resolveBookNowCancellationTier(m, was) ELSE "free"
           flat == flatFeeForTier(Group, tier)
           fee == Smaller(flat, base)
<1>1. q = [fee |-> fee, tier |-> tier, refund |-> base - fee]
  BY DEF calculateBookNowCancellationFee
<1>2. tier \in Policies
  BY DEF resolveBookNowCancellationTier, Policies
<1> HIDE DEF tier
<1>3. flat \in {0, 4900, 9900, 14900, 19900, 24900, 29900} /\ (flat = 0 <=> tier = "free")
  BY <1>2, BookingAssumption DEF flatFeeForTier, FLAT_FEES, PolicyGroups, Policies
<1>4. q.fee = fee /\ q.tier = tier /\ q.refund = base - fee
  BY <1>1
<1> HIDE DEF flat
<1>5. fee \in Int /\ (base - fee > 0 => flat < base /\ fee = flat)
  BY <1>3 DEF Smaller
<1> HIDE DEF fee
<1>6. ASSUME base - fee > 0
      PROVE  /\ fee \in Nat /\ base - fee + fee = base
             /\ describeBookNowCancellationPolicy(tier, fee) \in Policies
             /\ fee = 0 <=> describeBookNowCancellationPolicy(tier, fee) = "free"
  <2>1. fee \in Nat /\ (fee = 0 \/ fee >= 4900) /\ (fee = 0 <=> tier = "free")
    BY <1>3, <1>5, <1>6
  <2>2. fee # 0 => Nearest(fee, 100) # 0
    BY <2>1, NearestBounds
  <2>3. describeBookNowCancellationPolicy(tier, fee) \in Policies
        /\ (fee = 0 <=> describeBookNowCancellationPolicy(tier, fee) = "free")
    BY <1>2, <2>1, <2>2 DEF describeBookNowCancellationPolicy, Policies
  <2> QED BY <2>1, <2>3
<1> QED BY <1>4, <1>5, <1>6

LEMMA KeptNone == KeptIn(<<>>) = 0
<1> DEFINE none == [n \in DOMAIN <<>> |-> <<>>[n].fee]
<1>1. DOMAIN none = {}
  OBVIOUS
<1> HIDE DEF none
<1>2. SumFunction(none) = SumOver(none, {})
  BY <1>1, FunctionSum, FS_EmptySet
<1> QED BY <1>2, SumEmpty DEF KeptIn, none

LEMMA KeptAppended ==
  ASSUME NEW s \in Seq(RefundRows), NEW r \in RefundRows
  PROVE  KeptIn(s) \in Nat /\ KeptIn(<<>>) = 0 /\ KeptIn(Append(s, r)) = KeptIn(s) + r.fee
<1> DEFINE fees(t) == [n \in DOMAIN t |-> t[n].fee]
           new == Append(s, r)
           n == Len(s)
<1>1. n \in Nat /\ DOMAIN s = 1 .. n /\ DOMAIN new = 1 .. n + 1
  OBVIOUS
<1>2. (\A m \in 1 .. n : new[m] = s[m] /\ s[m] \in RefundRows) /\ new[n + 1] = r
  OBVIOUS
<1> HIDE DEF n, new
<1>3. \A m \in 1 .. n : fees(s)[m] \in Nat /\ fees(new)[m] = fees(s)[m]
  BY <1>1, <1>2 DEF RefundRows
<1>4. fees(new)[n + 1] = r.fee /\ r.fee \in Nat
  BY <1>1, <1>2 DEF RefundRows
<1>5. IsFiniteSet(1 .. n) /\ IsFiniteSet(1 .. n + 1)
  BY <1>1, FS_Interval
<1>6. DOMAIN fees(s) = 1 .. n /\ DOMAIN fees(new) = 1 .. n + 1
  BY <1>1
<1>7. KeptIn(s) = SumOver(fees(s), 1 .. n) /\ KeptIn(new) = SumOver(fees(new), 1 .. n + 1)
  BY <1>5, <1>6, FunctionSum DEF KeptIn
<1>8. KeptIn(s) \in Nat
  BY <1>3, <1>5, <1>7, SumNat
<1>9. KeptIn(<<>>) = 0
  BY KeptNone
<1>10. KeptIn(new) = r.fee + KeptIn(s)
  <2>1. \A m \in 1 .. n + 1 : fees(new)[m] \in Int
    <3>1. \A m \in 1 .. n + 1 : m \in 1 .. n \/ m = n + 1
      BY <1>1
    <3> HIDE DEF fees
    <3> QED BY <1>3, <1>4, <3>1
  <2>2. n + 1 \in 1 .. n + 1 /\ (1 .. n + 1) \ {n + 1} = 1 .. n
    BY <1>1
  <2> HIDE DEF fees
  <2>3. SumOver(fees(new), 1 .. n + 1) = fees(new)[n + 1] + SumOver(fees(new), 1 .. n)
    <3> DEFINE all == 1 .. n + 1
    <3>1. IsFiniteSet(all) /\ n + 1 \in all /\ all \ {n + 1} = 1 .. n
      BY <1>5, <2>2
    <3>2. \A m \in all : fees(new)[m] \in Int
      BY <2>1
    <3> HIDE DEF all
    <3>3. SumOver(fees(new), all) = fees(new)[n + 1] + SumOver(fees(new), all \ {n + 1})
      BY <3>1, <3>2, SumAdd
    <3> QED BY <3>1, <3>3 DEF all
  <2>4. SumOver(fees(new), 1 .. n) = SumOver(fees(s), 1 .. n)
    BY <1>3, <1>5, SumSame
  <2> QED BY <1>4, <1>7, <2>3, <2>4
<1> QED BY <1>4, <1>8, <1>9, <1>10 DEF new

\* A booking that was paid, before a step of one of its refund requests.
Booked ==
  /\ RefundInv /\ OrderInv /\ kind = "book_now" /\ order # {}
  /\ UNCHANGED <<rateVars, kind, shown, estimate, order, assigned, reached, answer>>

LEMMA BookedIs ==
  ASSUME Booked
  PROVE  /\ RefundTyped /\ Paid.captured \in Nat \ {0} /\ returned \in 0 .. Paid.captured
         /\ tangled \/ OneByOne
         /\ Paid' = Paid
<1>1. PICK o \in order : Paid = o
  BY PaidIs DEF Booked
<1> QED BY <1>1 DEF Booked, RefundInv, Paid

LEMMA RefundInvNext ==
  ASSUME Booked, RefundTyped', returned' \in 0 .. Paid.captured, tangled' \/ OneByOne'
  PROVE  RefundInv'
<1>1. \A o \in order : Paid = o
  BY PaidIs DEF Booked
<1>2. Paid.captured \in Nat \ {0}
  BY BookedIs
<1> QED BY <1>1, <1>2 DEF Booked, RefundInv

\* While requests do not overlap, only one has something to know.
LEMMA OnlyCall ==
  ASSUME NEW h \in RefundCalls, \A g \in RefundCalls : g # h => call'[g] = NoCall,
         Receipts',
         call'[h].step # "commit" => Books(returned)',
         Busy(h)' => Aims(call[h])',
         call'[h].step = "refund" => Gives(call[h], returned)',
         call'[h].step = "commit" => Gives(call[h], returned - call[h].amount)'
  PROVE  OneByOne'
<1>1. \A g \in RefundCalls : Busy(g)' => g = h
  BY DEF Busy
<1>2. NoCall.step = "idle"
  BY DEF NoCall
<1> QED BY <1>1, <1>2 DEF OneByOne

LEMMA Alone ==
  ASSUME OneByOne, NEW h \in RefundCalls, Busy(h)
  PROVE  /\ \A g \in RefundCalls : g # h => call[g] = NoCall
         /\ Aims(call[h])
         /\ call[h].step # "commit" => Books(returned)
<1>1. \A g \in RefundCalls : g # h => call[g] = NoCall
  BY DEF OneByOne, Busy
<1>2. NoCall.step = "idle"
  BY DEF NoCall
<1> QED BY <1>1, <1>2 DEF OneByOne

LEMMA RefundBegun ==
  ASSUME RefundInv, OrderInv, NEW h \in RefundCalls, NEW line \in Targets, NEW last \in BOOLEAN,
         NEW answered, Begins(h, line, last, answered),
         line \in Services =>
           line \notin dropped /\ (last <=> Services \subseteq dropped \cup {line}),
         line = WholeBooking => answered \/ refunds = <<>>
  PROVE  RefundInv'
<1> DEFINE new == [step |-> "fetch", line |-> line, last |-> last, listed |-> listed,
                   assigned |-> assigned # Unassigned, reached |-> reached]
<1>1. /\ kind = "book_now" /\ order # {} /\ ~Busy(h) /\ calls < MaxCalls /\ calls' = calls + 1
      /\ tangled' = (tangled \/ \E g \in RefundCalls : Busy(g))
      /\ call' = call \/ (~answered /\ call' = [call EXCEPT ![h] = new])
      /\ UNCHANGED <<rateVars, orderVars, listed, refunds, returned, dropped>>
  BY DEF Begins, Step
<1>2. Booked
  BY <1>1 DEF Booked, orderVars
<1>3. /\ RefundTyped /\ Paid.captured \in Nat \ {0} /\ returned \in 0 .. Paid.captured
      /\ tangled \/ OneByOne
      /\ Paid' = Paid
  BY <1>2, BookedIs
<1>4. new \in Fetched
  BY <1>1, <1>3 DEF RefundTyped, Fetched, OrderInv
<1>5. calls' \in 0 .. MaxCalls
  BY <1>1, <1>3, BookingAssumption DEF RefundTyped
<1>6. RefundTyped'
  BY <1>1, <1>3, <1>4, <1>5 DEF RefundTyped
<1>7. ASSUME ~tangled' PROVE OneByOne'
  <2>1. \A g \in RefundCalls : call[g] = NoCall
    BY <1>1, <1>7 DEF Busy
  <2>2. OneByOne /\ NoCall.step = "idle"
    BY <1>1, <1>3, <1>7 DEF NoCall
  <2>3. Books(returned) /\ Receipts
    BY <2>1, <2>2 DEF OneByOne
  <2>4. status' = status
    BY <1>1 DEF orderVars
  <2>5. Receipts' /\ Books(returned)'
    BY <1>1, <1>3, <2>3, <2>4 DEF Receipts, Books
  <2>6. \A g \in RefundCalls : g # h => call'[g] = NoCall
    BY <1>1, <1>3, <2>1 DEF RefundTyped
  <2>7. call'[h] = NoCall \/ (~answered /\ call'[h] = new)
    BY <1>1, <1>3, <2>1 DEF RefundTyped
  <2>8. call'[h].step \in {"idle", "fetch"}
    BY <2>2, <2>7
  <2>9. Busy(h)' => Aims(call[h])'
    <3>1. ASSUME ~answered, call'[h] = new PROVE Aims(call[h])'
      BY <1>1, <3>1 DEF Aims
    <3> HIDE DEF new
    <3> QED BY <2>7, <3>1 DEF Busy
  <2> QED BY <2>5, <2>6, <2>8, <2>9, OnlyCall
<1> QED BY <1>1, <1>2, <1>3, <1>6, <1>7, RefundInvNext

LEMMA LineBaseIs ==
  ASSUME NEW l \in Services, NEW captured \in Nat, NEW room, NEW last \in BOOLEAN
  PROVE  resolveBookNowLineFeeBase(Price[l], CatalogTotal, captured, room, last)
           = IF last THEN Smaller(Bases(captured)[l], room) ELSE Bases(captured)[l]
BY DEF resolveBookNowLineFeeBase, Bases

LEMMA RefundQuoted ==
  ASSUME RefundInv, OrderInv, kind = "book_now", order # {}, NEW h \in RefundCalls, QuoteRefund(h)
  PROVE  RefundInv'
<1> DEFINE c == call[h]
           q == Quote(h)
           cap == Paid.captured
           room == cap - returned
           none == room <= 0 \/ q.refund <= 0
<1>1. /\ c.step = "fetch"
      /\ none => call' = [call EXCEPT ![h] = NoCall]
      /\ ~none => call' = [call EXCEPT ![h] =
           [step |-> "refund", line |-> c.line, last |-> c.last, listed |-> c.listed,
            room |-> room, amount |-> Smaller(q.refund, room), fee |-> q.fee,
            policy |-> describeBookNowCancellationPolicy(q.tier, q.fee)]]
      /\ UNCHANGED <<rateVars, orderVars, listed, refunds, returned, dropped, calls, tangled>>
  BY DEF QuoteRefund, Ends, Step, Refundable
<1>2. Booked
  BY <1>1 DEF Booked, orderVars
<1>3. /\ RefundTyped /\ cap \in Nat \ {0} /\ returned <= cap /\ returned \in Nat
      /\ tangled \/ OneByOne
      /\ Paid' = Paid
  BY <1>2, BookedIs DEF RefundTyped
<1>4. c \in Fetched
  BY <1>1, <1>3 DEF RefundTyped, NoCall, Priced
<1>5. c.line \in Targets /\ c.last \in BOOLEAN /\ c.listed \subseteq Services
  BY <1>4 DEF Fetched
<1> DEFINE base == IF c.line = WholeBooking THEN room
                   ELSE IF c.last THEN Smaller(Bases(cap)[c.line], room) ELSE Bases(cap)[c.line]
<1>6. q = calculateBookNowCancellationFee(Group, base, left, c.reached, c.assigned)
  <2>1. ASSUME c.line \in Services
        PROVE  resolveBookNowLineFeeBase(Price[c.line], CatalogTotal, cap, room, c.last)
                 = IF c.last THEN Smaller(Bases(cap)[c.line], room) ELSE Bases(cap)[c.line]
    BY <1>3, <1>5, <2>1, LineBaseIs
  <2>2. Refundable = room
    BY DEF Refundable
  <2>3. base = IF c.line = WholeBooking THEN Refundable
               ELSE resolveBookNowLineFeeBase(Price[c.line], CatalogTotal, cap, Refundable, c.last)
    BY <1>5, <2>1, <2>2 DEF Targets
  <2> HIDE DEF base, room
  <2> QED BY <2>3 DEF Quote
<1>7. room \in Nat
  BY <1>3
<1>8. base \in Int
  <2>1. \A l \in Services : Bases(cap)[l] \in Nat
    BY <1>3, BaseIs
  <2> HIDE DEF room
  <2> QED BY <1>5, <1>7, <2>1 DEF Targets, Smaller
<1> DEFINE amount == Smaller(q.refund, room)
           policy == describeBookNowCancellationPolicy(q.tier, q.fee)
<1> HIDE DEF base, q
<1>9. ASSUME ~none
      PROVE  /\ q.fee \in Nat /\ policy \in Policies /\ (q.fee = 0 <=> policy = "free")
             /\ q.refund + q.fee = base /\ amount \in 1 .. room
             /\ amount = room \/ amount + q.fee = base
             /\ base <= room => amount + q.fee = base
  <2>1. q.refund > 0
    <3>1. q.refund \in Int
      BY <1>6, <1>8, QuoteIs
    <3> QED BY <1>9, <3>1
  <2>2. /\ q.fee \in Nat /\ policy \in Policies /\ (q.fee = 0 <=> policy = "free")
        /\ q.refund + q.fee = base /\ q.refund \in Nat
    BY <1>6, <1>8, <2>1, QuoteIs
  <2> HIDE DEF policy
  <2>3. amount \in 1 .. room /\ (amount = room \/ amount = q.refund)
        /\ (q.refund <= room => amount = q.refund)
    BY <1>7, <1>9, <2>1, <2>2 DEF Smaller
  <2> QED BY <1>7, <1>8, <2>2, <2>3
<1>10. NoCall.step = "idle"
  BY DEF NoCall
<1>11. CASE none
  <2>1. call' = [call EXCEPT ![h] = NoCall]
    BY <1>1, <1>11
  <2>2. RefundTyped'
    BY <1>1, <1>3, <2>1 DEF RefundTyped
  <2>3. ASSUME ~tangled' PROVE OneByOne'
    <3>1. OneByOne /\ Busy(h)
      BY <1>1, <1>3, <1>10, <2>3 DEF Busy
    <3>2. (\A g \in RefundCalls : g # h => call[g] = NoCall) /\ Books(returned)
      BY <1>1, <3>1, Alone
    <3>3. \A g \in RefundCalls : call'[g] = NoCall
      BY <1>3, <2>1, <3>2 DEF RefundTyped
    <3>4. status' = status
      BY <1>1 DEF orderVars
    <3>5. Receipts' /\ Books(returned)'
      BY <1>1, <1>3, <3>1, <3>2, <3>4 DEF OneByOne, Receipts, Books
    <3> QED BY <1>10, <3>3, <3>5, OnlyCall DEF Busy
  <2> QED BY <1>1, <1>2, <1>3, <2>2, <2>3, RefundInvNext
<1>12. CASE ~none
  <2>1. PICK r : r = [step |-> "refund", line |-> c.line, last |-> c.last, listed |-> c.listed,
                      room |-> room, amount |-> amount, fee |-> q.fee, policy |-> policy]
    OBVIOUS
  <2>2. call' = [call EXCEPT ![h] = r]
    BY <1>1, <1>12, <2>1
  <2>3. /\ q.fee \in Nat /\ policy \in Policies /\ (q.fee = 0 <=> policy = "free")
        /\ amount \in 1 .. room
        /\ amount = room \/ amount + q.fee = base
        /\ base <= room => amount + q.fee = base
    BY <1>9, <1>12
  <2> HIDE DEF none, policy, amount, room, c
  <2>4. r \in Priced
    BY <1>5, <1>7, <2>1, <2>3 DEF Priced
  <2>5. RefundTyped'
    BY <1>1, <1>3, <2>2, <2>4 DEF RefundTyped
  <2>6. ASSUME ~tangled' PROVE OneByOne'
    <3>1. OneByOne /\ Busy(h)
      BY <1>1, <1>3, <1>10, <2>6 DEF Busy, c
    <3>2. (\A g \in RefundCalls : g # h => call[g] = NoCall) /\ Books(returned) /\ Aims(c)
      BY <1>1, <3>1, Alone DEF c
    <3>3. call'[h] = r /\ \A g \in RefundCalls : g # h => call'[g] = NoCall
      BY <1>3, <2>2, <3>2 DEF RefundTyped
    <3>4. status' = status
      BY <1>1 DEF orderVars
    <3>5. Receipts' /\ Books(returned)'
      BY <1>1, <1>3, <3>1, <3>2, <3>4 DEF OneByOne, Receipts, Books
    <3>6. Aims(call[h])'
      BY <1>1, <2>1, <3>2, <3>3 DEF Aims
    <3>7. Gives(call[h], returned)'
      <4>1. r.room = cap - returned
        BY <2>1 DEF room
      <4>2. r.line = WholeBooking => r.amount + r.fee = r.room
        BY <1>7, <2>1, <2>3 DEF base
      <4>3. ASSUME r.line \in Services
            PROVE  IF r.last THEN r.amount + r.fee = Smaller(Bases(cap)[r.line], r.room)
                   ELSE r.amount + r.fee = Bases(cap)[r.line] \/ r.amount = r.room
        <5>1. base = IF c.last THEN Smaller(Bases(cap)[c.line], room) ELSE Bases(cap)[c.line]
          BY <2>1, <4>3, BookingAssumption DEF base
        <5>2. c.last => base <= room
          <6>1. Bases(cap)[c.line] \in Nat
            BY <1>3, <2>1, <4>3, BaseIs
          <6> QED BY <1>7, <5>1, <6>1 DEF Smaller
        <5> QED BY <2>1, <2>3, <5>1, <5>2
      <4>4. Bases(cap)' = Bases(cap) /\ cap' = cap
        BY <1>3 DEF Bases
      <4> QED BY <1>1, <3>3, <3>5, <4>1, <4>2, <4>3, <4>4 DEF Gives
    <3>8. r.step = "refund"
      BY <2>1
    <3> QED BY <3>3, <3>5, <3>6, <3>7, <3>8, OnlyCall
  <2> QED BY <1>1, <1>2, <1>3, <2>5, <2>6, RefundInvNext
<1> QED BY <1>11, <1>12

LEMMA GatewayCalled ==
  ASSUME RefundInv, OrderInv, kind = "book_now", order # {}, NEW h \in RefundCalls, CallGateway(h)
  PROVE  RefundInv'
<1> DEFINE c == call[h]
           cap == Paid.captured
           ok == c.amount <= cap - returned
<1>1. /\ c.step = "refund"
      /\ ok => returned' = returned + c.amount
               /\ call' = [call EXCEPT ![h] = [c EXCEPT !.step = "commit"]]
      /\ ~ok => call' = [call EXCEPT ![h] = NoCall] /\ returned' = returned
      /\ UNCHANGED <<rateVars, orderVars, listed, refunds, dropped, calls, tangled>>
  BY DEF CallGateway, Ends, Step, Refundable
<1>2. Booked
  BY <1>1 DEF Booked, orderVars
<1>3. /\ RefundTyped /\ cap \in Nat \ {0} /\ returned <= cap /\ returned \in Nat
      /\ tangled \/ OneByOne
      /\ Paid' = Paid
  BY <1>2, BookedIs DEF RefundTyped
<1>4. NoCall.step = "idle"
  BY DEF NoCall
<1>5. c \in Priced
  BY <1>1, <1>3, <1>4 DEF RefundTyped, Fetched
<1>6. c.amount \in Nat /\ c.room \in Nat /\ c.amount <= c.room
  BY <1>5 DEF Priced
<1>7. status' = status /\ Bases(cap)' = Bases(cap)
  BY <1>1, <1>3 DEF orderVars, Bases
<1>8. ASSUME OneByOne
      PROVE  /\ \A g \in RefundCalls : g # h => call[g] = NoCall
             /\ Books(returned) /\ Aims(c) /\ Receipts /\ Gives(c, returned) /\ ok
             /\ Receipts'
  <2>1. Busy(h)
    BY <1>1, <1>4 DEF Busy
  <2>2. (\A g \in RefundCalls : g # h => call[g] = NoCall) /\ Aims(c) /\ Books(returned)
    BY <1>1, <1>8, <2>1, Alone
  <2>3. Receipts /\ Gives(c, returned)
    BY <1>1, <1>8 DEF OneByOne
  <2>4. ok
    BY <1>6, <2>3 DEF Gives
  <2>5. Receipts'
    BY <1>1, <1>7, <2>3 DEF Receipts
  <2> QED BY <2>2, <2>3, <2>4, <2>5
<1>9. CASE ok
  <2>1. PICK r : r = [c EXCEPT !.step = "commit"]
    OBVIOUS
  <2>2. /\ r.step = "commit" /\ r.line = c.line /\ r.last = c.last /\ r.listed = c.listed
        /\ r.room = c.room /\ r.amount = c.amount /\ r.fee = c.fee /\ r.policy = c.policy
        /\ r \in Priced
    BY <1>5, <2>1 DEF Priced
  <2>3. call' = [call EXCEPT ![h] = r] /\ returned' = returned + c.amount
    BY <1>1, <1>9, <2>1
  <2>4. returned' \in Nat /\ returned' <= cap /\ returned' - r.amount = returned
    BY <1>3, <1>6, <1>9, <2>2, <2>3
  <2> HIDE DEF ok, c
  <2>5. RefundTyped'
    BY <1>1, <1>3, <2>2, <2>3, <2>4 DEF RefundTyped
  <2>6. ASSUME ~tangled' PROVE OneByOne'
    <3>1. /\ \A g \in RefundCalls : g # h => call[g] = NoCall
          /\ Books(returned) /\ Aims(c) /\ Gives(c, returned) /\ Receipts'
      BY <1>1, <1>3, <1>8, <2>6
    <3>2. call'[h] = r /\ \A g \in RefundCalls : g # h => call'[g] = NoCall
      BY <1>3, <2>3, <3>1 DEF RefundTyped
    <3>3. Aims(call[h])'
      BY <1>1, <2>2, <3>1, <3>2 DEF Aims
    <3>4. ASSUME NEW g, g = returned PROVE Books(g)'
      BY <1>1, <1>3, <1>7, <3>1, <3>4 DEF Books
    <3>5. Gives(call[h], returned - call[h].amount)'
      BY <1>3, <1>7, <2>2, <2>4, <3>1, <3>2, <3>4 DEF Gives
    <3> QED BY <2>2, <3>1, <3>2, <3>3, <3>5, OnlyCall
  <2> QED BY <1>2, <2>4, <2>5, <2>6, RefundInvNext
<1>10. CASE ~ok
  <2>1. call' = [call EXCEPT ![h] = NoCall] /\ returned' = returned
    BY <1>1, <1>10
  <2>2. RefundTyped'
    BY <1>1, <1>3, <2>1 DEF RefundTyped
  <2>3. tangled'
    BY <1>1, <1>3, <1>8, <1>10
  <2> QED BY <1>2, <1>3, <2>1, <2>2, <2>3, RefundInvNext
<1> QED BY <1>9, <1>10

LEMMA RefundBroken ==
  ASSUME RefundInv, OrderInv, kind = "book_now", order # {}, NEW h \in RefundCalls, BreakOff(h)
  PROVE  RefundInv'
<1>1. /\ call' = [call EXCEPT ![h] = NoCall] /\ tangled' = TRUE
      /\ UNCHANGED <<rateVars, orderVars, listed, refunds, returned, dropped, calls>>
  BY DEF BreakOff, Ends, Step
<1>2. Booked
  BY <1>1 DEF Booked, orderVars
<1>3. RefundTyped /\ returned \in 0 .. Paid.captured
  BY <1>2, BookedIs
<1>4. RefundTyped'
  BY <1>1, <1>3 DEF RefundTyped
<1> QED BY <1>1, <1>2, <1>3, <1>4, RefundInvNext

\* A refund c of one service or of all, worked out when given and kept were
\* the books.
Fits(captured, done, given, kept, c) ==
  /\ captured \in Nat /\ done \in SUBSET Services /\ given \in Nat /\ kept \in Nat
  /\ c.line \in Targets /\ c.last \in BOOLEAN /\ c.amount \in Nat /\ c.fee \in Nat
  /\ c.amount >= 1 /\ given + c.amount <= captured
  /\ Balanced(captured, done, given, kept)
  /\ c.line = WholeBooking => given = 0 /\ kept = 0 /\ c.amount + c.fee = captured
  /\ c.line \in Services =>
       /\ c.line \notin done /\ (c.last <=> Services \subseteq done \cup {c.line})
       /\ LET base == Bases(captured)[c.line] IN
          IF c.last THEN c.amount + c.fee = Smaller(base, captured - given)
          ELSE c.amount + c.fee = base \/ c.amount = captured - given
Covered(c) == IF c.line = WholeBooking THEN Services ELSE {c.line}

LEMMA BooksKept ==
  ASSUME NEW cap, NEW done, NEW given, NEW kept, NEW c, Fits(cap, done, given, kept, c)
  PROVE  Balanced(cap, done \cup Covered(c), given + c.amount, kept + c.fee)
<1> DEFINE line == c.line
           amount == c.amount
           fee == c.fee
           last == c.last
<1>1. /\ cap \in Nat /\ done \in SUBSET Services /\ given \in Nat /\ kept \in Nat
      /\ line \in Targets /\ last \in BOOLEAN /\ amount \in Nat /\ fee \in Nat
      /\ amount >= 1 /\ given + amount <= cap
  BY DEF Fits
<1>2. done # Services => given = cap \/ given + kept = SumFunctionOnSet(Bases(cap), done)
  BY DEF Fits, Balanced
<1>3. line = WholeBooking => given = 0 /\ kept = 0 /\ amount + fee = cap
  BY DEF Fits
<1>4. line \in Services =>
        /\ line \notin done /\ (last <=> Services \subseteq done \cup {line})
        /\ LET base == Bases(cap)[line] IN
           IF last THEN amount + fee = Smaller(base, cap - given)
           ELSE amount + fee = base \/ amount = cap - given
  BY DEF Fits
<1> HIDE DEF line, amount, fee, last
<1> DEFINE g == given + amount
           f == kept + fee
           now == done \cup Covered(c)
           b == Bases(cap)
           n == Cardinality(Services)
           all == SumOver(b, Services)
<1>5. IsFiniteSet(Services) /\ n \in Nat /\ all \in Nat /\ all - cap \in -n .. n
  BY <1>1, BasesAddUp
<1>6. \A l \in Services : b[l] \in Nat
  BY <1>1, BaseIs
<1>7. g \in Nat /\ f \in Nat
  BY <1>1
<1>8. now = done \cup (IF line = WholeBooking THEN Services ELSE {line})
  BY DEF Covered, line
<1> HIDE DEF b, now
<1>9. CASE line = WholeBooking
  <2>1. now = Services /\ g + f = cap
    BY <1>1, <1>3, <1>9, <1>8
  <2> QED BY <1>1, <1>5, <2>1 DEF Balanced, amount, fee, now
<1>10. CASE line \in Services
  <2>1. line # WholeBooking /\ line \notin done /\ (last <=> Services \subseteq done \cup {line})
    BY <1>4, <1>10, BookingAssumption
  <2>2. now = done \cup {line} /\ now \ {line} = done /\ now \subseteq Services /\ line \in now
        /\ done # Services /\ (last <=> now = Services)
    BY <1>1, <1>10, <1>8, <2>1
  <2>3. IsFiniteSet(now) /\ IsFiniteSet(done)
    BY <1>1, <1>5, <2>2, FS_Subset
  <2> DEFINE base == b[line]
             sum == SumOver(b, done)
  <2>4. base \in Nat
    BY <1>6, <1>10
  <2>5. SumOver(b, now) = base + sum /\ sum \in Int
    <3>1. \A l \in now : b[l] \in Int
      BY <1>6, <2>2
    <3> HIDE DEF now
    <3>2. SumOver(b, now) = b[line] + SumOver(b, now \ {line})
      BY <2>2, <2>3, <3>1, SumAdd
    <3>3. SumOver(b, done) \in Int
      <4>1. \A l \in done : b[l] \in Int
        BY <1>1, <1>6
      <4> QED BY <2>3, <4>1, SumInt
    <3> QED BY <2>2, <3>2, <3>3
  <2>6. given + kept = sum
    BY <1>1, <1>2, <2>2, <2>3, FunctionOnSetSum DEF b
  <2>7. IF last THEN amount + fee = Smaller(base, cap - given)
        ELSE amount + fee = base \/ amount = cap - given
    BY <1>4, <1>10 DEF b
  <2>8. SumFunctionOnSet(b, now) = SumOver(b, now)
    BY <2>3, FunctionOnSetSum
  <2> HIDE DEF now, base, sum
  <2>9. CASE ~last
    <3>1. now # Services /\ (amount + fee = base \/ amount = cap - given)
      BY <2>2, <2>7, <2>9
    <3>2. g = cap \/ g + f = base + sum
      BY <1>1, <2>4, <2>5, <2>6, <3>1
    <3>3. g = cap \/ g + f = SumFunctionOnSet(b, now)
      BY <2>5, <2>8, <3>2
    <3> QED BY <3>1, <3>3 DEF Balanced, b, amount, fee, now
  <2>10. CASE last
    <3>1. now = Services /\ amount + fee = Smaller(base, cap - given)
      BY <2>2, <2>7, <2>10
    <3>2. base + sum = all
      BY <2>5, <3>1
    <3>3. cap - (g + f) \in -n .. n
      <4> HIDE DEF all, n
      <4>1. CASE base > cap - given
        BY <1>1, <1>5, <2>4, <2>5, <2>6, <3>1, <3>2, <4>1 DEF Smaller
      <4>2. CASE base <= cap - given
        BY <1>1, <1>5, <2>4, <2>5, <2>6, <3>1, <3>2, <4>2 DEF Smaller
      <4> QED BY <1>1, <2>4, <4>1, <4>2
    <3> QED BY <3>1, <3>3 DEF Balanced, amount, fee, now
  <2> QED BY <2>9, <2>10
<1> QED BY <1>1, <1>9, <1>10 DEF Targets, now

LEMMA RefundCommitted ==
  ASSUME RefundInv, OrderInv, kind = "book_now", order # {}, NEW h \in RefundCalls, CommitRefund(h)
  PROVE  RefundInv' /\ status' \in {"held", "refunded"}
<1> DEFINE c == call[h]
           cap == Paid.captured
           whole == c.line = WholeBooking
           n == Len(refunds)
<1>1. PICK r : r = [line |-> c.line, amount |-> c.amount, fee |-> c.fee, policy |-> c.policy]
  OBVIOUS
<1>2. /\ c.step = "commit" /\ call' = [call EXCEPT ![h] = NoCall]
      /\ refunds' = Append(refunds, r)
      /\ listed' = IF whole THEN listed ELSE c.listed \cup {c.line}
      /\ status' = IF whole \/ c.last \/ c.room - c.amount <= 0 THEN "refunded" ELSE "held"
      /\ dropped' = dropped \cup (IF whole THEN Services ELSE {c.line})
      /\ UNCHANGED <<rateVars, kind, shown, estimate, order, assigned, reached, answer,
                     returned, calls, tangled>>
  BY <1>1 DEF CommitRefund, Ends, Step
<1>3. Booked
  BY <1>2 DEF Booked
<1>4. /\ RefundTyped /\ cap \in Nat \ {0} /\ returned <= cap /\ returned \in Nat
      /\ tangled \/ OneByOne
      /\ Paid' = Paid
  BY <1>3, BookedIs DEF RefundTyped
<1>5. NoCall.step = "idle"
  BY DEF NoCall
<1>6. c \in Priced
  BY <1>2, <1>4, <1>5 DEF RefundTyped, Fetched
<1>7. /\ c.line \in Targets /\ c.last \in BOOLEAN /\ c.listed \subseteq Services
      /\ c.amount \in Nat /\ c.amount >= 1 /\ c.fee \in Nat /\ c.room \in Nat
      /\ r \in RefundRows
  BY <1>1, <1>6 DEF Priced, RefundRows
<1>8. /\ refunds' \in Seq(RefundRows)
      /\ n \in Nat /\ DOMAIN refunds = 1 .. n /\ DOMAIN refunds' = 1 .. n + 1
      /\ \A m \in 1 .. n : refunds'[m] = refunds[m]
      /\ refunds'[n + 1] = r
  BY <1>2, <1>4, <1>7 DEF RefundTyped
<1> HIDE DEF c
<1>9. c.line = WholeBooking \/ (c.line \in Services /\ ~whole)
  BY <1>7 DEF Targets
<1>10. listed' \subseteq Services /\ dropped' \subseteq Services
  BY <1>2, <1>4, <1>7, <1>9 DEF RefundTyped
<1>11. RefundTyped'
  BY <1>2, <1>4, <1>8, <1>10 DEF RefundTyped
<1>12. ASSUME ~tangled' PROVE OneByOne'
  <2>1. OneByOne /\ Busy(h)
    BY <1>2, <1>4, <1>5, <1>12 DEF Busy, c
  <2>2. (\A g \in RefundCalls : g # h => call[g] = NoCall) /\ Aims(c)
    BY <2>1, Alone DEF c
  <2>3. Receipts /\ Gives(c, returned - c.amount)
    BY <1>2, <2>1 DEF OneByOne, c
  <2>4. \A g \in RefundCalls : call'[g] = NoCall
    BY <1>2, <1>4, <2>2 DEF RefundTyped
  <2> DEFINE given == returned - c.amount
             kept == KeptIn(refunds)
             b == Bases(cap)
  <2>5. Books(given)
    BY <2>3 DEF Gives
  <2>6. given \in Nat /\ given <= cap
    BY <1>4, <2>5 DEF Books
  <2>7. kept \in Nat /\ KeptIn(<<>>) = 0 /\ KeptIn(refunds') = kept + c.fee
    BY <1>1, <1>2, <1>4, <1>7, KeptAppended DEF RefundTyped
  <2>8. whole => given = 0 /\ kept = 0 /\ c.amount + c.fee = cap
    <3>1. ASSUME whole PROVE refunds = <<>> /\ given = 0
      BY <2>2, <2>5, <3>1 DEF Aims, Books
    <3>2. ASSUME whole PROVE c.amount + c.fee = cap
      BY <1>4, <2>3, <3>1, <3>2 DEF Gives
    <3> QED BY <2>7, <3>1, <3>2
  <2>9. dropped \in SUBSET Services /\ Balanced(cap, dropped, given, kept)
    BY <1>4, <2>5 DEF RefundTyped, Books
  <2>10. c.line \in Services =>
           /\ c.line \notin dropped /\ (c.last <=> Services \subseteq dropped \cup {c.line})
           /\ IF c.last THEN c.amount + c.fee = Smaller(b[c.line], cap - given)
              ELSE c.amount + c.fee = b[c.line] \/ c.amount = cap - given
    BY <2>2, <2>3 DEF Aims, Gives
  <2>11. given + c.amount = returned /\ given + c.amount <= cap
    BY <1>4, <1>7
  <2> HIDE DEF given, kept
  <2>12. Balanced(cap, dropped', returned, KeptIn(refunds'))
    <3>1. Fits(cap, dropped, given, kept, c)
      BY <1>4, <1>7, <2>6, <2>7, <2>8, <2>9, <2>10, <2>11 DEF Fits
    <3>2. dropped' = dropped \cup Covered(c)
      BY <1>2 DEF Covered
    <3> HIDE DEF cap
    <3> QED BY <2>7, <2>11, <3>1, <3>2, BooksKept
  <2>13. refunds' # <<>>
    BY <1>8
  <2>14. Books(returned)'
    <3>1. returned' = returned /\ Paid'.captured = cap
      BY <1>2, <1>4
    <3>2. Balanced(cap, dropped, returned, KeptIn(refunds))'
      BY <1>4, <2>12, <3>1 DEF Balanced, KeptIn, Bases
    <3> QED BY <1>4, <2>13, <3>1, <3>2 DEF Books
  <2>15. Receipts'
    <3>1. \A m \in DOMAIN refunds : m \in DOMAIN refunds' /\ refunds'[m] = refunds[m]
      BY <1>8
    <3>2. \A m \in DOMAIN refunds' : m \in DOMAIN refunds \/ m = n + 1
      BY <1>8
    <3>3. \A m \in DOMAIN refunds : refunds[m].line # c.line
      <4>1. CASE whole
        BY <2>2, <4>1, <1>8 DEF Aims
      <4>2. CASE c.line \in Services
        BY <2>3, <2>10, <4>2 DEF Receipts
      <4> QED BY <1>9, <4>1, <4>2
    <3>4. dropped \subseteq dropped' /\ (whole => dropped' = Services) /\ (~whole => c.line \in dropped')
      BY <1>2, <1>4 DEF RefundTyped
    <3>5. \A m \in DOMAIN refunds' :
            IF refunds'[m].line = WholeBooking THEN dropped' = Services ELSE refunds'[m].line \in dropped'
      <4>1. \A m \in DOMAIN refunds :
              IF refunds[m].line = WholeBooking THEN dropped' = Services ELSE refunds[m].line \in dropped'
        BY <1>10, <2>3, <3>4 DEF Receipts
      <4>2. r.line = c.line
        BY <1>1
      <4> QED BY <1>8, <3>1, <3>2, <3>4, <4>1, <4>2
    <3>6. listed' \subseteq {refunds'[m].line : m \in DOMAIN refunds'}
      <4>1. listed \subseteq {refunds'[m].line : m \in DOMAIN refunds'}
        BY <2>3, <3>1 DEF Receipts
      <4>2. n + 1 \in DOMAIN refunds' /\ refunds'[n + 1].line = c.line
        BY <1>1, <1>8
      <4>3. c.listed = listed
        BY <2>2 DEF Aims
      <4> QED BY <1>2, <4>1, <4>2, <4>3
    <3>7. \A m, k \in DOMAIN refunds' : refunds'[m].line = refunds'[k].line => m = k
      <4>1. refunds'[n + 1].line = c.line
        BY <1>1, <1>8
      <4> QED BY <2>3, <3>1, <3>2, <3>3, <4>1 DEF Receipts
    <3>8. dropped' = Services => status' = "refunded"
      BY <1>2, <1>9, <2>10
    <3> QED BY <3>5, <3>6, <3>7, <3>8 DEF Receipts
  <2> QED BY <1>5, <2>4, <2>14, <2>15, OnlyCall DEF Busy
<1> QED BY <1>2, <1>3, <1>4, <1>11, <1>12, RefundInvNext

LEMMA RefundStepped ==
  ASSUME RefundInv, OrderInv, NEW h \in RefundCalls,
         \/ \E l \in Services : processBookNowLineItemRefund(h, l)
         \/ cancelEscrowByBookingOrderId(h)
         \/ QuoteRefund(h) \/ CallGateway(h) \/ CommitRefund(h) \/ BreakOff(h)
  PROVE  /\ RefundInv' /\ kind = "book_now" /\ order # {}
         /\ UNCHANGED <<rateVars, kind, shown, estimate, order, assigned, reached, answer>>
         /\ status' = status \/ status' \in {"held", "refunded"}
<1>1. CASE \E l \in Services : processBookNowLineItemRefund(h, l)
  <2>1. PICK l \in Services : processBookNowLineItemRefund(h, l)
    BY <1>1
  <2> DEFINE last == Services \subseteq dropped \cup {l}
             done == status = "released" \/ l \in listed
  <2>2. l \notin dropped /\ Begins(h, l, last, done)
    BY <2>1 DEF processBookNowLineItemRefund
  <2>3. kind = "book_now" /\ order # {} /\ UNCHANGED <<rateVars, orderVars>>
    BY <2>2 DEF Begins
  <2>4. l \in Targets /\ l # WholeBooking /\ last \in BOOLEAN
    BY BookingAssumption DEF Targets
  <2>5. RefundInv'
    BY <2>2, <2>4, RefundBegun
  <2> QED BY <2>3, <2>5 DEF orderVars
<1>2. CASE cancelEscrowByBookingOrderId(h)
  <2>1. Begins(h, WholeBooking, TRUE, refunds # <<>>)
    BY <1>2 DEF cancelEscrowByBookingOrderId
  <2>2. kind = "book_now" /\ order # {} /\ UNCHANGED <<rateVars, orderVars>>
    BY <2>1 DEF Begins
  <2>3. WholeBooking \in Targets /\ WholeBooking \notin Services
    BY BookingAssumption DEF Targets
  <2>4. RefundInv'
    BY <2>1, <2>3, RefundBegun
  <2> QED BY <2>2, <2>4 DEF orderVars
<1>3. CASE QuoteRefund(h) \/ CallGateway(h) \/ CommitRefund(h) \/ BreakOff(h)
  <2>1. call[h] # NoCall
    BY <1>3 DEF QuoteRefund, CallGateway, CommitRefund, BreakOff, NoCall
  <2>2. kind = "book_now" /\ order # {}
    BY <2>1 DEF RefundInv, Quiet
  <2>3. CASE CommitRefund(h)
    BY <2>2, <2>3, RefundCommitted DEF CommitRefund
  <2>4. CASE QuoteRefund(h)
    BY <2>2, <2>4, RefundQuoted DEF QuoteRefund, orderVars
  <2>5. CASE CallGateway(h)
    BY <2>2, <2>5, GatewayCalled DEF CallGateway, orderVars
  <2>6. CASE BreakOff(h)
    BY <2>2, <2>6, RefundBroken DEF BreakOff, orderVars
  <2> QED BY <1>3, <2>3, <2>4, <2>5, <2>6
<1> QED BY <1>1, <1>2, <1>3

-----------------------------------------------------------------------------
(* Bookings: what a checkout is charged                                    *)

LEMMA RowSums ==
  ASSUME NEW n \in Nat, NEW S \in SUBSET (1 .. n), NEW f, \A m \in S : f[m] \in Nat
  PROVE  SumFunction([m \in S |-> f[m]]) \in Nat
         /\ \A m \in S : f[m] <= SumFunction([k \in S |-> f[k]])
<1> DEFINE g == [m \in S |-> f[m]]
<1>1. IsFiniteSet(S)
  <2>1. IsFiniteSet(1 .. n)
    BY FS_Interval
  <2> QED BY <2>1, FS_Subset
<1>2. DOMAIN g = S /\ \A m \in S : g[m] = f[m]
  OBVIOUS
<1> HIDE DEF g
<1>3. SumFunction(g) = SumOver(g, S)
  BY <1>1, <1>2, FunctionSum
<1>4. \A m \in S : g[m] \in Nat /\ g[m] \in Int
  BY <1>2
<1>5. SumOver(g, S) \in Nat
  BY <1>1, <1>4, SumNat
<1>6. ASSUME NEW m \in S PROVE f[m] <= SumOver(g, S)
  <2>1. SumOver(g, S) = g[m] + SumOver(g, S \ {m})
    BY <1>1, <1>4, SumAdd
  <2>2. IsFiniteSet(S \ {m})
    BY <1>1, FS_Subset
  <2>3. SumOver(g, S \ {m}) \in Nat
    BY <1>4, <2>2, SumNat
  <2> QED BY <1>2, <1>4, <2>1, <2>3
<1> QED BY <1>3, <1>5, <1>6 DEF g

LEMMA TotalIs ==
  ASSUME NEW r, TotalRows(r)
  PROVE  BookNowTotals(r).total \in Nat
<1>1. PICK n \in Nat : r \in [1 .. n -> [key : Categories, subtotal : Nat, rate : Percent, gst : Nat]]
  BY DEF TotalRows
<1> DEFINE sub == [m \in 1 .. n |-> r[m].subtotal]
           gst == [m \in 1 .. n |-> r[m].gst]
<1>2. \A m \in 1 .. n : sub[m] \in Nat /\ gst[m] \in Nat
  BY <1>1
<1>3. DOMAIN r = 1 .. n
  BY <1>1
<1>4. sub = [m \in 1 .. n |-> sub[m]] /\ gst = [m \in 1 .. n |-> gst[m]]
  OBVIOUS
<1>5. BookNowTotals(r).total = SumFunction(sub) + SumFunction(gst)
  BY <1>3 DEF BookNowTotals
<1> HIDE DEF sub, gst
<1>6. SumFunction(sub) \in Nat /\ SumFunction(gst) \in Nat
  <2>1. 1 .. n \in SUBSET (1 .. n)
    OBVIOUS
  <2>2. SumFunction([m \in 1 .. n |-> sub[m]]) \in Nat /\ SumFunction([m \in 1 .. n |-> gst[m]]) \in Nat
    BY <1>2, <2>1, RowSums
  <2> QED BY <1>4, <2>2
<1> QED BY <1>5, <1>6

LEMMA RowIs ==
  ASSUME NEW c \in Categories, NEW amount \in Nat, NEW rate \in Percent
  PROVE  GstRow(c, amount, rate) \in [key : Categories, subtotal : Nat, rate : Percent, gst : Nat]
<1>1. rate \in Nat
  BY DEF Percent
<1>2. Share(amount, rate) \in Nat
  BY <1>1, ShareNat
<1> QED BY <1>2 DEF GstRow

LEMMA SequenceIs ==
  ASSUME NEW S, IsFiniteSet(S)
  PROVE  Cardinality(S) \in Nat /\ SetToSeq(S) \in [1 .. Cardinality(S) -> S]
<1>1. Cardinality(S) \in Nat /\ ExistsBijection(1 .. Cardinality(S), S)
  BY FS_CardinalityType
<1>2. \E f \in [1 .. Cardinality(S) -> S] : IsInjective(f)
  BY <1>1 DEF ExistsBijection, Bijection, Injection
<1> QED BY <1>1, <1>2 DEF SetToSeq

LEMMA ChargedRowsAre ==
  ASSUME RatesTyped, NEW i \in Instances, NEW down
  PROVE  ChargedCategories \in SUBSET Categories /\ TotalRows(ChargedRows(i, down))
<1>1. /\ IsFiniteSet(Services) /\ Price \in [Services -> Nat] /\ CategoryOf \in [Services -> Categories]
  BY BookingAssumption
<1>2. ChargedCategories \subseteq Categories
  BY <1>1 DEF ChargedCategories
<1>3. IsFiniteSet(ChargedCategories)
  <2>1. CategoryOf \in Surjection(Services, ChargedCategories)
    BY <1>1 DEF Surjection, ChargedCategories
  <2> QED BY <1>1, <2>1, FS_Surjection
<1> DEFINE n == Cardinality(ChargedCategories)
           charged == SetToSeq(ChargedCategories)
<1>4. n \in Nat /\ charged \in [1 .. n -> ChargedCategories]
  BY <1>3, SequenceIs
<1>5. ASSUME NEW c PROVE Subtotal(c) \in Nat
  <2> DEFINE S == {l \in Services : CategoryOf[l] = c}
  <2>1. IsFiniteSet(S)
    BY <1>1, FS_Subset
  <2>2. \A l \in S : Price[l] \in Nat
    BY <1>1
  <2> HIDE DEF S
  <2>3. SumFunctionOnSet(Price, S) \in Nat
    BY <2>1, <2>2, FunctionOnSetSum, SumNat
  <2> QED BY <2>3 DEF Subtotal, S
<1> DEFINE row(m) == GstRow(charged[m], Subtotal(charged[m]),
                            resolveBookNowGstPercentage(i, charged[m], down))
<1>6. ChargedRows(i, down) = [m \in 1 .. n |-> row(m)]
  BY <1>4 DEF ChargedRows
<1> HIDE DEF n, charged
<1>7. \A m \in 1 .. n : row(m) \in [key : Categories, subtotal : Nat, rate : Percent, gst : Nat]
  BY <1>2, <1>4, <1>5, RowRateIs, RowIs
<1> HIDE DEF row
<1> QED BY <1>2, <1>4, <1>6, <1>7 DEF TotalRows

\* What a coupon leaves to pay is an amount.
LEMMA AfterCouponIs ==
  ASSUME NEW amount \in Nat, NEW r, TotalRows(r), NEW discount \in Nat, NEW eligible
  PROVE  AmountAfterCoupon(amount, r, discount, eligible) \in Nat
<1>1. PICK n \in Nat : r \in [1 .. n -> [key : Categories, subtotal : Nat, rate : Percent, gst : Nat]]
  BY DEF TotalRows
<1> DEFINE hits == CouponRows(r, eligible)
           weight == [m \in 1 .. n |-> r[m].subtotal]
           whole == SumFunction([m \in hits |-> r[m].subtotal])
           part == [m \in hits |-> CouponPart(r, hits, m, discount)]
<1>2. hits \in SUBSET (1 .. n) /\ \A m \in hits : r[m].subtotal \in Nat \ {0}
  BY <1>1 DEF CouponRows
<1>3. whole \in Nat /\ \A m \in hits : r[m].subtotal <= whole
  <2> DEFINE f == [m \in hits |-> r[m].subtotal]
  <2>1. f = [m \in hits |-> f[m]] /\ \A m \in hits : f[m] \in Nat /\ f[m] = r[m].subtotal
    BY <1>2
  <2>2. whole = SumFunction(f)
    OBVIOUS
  <2> HIDE DEF f, hits, whole
  <2>3. SumFunction([m \in hits |-> f[m]]) \in Nat
        /\ \A m \in hits : f[m] <= SumFunction([k \in hits |-> f[k]])
    BY <1>2, <2>1, RowSums
  <2> QED BY <2>1, <2>2, <2>3
<1> HIDE DEF hits
<1>4. \A m \in hits : CouponPart(r, hits, m, discount) \in Nat
  <2>1. ASSUME NEW m \in hits PROVE CouponPart(r, hits, m, discount) \in Nat
    <3> DEFINE product == discount * r[m].subtotal
    <3>1. whole \in Nat \ {0} /\ product \in Nat
      BY <1>2, <1>3
    <3>2. CouponPart(r, hits, m, discount) = Nearest(product, whole)
      BY DEF CouponPart
    <3> HIDE DEF product, whole
    <3> QED BY <3>1, <3>2, NearestBounds
  <2> QED BY <2>1
<1>5. \A m \in hits : CouponShare(r, hits, m, discount) \in Int
  <2>1. ASSUME NEW m \in hits PROVE CouponShare(r, hits, m, discount) \in Int
    <3> DEFINE others == hits \ {m}
               f == [k \in others |-> CouponPart(r, hits, k, discount)]
    <3>1. f = [k \in others |-> f[k]] /\ \A k \in others : f[k] \in Nat
      BY <1>4
    <3>2. others \in SUBSET (1 .. n)
      BY <1>2
    <3> HIDE DEF f, others
    <3>3. SumFunction([k \in others |-> f[k]]) \in Nat
      BY <3>1, <3>2, RowSums
    <3>4. SumFunction(f) \in Nat
      BY <3>1, <3>3
    <3> QED BY <1>4, <3>4 DEF CouponShare, Larger, f, others
  <2> QED BY <2>1
<1> DEFINE shareOf(m) == IF m \in hits THEN CouponShare(r, hits, m, discount) ELSE 0
           reduced(m) == GstRow(r[m].key, Larger(r[m].subtotal - shareOf(m), 0), r[m].rate)
           cut == [m \in 1 .. n |-> reduced(m)]
<1>6. TotalRows(cut)
  <2>1. ASSUME NEW m \in 1 .. n
        PROVE  reduced(m) \in [key : Categories, subtotal : Nat, rate : Percent, gst : Nat]
    <3>1. shareOf(m) \in Int /\ r[m].subtotal \in Nat /\ r[m].key \in Categories /\ r[m].rate \in Percent
      BY <1>1, <1>5
    <3> HIDE DEF shareOf
    <3>2. Larger(r[m].subtotal - shareOf(m), 0) \in Nat
      BY <3>1 DEF Larger
    <3> QED BY <3>1, <3>2, RowIs
  <2> HIDE DEF reduced
  <2> QED BY <2>1 DEF TotalRows
<1> DEFINE total == recalculateBookNowTotalsAfterCouponDiscount(r, discount, eligible).total
<1>7. total \in Nat
  <2>1. DOMAIN r = 1 .. n
    BY <1>1
  <2>2. recalculateBookNowTotalsAfterCouponDiscount(r, discount, eligible)
          = IF discount = 0 THEN BookNowTotals(r) ELSE BookNowTotals(cut)
    BY <2>1 DEF recalculateBookNowTotalsAfterCouponDiscount, hits
  <2> HIDE DEF cut
  <2> QED BY <1>6, <2>2, TotalIs
<1> HIDE DEF total
<1>8. Larger(amount - discount, 0) \in Nat
  BY DEF Larger
<1> QED BY <1>7, <1>8 DEF AmountAfterCoupon, total

\* What holds of a booking between any two steps.
BookInv == RatesInv /\ TaskInv /\ AnswerInv /\ OrderInv /\ RefundInv /\ BuysInv

LEMMA RefundKept ==
  ASSUME RefundInv, UNCHANGED <<kind, order, status, refundVars>>
  PROVE  RefundInv'
<1>1. UNCHANGED <<listed, refunds, returned, dropped, call, calls, tangled, order, status, kind>>
  BY DEF refundVars
<1>2. Paid' = Paid
  BY <1>1 DEF Paid
<1>3. RefundTyped' /\ (Quiet => Quiet')
  BY <1>1 DEF RefundInv, RefundTyped, Quiet
<1>4. \A g : Books(g) => Books(g)'
  BY <1>1, <1>2 DEF Books, Balanced, Bases, KeptIn
<1>5. \A c, g : Gives(c, g) => Gives(c, g)'
  BY <1>2, <1>4 DEF Gives, Bases
<1>6. \A c : Aims(c) => Aims(c)'
  BY <1>1 DEF Aims
<1>7. Receipts => Receipts'
  BY <1>1 DEF Receipts
<1>8. OneByOne => OneByOne'
  BY <1>1, <1>4, <1>5, <1>6, <1>7 DEF OneByOne, Busy
<1> QED BY <1>1, <1>3, <1>8 DEF RefundInv

LEMMA TotalsShown ==
  ASSUME BookInv, NEW i \in Instances, NEW down \in BOOLEAN, calculateBookNowOrderTotals(i, down)
  PROVE  BookInv'
<1> USE DEF BookInv
<1>1. /\ kind = "book_now" /\ order = {}
      /\ gstCache' = [gstCache EXCEPT ![i] = KeptAfter(i, ChargedCategories, down)]
      /\ shown' = {[total |-> BookNowTotals(ChargedRows(i, down)).total,
                    rows |-> ChargedRows(i, down), at |-> left]}
      /\ Noticed(down)
      /\ UNCHANGED <<left, stored, rows, cache, changes>>
      /\ UNCHANGED <<kind, estimate, order, status, assigned, reached, answer, refundVars>>
  BY DEF calculateBookNowOrderTotals
<1>2. ChargedCategories \in SUBSET Categories /\ TotalRows(ChargedRows(i, down))
  BY ChargedRowsAre DEF RatesInv
<1>3. RatesInv'
  BY <1>1, <1>2, RatesLoaded
<1>4. BookNowTotals(ChargedRows(i, down)).total \in Nat
  BY <1>2, TotalIs
<1>5. BuysInv'
  BY <1>1, <1>2, <1>4 DEF BuysInv
<1>6. TaskInv' /\ OrderInv'
  BY <1>1 DEF TaskInv, OrderInv
<1>7. AnswerInv'
  BY <1>1, NothingAnswered DEF OrderInv
<1>8. RefundInv'
  BY <1>1 DEF RefundInv, RefundTyped, Quiet, refundVars
<1> QED BY <1>3, <1>5, <1>6, <1>7, <1>8

LEMMA EscrowCreated ==
  ASSUME BookInv, NEW o \in Offers, NEW e, createEscrow(o.discount, e, o.coins)
  PROVE  BookInv'
<1> USE DEF BookInv
<1> DEFINE Rest(q) == AmountAfterCoupon(q.total, q.rows, o.discount, e)
           Charge(q) == FinalCharge(Rest(q), o.coins, CapPercent)
<1>1. PICK q \in shown :
        /\ order' = {[total |-> q.total, rows |-> q.rows, discount |-> o.discount, rest |-> Rest(q),
                      captured |-> Charge(q)]}
        /\ Charge(q) > 0
  BY DEF createEscrow
<1>2. /\ kind = "book_now" /\ order = {} /\ status' = "held" /\ shown' = {}
      /\ UNCHANGED <<rateVars, kind, estimate, assigned, reached, answer, refundVars>>
  BY DEF createEscrow
<1>3. o.discount \in Nat /\ o.coins \in Nat /\ CapPercent \in Nat
  BY BookingAssumption DEF Percent
<1>4. Rest(q) \in Nat
  BY <1>2, <1>3, AfterCouponIs DEF BuysInv
<1> HIDE DEF Rest
<1>5. Charge(q) \in Nat \ {0}
  <2>1. Charge(q) \in Nat
    BY <1>3, <1>4, ChargeIs
  <2>2. Charge(q) > 0
    BY <1>1
  <2> HIDE DEF Charge
  <2> QED BY <2>1, <2>2
<1> HIDE DEF Charge
<1>6. PICK bought : order' = {bought} /\ bought.captured \in Nat \ {0}
  <2> DEFINE new == [total |-> q.total, rows |-> q.rows, discount |-> o.discount, rest |-> Rest(q),
                     captured |-> Charge(q)]
  <2>1. new.captured = Charge(q) /\ order' = {new}
    BY <1>1
  <2> HIDE DEF new
  <2> QED BY <1>5, <2>1
<1>7. Quiet /\ returned = 0 /\ RefundTyped
  BY <1>2 DEF RefundInv
<1>8. RefundTyped' /\ Quiet' /\ returned' = 0
  BY <1>2, <1>7 DEF RefundTyped, Quiet, refundVars
<1>9. Paid' = bought
  BY <1>6 DEF Paid
<1>10. OneByOne'
  <2>1. NoCall.step = "idle"
    BY DEF NoCall
  <2>2. dropped' = {} /\ Services # {} /\ refunds' = <<>>
    BY <1>8, BookingAssumption DEF Quiet
  <2>3. Receipts'
    BY <1>8, <2>2 DEF Receipts, Quiet
  <2>4. KeptIn(<<>>) = 0
    BY KeptNone
  <2>5. SumFunctionOnSet(Bases(bought.captured), {}) = 0
    BY FunctionOnSetSum, FS_EmptySet, SumEmpty
  <2>6. Balanced(bought.captured, {}, 0, 0)
    BY <2>2, <2>5 DEF Balanced
  <2>7. Books(returned)'
    <3>1. Balanced(bought.captured, {}, 0, 0)'
      BY <2>6 DEF Balanced, Bases
    <3> QED BY <1>6, <1>8, <1>9, <2>2, <2>4, <3>1 DEF Books
  <2> QED BY <1>8, <2>1, <2>3, <2>7 DEF OneByOne, Quiet, Busy
<1>11. RefundInv'
  BY <1>2, <1>6, <1>8, <1>10 DEF RefundInv
<1>12. RatesInv'
  BY <1>2, RatesKept
<1>13. BuysInv' /\ TaskInv'
  BY <1>2 DEF BuysInv, TaskInv
<1>14. OrderInv'
  BY <1>2, <1>6 DEF OrderInv
<1>15. AnswerInv'
  BY <1>2, NothingAnswered DEF OrderInv
<1> QED BY <1>11, <1>12, <1>13, <1>14, <1>15

LEMMA PartnerMoved ==
  ASSUME BookInv, PartnerMoves
  PROVE  BookInv'
<1> USE DEF BookInv
<1>1. /\ kind = "book_now" /\ status = "held"
      /\ UNCHANGED <<rateVars, kind, shown, estimate, order, status, answer, refundVars>>
      /\ assigned' \in {left, Unassigned, assigned} /\ reached' \in {TRUE, reached}
  BY DEF PartnerMoves, attachPerformerToEscrow, resetPerformerOnEscrow, PartnerArrives
<1>2. RatesInv'
  BY <1>1, RatesKept
<1>3. OrderInv'
  BY <1>1 DEF OrderInv, RatesInv, RatesTyped
<1>4. AnswerInv'
  BY <1>1, NothingAnswered DEF OrderInv
<1>5. TaskInv' /\ BuysInv'
  BY <1>1 DEF TaskInv, BuysInv
<1>6. RefundInv'
  BY <1>1, RefundKept
<1> QED BY <1>2, <1>3, <1>4, <1>5, <1>6

LEMMA BookingKept ==
  ASSUME BookInv, UNCHANGED bookingVars
  PROVE  BookInv'
<1> USE DEF BookInv
<1>1. UNCHANGED <<rateVars, orderVars, refundVars>>
  BY DEF bookingVars
<1>2. RatesInv'
  BY <1>1, RatesKept
<1>3. RefundInv'
  BY <1>1, RefundKept DEF orderVars
<1>4. CurrentFees' = CurrentFees /\ Paid' = Paid
  BY <1>1 DEF rateVars, orderVars, CurrentFees, CategoryFees, getFeeStructureForCategory, CategoryRow,
              ActiveAt, RowsAt, StoredStructure, Paid
<1>5. left' = left /\ changed' = changed /\ left \in Int /\ changed \in Int
  BY <1>1, RatesNumbers DEF rateVars, RatesInv, RatesTyped
<1>6. Moves
  BY <1>4, <1>5 DEF Moves
<1>7. (ShownInv => ShownInv') /\ (EstimateInv => EstimateInv')
  BY <1>1, <1>6, SaidStays DEF orderVars
<1>8. AnswerInv'
  <2>1. answer.of = "payout" => EstimateInv
    BY DEF OrderInv, TaskInv, NoAnswer
  <2>2. UNCHANGED <<answer, order, status, returned, estimate>>
    BY <1>1 DEF orderVars, refundVars
  <2> QED BY <1>6, <2>1, <2>2, SaidStays
<1>9. TaskInv'
  BY <1>1, <1>7 DEF TaskInv, orderVars, refundVars, TaskOrder
<1>10. OrderInv' /\ BuysInv'
  BY <1>1 DEF OrderInv, BuysInv, orderVars
<1> QED BY <1>2, <1>3, <1>8, <1>9, <1>10

LEMMA BookingConfigured ==
  ASSUME BookInv, Configured
  PROVE  BookInv'
<1> USE DEF BookInv
<1>1. UNCHANGED <<orderVars, refundVars>> /\ (ConfigurationChanges \/ Pass)
  BY DEF Configured
<1>2. RatesInv' /\ left' <= left /\ (changed' = left \/ (changed' = changed /\ Pass))
  <2>1. left \in Int
    BY RatesNumbers DEF RatesInv, RatesTyped
  <2>2. CASE ConfigurationChanges
    BY <2>1, <2>2, Reconfigured
  <2>3. CASE Pass
    BY <2>3, Passed
  <2> QED BY <1>1, <2>2, <2>3
<1>3. Pass => CurrentFees' = CurrentFees
  BY DEF Pass, CurrentFees, CategoryFees, getFeeStructureForCategory, CategoryRow, ActiveAt, RowsAt,
         StoredStructure
<1>4. left' \in Int /\ changed' \in Int
  BY <1>2, RatesNumbers DEF RatesInv, RatesTyped
<1>5. Moves
  BY <1>2, <1>3, <1>4 DEF Moves
<1>6. RefundInv'
  BY <1>1, RefundKept DEF orderVars
<1>7. (ShownInv => ShownInv') /\ (EstimateInv => EstimateInv')
  BY <1>1, <1>5, SaidStays DEF orderVars
<1>8. AnswerInv'
  <2>1. answer.of = "payout" => EstimateInv
    BY DEF OrderInv, TaskInv, NoAnswer
  <2>2. UNCHANGED <<answer, order, status, returned, estimate>>
    BY <1>1 DEF orderVars, refundVars
  <2> QED BY <1>5, <2>1, <2>2, SaidStays
<1>9. TaskInv'
  BY <1>1, <1>7 DEF TaskInv, orderVars, refundVars, TaskOrder
<1>10. OrderInv' /\ BuysInv'
  BY <1>1 DEF OrderInv, BuysInv, orderVars
<1> QED BY <1>2, <1>6, <1>8, <1>9, <1>10

LEMMA TaskRequested ==
  ASSUME BookInv, TaskRequests
  PROVE  BookInv'
<1> USE DEF BookInv
<1>1. PICK i \in Instances, base \in Loaded, down \in Down :
        \/ calculateFees(i, base, down)
        \/ estimateTaskerPayout(i, base, down)
        \/ payCompletedTask(i, base, down)
        \/ \E o \in Offers : createVisitOrder(i, base, down, o.discount, o.coins)
        \/ \E by \in {"poster", "performer"} : cancelTask(i, base, down, by)
  BY DEF TaskRequests
<1>2. down \in BOOLEAN
  BY DEF Down
<1>3. /\ Serves(i, base, down)
      /\ UNCHANGED <<listed, refunds, dropped, call, calls, tangled>>
      /\ returned' = returned \/ (order # {} /\ order' = order)
      /\ order' = {} => order = {}
  <2>1. CASE \/ calculateFees(i, base, down)
             \/ estimateTaskerPayout(i, base, down)
             \/ payCompletedTask(i, base, down)
    BY <2>1 DEF calculateFees, estimateTaskerPayout, payCompletedTask, refundVars
  <2>2. ASSUME NEW o \in Offers, createVisitOrder(i, base, down, o.discount, o.coins)
        PROVE  Serves(i, base, down) /\ UNCHANGED refundVars /\ (order' = {} => order = {})
    BY <2>2 DEF createVisitOrder
  <2>3. ASSUME NEW by \in {"poster", "performer"}, cancelTask(i, base, down, by)
        PROVE  /\ Serves(i, base, down) /\ order # {} /\ order' = order
               /\ UNCHANGED <<listed, refunds, dropped, call, calls, tangled>>
    BY <2>3 DEF cancelTask, OrderInv
  <2> QED BY <1>1, <2>1, <2>2, <2>3 DEF refundVars
<1>4. kind = "bidding" /\ kind' = kind
  BY <1>3 DEF Serves
<1>5. TaskKept
  BY <1>1, <1>2, FeesCalculated, PayoutEstimated, TaskPaid, VisitOrdered, TaskCancelled
<1>6. RefundInv'
  BY <1>3, <1>4 DEF RefundInv, RefundTyped, Quiet
<1>7. BuysInv'
  BY <1>4 DEF BuysInv
<1> QED BY <1>5, <1>6, <1>7 DEF TaskKept

LEMMA BookingStarts == ASSUME BookingInit PROVE BookInv
<1>1. RatesInv
  BY RatesStart DEF BookingInit
<1>2. /\ kind \in Kinds /\ shown = {} /\ estimate = {} /\ reached = FALSE /\ answer = NoAnswer
      /\ listed = {} /\ refunds = <<>> /\ returned = 0 /\ dropped = {}
      /\ call = [h \in RefundCalls |-> NoCall] /\ calls = 0 /\ tangled = FALSE
      /\ \/ order = {} /\ status = "none" /\ assigned = Unassigned
         \/ /\ kind = "bidding" /\ order \in {{o} : o \in OldOrders}
            /\ status = "held" /\ assigned = left
  BY DEF BookingInit
<1>3. \A o \in OldOrders : TaskOrder(o)
  <2> DEFINE total == calculatePosterFees(Task, DEFAULT).totalAmount
  <2>1. DEFAULT \in FeeStructures /\ Task \in Nat
    BY FeeRatesAssumption, BookingAssumption
  <2>2. total \in Nat /\ Task <= total
    BY <2>1, FeesNat DEF calculatePosterFees
  <2> HIDE DEF total
  <2>3. ASSUME NEW t \in {Task, NoAmount}
        PROVE  TaskOrder([total |-> total, task |-> t, structure |-> DEFAULT, captured |-> total,
                          current |-> FALSE])
    BY <2>1, <2>2 DEF TaskOrder, total
  <2> QED BY <2>3 DEF OldOrders, total
<1>4. TaskInv
  BY <1>2, <1>3 DEF TaskInv, ShownInv, EstimateInv
<1>5. AnswerInv
  BY <1>2 DEF NoAnswer, AnswerInv, EstimateIsPaid, CancelCovered, FeeIsSplit
<1>6. OrderInv
  BY <1>1, <1>2 DEF OrderInv, RatesInv, RatesTyped
<1>7. RefundInv
  <2>1. RefundTyped
    <3>1. 0 \in 0 .. MaxCalls /\ <<>> \in Seq(RefundRows)
      BY BookingAssumption
    <3> QED BY <1>2, <3>1 DEF RefundTyped
  <2>2. Quiet
    BY <1>2 DEF Quiet
  <2> QED BY <1>2, <2>1, <2>2 DEF RefundInv
<1>8. BuysInv
  BY <1>2 DEF BuysInv
<1> QED BY <1>1, <1>4, <1>5, <1>6, <1>7, <1>8 DEF BookInv

LEMMA RefundStepsKeep ==
  ASSUME BookInv, RefundSteps
  PROVE  BookInv'
<1> USE DEF BookInv
<1>1. PICK h \in RefundCalls :
        \/ \E l \in Services : processBookNowLineItemRefund(h, l)
        \/ cancelEscrowByBookingOrderId(h)
        \/ QuoteRefund(h) \/ CallGateway(h) \/ CommitRefund(h) \/ BreakOff(h)
  BY DEF RefundSteps
<1>2. /\ RefundInv' /\ kind = "book_now" /\ order # {}
      /\ UNCHANGED <<rateVars, kind, shown, estimate, order, assigned, reached, answer>>
      /\ status' = status \/ status' \in {"held", "refunded"}
  BY <1>1, RefundStepped
<1>3. RatesInv'
  BY <1>2, RatesKept
<1>4. AnswerInv'
  BY <1>2, NothingAnswered DEF OrderInv
<1>5. TaskInv' /\ BuysInv' /\ OrderInv'
  BY <1>2 DEF TaskInv, BuysInv, OrderInv
<1> QED BY <1>2, <1>3, <1>4, <1>5

LEMMA BookingStep == ASSUME BookInv, [BookingNext]_bookingVars PROVE BookInv'
<1>1. CASE TaskRequests
  BY <1>1, TaskRequested
<1>2. CASE Checkout
  <2>1. CASE \E i \in Instances, down \in Down : calculateBookNowOrderTotals(i, down)
    <3>1. Down \subseteq BOOLEAN
      BY DEF Down
    <3> QED BY <2>1, <3>1, TotalsShown
  <2>2. CASE \E o \in Offers, e \in SUBSET ChargedCategories : createEscrow(o.discount, e, o.coins)
    BY <2>2, EscrowCreated
  <2> QED BY <1>2, <2>1, <2>2 DEF Checkout
<1>3. CASE PartnerMoves
  BY <1>3, PartnerMoved
<1>4. CASE RefundSteps
  BY <1>4, RefundStepsKeep
<1>5. CASE Configured
  BY <1>5, BookingConfigured
<1>6. CASE UNCHANGED bookingVars
  BY <1>6, BookingKept
<1> QED BY <1>1, <1>2, <1>3, <1>4, <1>5, <1>6 DEF BookingNext

\* The fee for a cancellation is higher the later it comes.
LEMMA WaitingCosts == ASSUME BookInv PROVE WaitingCostsMore
<1> DEFINE there == assigned # Unassigned
           flat(m, r) == flatFeeForTier(Group, IF there THEN resolveBookNowCancellationTier(m, r) ELSE "free")
<1>1. left \in Int /\ \A m \in Moments : m \in Int
  BY RatesNumbers DEF BookInv, RatesInv, RatesTyped
<1>2. assigned = Unassigned \/ assigned \in Int
  BY <1>1 DEF BookInv, OrderInv
<1>3. reached \in BOOLEAN /\ Group \in PolicyGroups /\ CatalogTotal \in Nat
  <2>1. IsFiniteSet(Services) /\ Price \in [Services -> Nat]
    BY BookingAssumption
  <2>2. CatalogTotal = SumOver(Price, Services)
    BY <2>1, FunctionSum DEF CatalogTotal
  <2>3. SumOver(Price, Services) \in Nat
    BY <2>1, SumNat
  <2> QED BY <2>2, <2>3, BookingAssumption DEF BookInv, OrderInv
<1>4. ASSUME NEW m \in Moments, m <= left
      PROVE  PosterCancellationPercent(left, assigned) <= PosterCancellationPercent(m, assigned)
  BY <1>1, <1>2, <1>4 DEF PosterCancellationPercent
<1>5. ASSUME NEW m \in Moments, m <= left, NEW r \in BOOLEAN, reached => r
      PROVE  flat(left, reached) <= flat(m, r) /\ flat(left, reached) \in Int /\ flat(m, r) \in Int
  BY <1>1, <1>3, <1>5 DEF flatFeeForTier, resolveBookNowCancellationTier, FLAT_FEES, PolicyGroups
<1>6. ASSUME NEW m \in Moments, m <= left, NEW r \in BOOLEAN, reached => r
      PROVE  calculateBookNowCancellationFee(Group, CatalogTotal, left, reached, there).fee
               <= calculateBookNowCancellationFee(Group, CatalogTotal, m, r, there).fee
  <2>1. flat(left, reached) <= flat(m, r) /\ flat(left, reached) \in Int /\ flat(m, r) \in Int
    BY <1>5, <1>6
  <2>2. /\ calculateBookNowCancellationFee(Group, CatalogTotal, left, reached, there).fee
             = Smaller(flat(left, reached), CatalogTotal)
        /\ calculateBookNowCancellationFee(Group, CatalogTotal, m, r, there).fee
             = Smaller(flat(m, r), CatalogTotal)
    BY DEF calculateBookNowCancellationFee
  <2> HIDE DEF flat, there
  <2> QED BY <1>3, <2>1, <2>2 DEF Smaller
<1> QED BY <1>4, <1>6 DEF WaitingCostsMore

LEMMA ChargesAre == ASSUME BookInv PROVE ChargesHold
<1>1. RatesSettle
  BY RatesHold DEF BookInv
<1>2. QuoteAccepted /\ EstimateIsPaid /\ CancelCovered /\ FeeIsSplit
  BY DEF BookInv, AnswerInv, QuoteAccepted, Timely
<1>3. WaitingCostsMore
  BY WaitingCosts
<1> QED BY <1>1, <1>2, <1>3 DEF ChargesHold

LEMMA BookingIs == ASSUME BookInv PROVE BookingAddsUp
<1> USE DEF BookInv
<1>1. BookingTypeOK
  <2>1. Cardinality(order) <= 1
    <3>1. CASE order = {}
      BY <3>1, FS_EmptySet
    <3>2. CASE order # {}
      <4>1. PICK o \in order : order = {o}
        BY <3>2 DEF OrderInv
      <4>2. Cardinality({o}) = 1
        BY FS_Singleton
      <4> QED BY <4>1, <4>2
    <3> QED BY <3>1, <3>2
  <2>2. RatesTypeOK
    BY RatesHold
  <2>3. \A h \in RefundCalls : call[h].step \in {"idle", "fetch", "refund", "commit"}
    BY DEF RefundInv, RefundTyped, NoCall, Fetched, Priced
  <2> QED BY <2>1, <2>2, <2>3 DEF BookingTypeOK, OrderInv, RefundInv, RefundTyped
<1>2. \/ tangled
      \/ listed = {} /\ refunds = <<>> /\ dropped = {}
      \/ Receipts /\ OneByOne /\ order # {}
  BY DEF RefundInv, Quiet, OneByOne
<1>3. ListedAreRefunded
  BY <1>2 DEF ListedAreRefunded, Receipts
<1>4. FeesExplainRetained
  <2>1. SUFFICES ASSUME dropped = Services, ~tangled
        PROVE  /\ status = "refunded"
               /\ (Paid.captured - returned) - KeptIn(refunds)
                    \in -Cardinality(Services) .. Cardinality(Services)
    BY DEF FeesExplainRetained, KeptIn
  <2>2. Receipts /\ OneByOne /\ dropped # {}
    BY <1>2, <2>1, BookingAssumption
  <2>3. \A h \in RefundCalls : call[h].step # "commit"
    <3>1. ASSUME NEW h \in RefundCalls, call[h].step = "commit" PROVE FALSE
      <4>1. Busy(h)
        BY <3>1 DEF Busy, NoCall
      <4>2. Aims(call[h]) /\ Books(returned - call[h].amount)
        BY <2>2, <3>1, <4>1 DEF OneByOne, Gives
      <4>3. call[h].line \in Targets
        BY <3>1 DEF RefundInv, RefundTyped, NoCall, Fetched, Priced
      <4> QED BY <2>1, <2>2, <4>2, <4>3 DEF Aims, Books, Targets
    <3> QED BY <3>1
  <2>4. Books(returned)
    BY <2>2, <2>3 DEF OneByOne
  <2>5. Paid.captured - (returned + KeptIn(refunds)) \in -Cardinality(Services) .. Cardinality(Services)
    BY <2>1, <2>4 DEF Books, Balanced
  <2>6. Paid.captured \in Int /\ returned \in Int /\ KeptIn(refunds) \in Int
    <3>1. kind = "book_now" /\ order # {}
      BY <1>2, <2>1, <2>2 DEF RefundInv, Quiet
    <3>2. PICK o \in order : Paid = o
      BY <3>1, PaidIs
    <3>3. refunds # <<>> => KeptIn(refunds) \in Int
      <4>1. refunds \in Seq(RefundRows)
        BY DEF RefundInv, RefundTyped
      <4>2. ASSUME refunds # <<>> PROVE refunds[1] \in RefundRows
        BY <4>1, <4>2
      <4> QED BY <4>1, <4>2, KeptAppended
    <3>4. refunds # <<>>
      BY <2>2, <2>4 DEF Books
    <3> QED BY <3>1, <3>2, <3>3, <3>4 DEF RefundInv
  <2> QED BY <2>1, <2>2, <2>5, <2>6 DEF Receipts
<1>5. LineReceiptTellsFee
  <2>1. refunds \in Seq(RefundRows)
    BY DEF RefundInv, RefundTyped
  <2>2. \A n \in DOMAIN refunds : refunds[n] \in RefundRows
    BY <2>1
  <2> QED BY <2>2 DEF LineReceiptTellsFee, RefundRows
<1> QED BY <1>1, <1>3, <1>4, <1>5 DEF BookingAddsUp

\* What is charged is what was agreed, whatever changes in between: once a
\* change of the percentages is TTL minutes old every instance serves the same
\* (FeeConfigService's cache), an order at the total just shown is accepted, a
\* completed task pays the estimate, and a cancellation is covered by what was
\* captured, splits to a paisa and is never cheaper for waiting.
THEOREM ChargedAsAgreed == BookingSpec => []ChargesHold
<1>1. BookingInit => BookInv
  BY BookingStarts
<1>2. BookInv /\ [BookingNext]_bookingVars => BookInv'
  BY BookingStep
<1>3. BookInv => ChargesHold
  BY ChargesAre
<1> QED BY <1>1, <1>2, <1>3, PTL DEF BookingSpec

\* A booking refunded line by line or as a whole adds up: the lines listed were
\* refunded, each once, what is kept of the captured amount is the fees to a
\* paisa per line, and each receipt tells whether a fee was kept.
THEOREM BookingsAddUp == BookingSpec => []BookingAddsUp
<1>1. BookingInit => BookInv
  BY BookingStarts
<1>2. BookInv /\ [BookingNext]_bookingVars => BookInv'
  BY BookingStep
<1>3. BookInv => BookingAddsUp
  BY BookingIs
<1> QED BY <1>1, <1>2, <1>3, PTL DEF BookingSpec
=============================================================================
