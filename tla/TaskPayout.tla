----------------------------- MODULE TaskPayout -----------------------------
(***************************************************************************)
(* processTaskCompletionPayout for the tasks of one performer, and what    *)
(* operators and customers do to the Payout rows it makes.                 *)
(*                                                                         *)
(* A completed task is paid from its held escrow (recurring visits always, *)
(* users always) or, for trusted callers, without one (Direct).  What is   *)
(* paid is the task amount less fees and pending cancellation penalties of *)
(* the performer, plus redeemed coins.  The penalties are read before the  *)
(* row is written, so payouts of two tasks can plan with the same penalty. *)
(* A payout is stored for manual transfer by operators ("manual") or made  *)
(* through RazorpayX ("razorpayx").                                        *)
(***************************************************************************)
EXTENDS Integers, FiniteSetsExt

CONSTANTS
    Tasks,         \* completed tasks of the performer
    Direct,        \* those without an escrow
    Recurring,     \* those that are visits of a recurring plan
    BookNow,       \* those booked as Book Now
    Payouts,       \* Payout rows that can be made
    Handlers,      \* slots for requests in flight
    NoPayout,
    Amount,        \* task amount of each task
    Fee,           \* platform fee with GST
    CoinCap,       \* most rupees of coins the performer asks to redeem
    MaxPaid,       \* what a task was paid is counted up to here
    NumPenalties,  \* cancellation penalties of the performer, oldest first
    PenaltyAmount, \* what each of them is
    Modes,         \* how payouts are made
    Operations,    \* which requests besides the payout are exercised
    Faults         \* which failures may happen

AllModes      == {"manual", "razorpayx"}
AllOperations == {"refund", "raiseIssue", "adminHold", "adminStatus"}
AllFaults     == {"crash", "dbError", "lostReply"}

Penalties == 1..NumPenalties

ASSUME TaskPayoutAssumption ==
    /\ Tasks # {}
    /\ Direct \subseteq Tasks
    /\ Recurring \subseteq Tasks \ Direct
    /\ BookNow \subseteq Tasks
    /\ NoPayout \notin Payouts
    /\ Amount \in Nat \ {0} /\ Fee \in 0..Amount /\ CoinCap \in Nat
    /\ MaxPaid \in Nat /\ MaxPaid > Amount
    /\ NumPenalties \in Nat /\ PenaltyAmount \in Nat
    /\ Modes \subseteq AllModes
    /\ Operations \subseteq AllOperations
    /\ Faults \subseteq AllFaults

VARIABLES
    escrow,    \* status of each task's escrow
    payout,    \* the Payout rows
    owed,      \* remainingAmount of each penalty
    deducted,  \* what Payout rows deducted for each penalty (penaltyLines)
    paid,      \* money transferred to the performer for each task
    req        \* the request each handler slot is serving

vars == <<escrow, payout, owed, deducted, paid, req>>

Statuses == {"pending", "processing", "completed", "failed", "held"}

Rows == [status   : Statuses \cup {"none"},
         task     : Tasks,
         net      : 0..Amount,
         manual   : BOOLEAN,              \* payoutMode manual_ops
         adjusted : BOOLEAN,              \* used up by penalties: no transfer
         from     : Statuses \cup {"none"},\* heldFromStatus
         reopened : BOOLEAN]              \* history: it was completed before

Steps == {"idle", "held.find", "held.resume", "escrow.read", "plan", "adjust",
          "manual", "claim", "transfer", "insert", "apply", "hold"}

Lines == [Penalties -> Nat]

Requests == [step  : Steps,
             task  : Tasks,
             user  : BOOLEAN,             \* an app user's request
             row   : Payouts \cup {NoPayout},
             from  : Statuses \cup {"none"},  \* row status or heldFromStatus read
             net   : 0..Amount,
             take  : Lines,               \* planned deductions ...
             after : Lines,               \* ... and remaining amounts
             result: {"processing", "completed", "failed"}]

NoLines == [p \in Penalties |-> 0]

Idle == [step |-> "idle", task |-> CHOOSE t \in Tasks : TRUE, user |-> FALSE,
         row |-> NoPayout, from |-> "none", net |-> 0, take |-> NoLines,
         after |-> NoLines, result |-> "processing"]

NoRow == [status |-> "none", task |-> CHOOSE t \in Tasks : TRUE, net |-> 0,
          manual |-> FALSE, adjusted |-> FALSE, from |-> "none",
          reopened |-> FALSE]

TypeOK ==
    /\ escrow \in [Tasks -> {"none", "held", "released", "refunded"}]
    /\ payout \in [Payouts -> Rows]
    /\ owed \in Lines
    /\ deducted \in Lines
    /\ paid \in [Tasks -> 0..MaxPaid]
    /\ req \in [Handlers -> Requests]

Init ==
    /\ escrow = [t \in Tasks |-> IF t \in Direct THEN "none" ELSE "held"]
    /\ payout = [i \in Payouts |-> NoRow]
    /\ owed = [p \in Penalties |-> PenaltyAmount]
    /\ deducted = NoLines
    /\ paid = [t \in Tasks |-> 0]
    /\ req = [h \in Handlers |-> Idle]

Exists(i) == payout[i].status # "none"
RowsOf(t) == {i \in Payouts : Exists(i) /\ payout[i].task = t}

At(h, step) == req[h].step = step
Become(h, r) == req' = [req EXCEPT ![h] = r]
GoTo(h, step) == req' = [req EXCEPT ![h].step = step]
Return(h) == Become(h, Idle)

\* Row i is written; from is its heldFromStatus.
SetStatus(i, status, from) ==
    payout' = [payout EXCEPT
        ![i].status = status, ![i].from = from,
        ![i].reopened = @ \/ (payout[i].status = "completed" /\ status # "completed")]

Pay(t, net) == paid' = [paid EXCEPT ![t] = IF @ + net < MaxPaid THEN @ + net
                                           ELSE MaxPaid]

-----------------------------------------------------------------------------
(* processTaskCompletionPayout: what is paid                               *)

\* A payout already made for the task is returned; one that penalties used up
\* has another description and is not found.  A visit needs its one active
\* payment at once.
BeginPayout(h, t, user) ==
    /\ At(h, "idle")
    /\ \A i \in RowsOf(t) : payout[i].adjusted
                            \/ payout[i].status \notin {"processing", "completed"}
    /\ t \in Recurring => escrow[t] = "held"
    /\ Become(h, [Idle EXCEPT !.step = "held.find", !.task = t, !.user = user])
    /\ UNCHANGED <<escrow, payout, owed, deducted, paid>>

\* A row that penalties used up carries no taskId: neither this nor a raised
\* issue finds it.
HeldRows(t) == {i \in RowsOf(t) : payout[i].status = "held" /\ ~payout[i].adjusted}

\* A held row is resumed; without one, a performer needs a bank account.
FindHeldPayout(h) ==
    /\ At(h, "held.find")
    /\ \/ \E i \in HeldRows(req[h].task) :
            Become(h, [req[h] EXCEPT !.step = "held.resume", !.row = i,
                                     !.from = payout[i].from])
       \/ HeldRows(req[h].task) = {} /\ GoTo(h, "escrow.read")
       \/ HeldRows(req[h].task) = {} /\ Return(h)
    /\ UNCHANGED <<escrow, payout, owed, deducted, paid>>

\* Resumed from completed it is processing again.  The update asks for nothing
\* but the row's id.
ResumeHeldPayout(h) ==
    /\ At(h, "held.resume")
    /\ LET status == IF req[h].from \in {"none", "completed"} THEN "processing"
                     ELSE req[h].from
       IN SetStatus(req[h].row, status, payout[req[h].row].from)
    /\ Return(h)
    /\ UNCHANGED <<escrow, owed, deducted, paid>>

\* The escrow must be held (a visit's was read with its scope); only trusted
\* callers are paid without one.
ReadEscrow(h) ==
    LET t == req[h].task IN
    /\ At(h, "escrow.read")
    /\ IF \/ t \in Recurring
          \/ t \in Direct /\ ~req[h].user
          \/ escrow[t] = "held"
       THEN GoTo(h, "plan") ELSE Return(h)
    /\ UNCHANGED <<escrow, payout, owed, deducted, paid>>

\* The fee of a payout: Quick Commerce, paid without escrow, has none.
FeesOf(t) == IF t \in Direct THEN {0, Fee} ELSE {Fee}

\* Wrong on purpose: a penalty takes the pool, not what is left of it.
PlansDeductions_Unbounded(take, net, pool) ==
    /\ net + MapThenSumSet(LAMBDA p : take[p], Penalties) = pool
    /\ \A p \in Penalties : take[p] < owed[p] =>
         net = 0 /\ \A q \in Penalties : q > p => take[q] = 0

\* planPenaltyDeductionsFromGross: pending penalties, oldest first, take what
\* they can from the pool; net is what they leave.
PlansDeductions(take, net, pool) ==
    /\ \A p \in Penalties : take[p] <= owed[p]
    /\ net + MapThenSumSet(LAMBDA p : take[p], Penalties) = pool
    /\ \A p \in Penalties : take[p] < owed[p] =>
         net = 0 /\ \A q \in Penalties : q > p => take[q] = 0

\* A payout is stored for operators, or made through RazorpayX.
RecordSteps == {IF mode = "manual" THEN "manual" ELSE "claim" : mode \in Modes}

\* Fees, coins ("Coin bonus never lifts the payout above the held payment") and
\* penalties, without writing any of them but the coins, whose wallet is not
\* modelled; then one of three ways to record the payout.
PlanPayout(h) ==
    /\ At(h, "plan")
    /\ \E fee \in FeesOf(req[h].task), coins \in 0..CoinCap, net \in 0..Amount,
          take \in [Penalties -> 0..Amount] :
         /\ coins <= fee
         /\ PlansDeductions(take, net, Amount - fee + coins)
         /\ \E step \in IF net = 0 THEN {"adjust"} ELSE RecordSteps :
              Become(h, [req[h] EXCEPT !.step = step, !.net = net, !.take = take,
                           !.after = [p \in Penalties |-> owed[p] - take[p]]])
    /\ UNCHANGED <<escrow, payout, owed, deducted, paid>>

-----------------------------------------------------------------------------
(* ... and how it is recorded                                              *)

\* Wrong on purpose: the update is not conditional.
Claimable_Blind(t) == TRUE

\* Wrong on purpose: the escrow stays held.
Claim_Forgotten(t) == UNCHANGED escrow

\* The conditional held -> released update of an escrow-backed payout: whether
\* it finds the escrow, and what it does.
Claimable(t) == t \in Direct \/ escrow[t] = "held"
Claim(t) == IF t \in Direct THEN UNCHANGED escrow
            ELSE escrow' = [escrow EXCEPT ![t] = "released"]

\* payout.create: row i, and the penalty lines its metadata lists.
CreateRow(i, r, status, manual) ==
    /\ ~Exists(i)
    /\ payout' = [payout EXCEPT ![i] =
         [status |-> status, task |-> r.task, net |-> r.net, manual |-> manual,
          adjusted |-> r.net = 0, from |-> "none", reopened |-> FALSE]]
    /\ deducted' = [p \in Penalties |-> deducted[p] + r.take[p]]

Deducts(r) == \E p \in Penalties : r.take[p] > 0

\* applyPenaltyLinesInTx writes the remaining amounts as planned.
ApplyPenaltyLines(r) ==
    owed' = [p \in Penalties |-> IF r.take[p] > 0 THEN r.after[p] ELSE owed[p]]

\* Wrong on purpose: the penalties are outside the transaction.
RecordPayout_PenaltiesFirst(h, step, status, manual) ==
    /\ At(h, step)
    /\ ApplyPenaltyLines(req[h])
    /\ \/ /\ Claimable(req[h].task)
          /\ Claim(req[h].task)
          /\ \E i \in Payouts : CreateRow(i, req[h], status, manual)
       \/ /\ ~Claimable(req[h].task) \/ "dbError" \in Faults
          /\ UNCHANGED <<escrow, payout, deducted>>
    /\ Return(h)
    /\ UNCHANGED paid

\* One transaction: claim, row and penalties, or nothing.
RecordPayout(h, step, status, manual) ==
    /\ At(h, step)
    /\ \/ /\ Claimable(req[h].task)
          /\ Claim(req[h].task)
          /\ \E i \in Payouts : CreateRow(i, req[h], status, manual)
          /\ ApplyPenaltyLines(req[h])
       \/ /\ ~Claimable(req[h].task) \/ "dbError" \in Faults
          /\ UNCHANGED <<escrow, payout, owed, deducted>>
    /\ Return(h)
    /\ UNCHANGED paid

\* Penalties take everything: completed without a transfer.
RecordAdjustedPayout(h) == RecordPayout(h, "adjust", "completed", FALSE)

\* Operators will transfer the money.
RecordManualPayout(h) == RecordPayout(h, "manual", "processing", TRUE)

\* Wrong on purpose: the count of the update is not looked at.
ClaimForTransfer_Unchecked(h) ==
    /\ At(h, "claim")
    /\ IF Claimable(req[h].task) THEN Claim(req[h].task) ELSE UNCHANGED escrow
    /\ GoTo(h, "transfer")
    /\ UNCHANGED <<payout, owed, deducted, paid>>

\* Without a fund account, or with the claim lost, nothing happens.
ClaimForTransfer(h) ==
    /\ At(h, "claim")
    /\ \/ Claimable(req[h].task) /\ Claim(req[h].task) /\ GoTo(h, "transfer")
       \/ UNCHANGED escrow /\ Return(h)
    /\ UNCHANGED <<payout, owed, deducted, paid>>

\* createRazorpayXPayout.  An error leaves the claim, and no row.
TransferRazorpayX(h) ==
    LET t == req[h].task
        transferred == Pay(t, req[h].net)
        go(result) == Become(h, [req[h] EXCEPT !.step = "insert",
                                               !.result = result])
    IN
    /\ At(h, "transfer")
    /\ \/ transferred /\ \E result \in {"processing", "completed"} : go(result)
       \/ UNCHANGED paid /\ go("failed")     \* or reversed
       \/ "lostReply" \in Faults /\ (transferred \/ UNCHANGED paid) /\ Return(h)
    /\ UNCHANGED <<escrow, payout, owed, deducted>>

\* The row; penalties are applied with it only when the payout is completed.
InsertPayout(h) ==
    LET together == req[h].result = "completed" IN
    /\ At(h, "insert")
    /\ \/ /\ \E i \in Payouts : CreateRow(i, req[h], req[h].result, FALSE)
          /\ IF together THEN ApplyPenaltyLines(req[h]) ELSE UNCHANGED owed
          /\ IF together \/ ~Deducts(req[h]) THEN Return(h) ELSE GoTo(h, "apply")
       \/ /\ "dbError" \in Faults
          /\ Return(h)
          /\ UNCHANGED <<payout, owed, deducted>>
    /\ UNCHANGED <<escrow, paid>>

ApplyPenalties(h) ==
    /\ At(h, "apply")
    /\ \/ ApplyPenaltyLines(req[h])
       \/ "dbError" \in Faults /\ UNCHANGED owed
    /\ Return(h)
    /\ UNCHANGED <<escrow, payout, deducted, paid>>

-----------------------------------------------------------------------------
(* Operators and customers                                                 *)

\* An operator transfers a row of the manual queue, which lists processing
\* rows, and marks it completed (updatePayoutStatus).
OpsPayOut(i) ==
    /\ payout[i].status = "processing"
    /\ payout[i].manual
    /\ SetStatus(i, "completed", payout[i].from)
    /\ Pay(payout[i].task, payout[i].net)
    /\ UNCHANGED <<escrow, owed, deducted, req>>

\* updatePayoutStatus takes any status for any row.  Operators are taken not to
\* reopen a completed row, nor to complete a manual one they did not transfer.
UpdatePayoutStatus(i, status) ==
    /\ "adminStatus" \in Operations
    /\ payout[i].status \notin {"none", "completed"}
    /\ payout[i].manual => status # "completed"
    /\ status # "held"
    /\ SetStatus(i, status, payout[i].from)
    /\ UNCHANGED <<escrow, owed, deducted, paid, req>>

\* holdPayout and freezePayout
HoldPayout(i) ==
    /\ "adminHold" \in Operations
    /\ Exists(i)
    /\ SetStatus(i, "held", payout[i].from)
    /\ UNCHANGED <<escrow, owed, deducted, paid, req>>

\* holdBookNowTaskPayouts, for each of the task's rows: read it ...
BeginRaiseIssue(h, i) ==
    /\ "raiseIssue" \in Operations
    /\ At(h, "idle")
    /\ payout[i].status \in {"pending", "processing", "completed"}
    /\ ~payout[i].adjusted
    /\ payout[i].task \in BookNow
    /\ Become(h, [Idle EXCEPT !.step = "hold", !.row = i,
                              !.from = payout[i].status])
    /\ UNCHANGED <<escrow, payout, owed, deducted, paid>>

\* ... and write it, whatever it is by then.
HoldBookNowPayout(h) ==
    /\ At(h, "hold")
    /\ SetStatus(req[h].row, "held", req[h].from)
    /\ Return(h)
    /\ UNCHANGED <<escrow, owed, deducted, paid>>

\* A refund or a cancellation of a payment still held (EscrowLifecycle).
RefundHeldPayment(t) ==
    /\ "refund" \in Operations
    /\ escrow[t] = "held"
    /\ escrow' = [escrow EXCEPT ![t] = "refunded"]
    /\ UNCHANGED <<payout, owed, deducted, paid, req>>

-----------------------------------------------------------------------------
Crash(h) ==
    /\ "crash" \in Faults
    /\ ~At(h, "idle")
    /\ Return(h)
    /\ UNCHANGED <<escrow, payout, owed, deducted, paid>>

\* Whether a user calls, where that matters.
Callers(t) == IF t \in Direct THEN BOOLEAN ELSE {TRUE}

Receive(h) ==
    \/ \E t \in Tasks : \E user \in Callers(t) : BeginPayout(h, t, user)
    \/ \E i \in Payouts : BeginRaiseIssue(h, i)

Continue(h) ==
    \/ FindHeldPayout(h) \/ ResumeHeldPayout(h) \/ ReadEscrow(h) \/ PlanPayout(h)
    \/ RecordAdjustedPayout(h) \/ RecordManualPayout(h)
    \/ ClaimForTransfer(h) \/ TransferRazorpayX(h) \/ InsertPayout(h)
    \/ ApplyPenalties(h) \/ HoldBookNowPayout(h)

Operate ==
    \/ \E i \in Payouts : \/ OpsPayOut(i)
                          \/ HoldPayout(i)
                          \/ \E status \in Statuses : UpdatePayoutStatus(i, status)
    \/ \E t \in Tasks : RefundHeldPayment(t)

Next ==
    \/ Operate
    \/ \E h \in Handlers : Receive(h) \/ Continue(h) \/ Crash(h)

Spec == Init /\ [][Next]_vars

-----------------------------------------------------------------------------
(* Properties                                                              *)

EscrowBacked == Tasks \ Direct

\* Nothing leaves for a payment that is still held, or was refunded: the claim
\* comes before any transfer and any row, and of concurrent payouts and
\* refunds one gets the payment ("claim the visit payment exactly once").
UnclaimedUnpaid ==
    \A t \in EscrowBacked :
        escrow[t] \in {"held", "refunded"} => paid[t] = 0 /\ RowsOf(t) = {}

\* A held payment is paid out by one Payout row, whatever callers retry.
OnePayout == \A t \in EscrowBacked : \A i, j \in RowsOf(t) : i = j

\* "Never pays more than the held amount": by RazorpayX or by hand, with coins
\* and retries, the performer gets at most the task amount of the held payment,
\* as long as its row, once completed, stays so.  (A completed row that is put on
\* hold is resumed as processing, and the manual queue lists it again.)
PaidWithinHeld ==
    \A t \in EscrowBacked :
        paid[t] <= Amount \/ \E i \in RowsOf(t) : payout[i].reopened

\* Penalties are "owed to platform, recovered from next payout(s)": however
\* payouts overlap, fail or crash, a penalty shrinks by no more than what
\* Payout rows deducted for it.
NeverForgiven ==
    \A p \in Penalties : PenaltyAmount - owed[p] <= deducted[p]
=============================================================================
