---------------------------- MODULE VisitRefunds ----------------------------
(***************************************************************************)
(* What happens to the money of one recurring visit once it must go back:  *)
(* the visit's bound payment (an order not in Duplicates) and the captures *)
(* that came after it (Duplicates).  Two kinds of JobQueue rows drive it:  *)
(*                                                                         *)
(*   refund job  of a duplicate: ensureDuplicateVisitPaymentRefund         *)
(*   sync job    of a refunded bound payment: ensureRecurringVisitRefund-  *)
(*               Sync tells task-service that the visit is unpaid again    *)
(*                                                                         *)
(* A row is the retry record and the claim: who moves it to processing may *)
(* act.  No order ever has both kinds, so job[e] is the one e can have.    *)
(* Refunds are full: the code refuses a partial refund of a visit payment. *)
(***************************************************************************)
EXTENDS Integers, FiniteSets

CONSTANTS
    Escrows,     \* the captured orders of one visit
    Duplicates,  \* those marked DUPLICATE_VISIT_PAYMENT
    Handlers,    \* slots for requests in flight
    Schedulers,  \* slots that run runRefundReconciliationOnce
    Nobody,      \* no order, no lock row, no claim
    Dead,        \* the instance that held the lock or the claim crashed
    MaxAttempts, \* maxAttempts of a job; attempts saturate there
    MaxCrashes,  \* bound on crashes
    Operations,  \* which operations are exercised
    Faults       \* which failures may happen

AllOperations == {"capture", "refund", "direct", "webhook", "payout"}
AllFaults     == {"gatewayError", "lostReply", "dbError", "slowClaim",
                  "taskServiceDown", "taskServiceRejects"}

ASSUME VisitRefundsAssumption ==
    /\ Duplicates \subseteq Escrows
    /\ Handlers \cap Schedulers = {}
    /\ Nobody \notin Escrows \cup Handlers \cup Schedulers
    /\ Dead \notin Handlers \cup Schedulers /\ Dead # Nobody
    /\ MaxAttempts \in Nat \ {0} /\ MaxCrashes \in Nat
    /\ Operations \subseteq AllOperations
    /\ Faults \subseteq AllFaults

VARIABLES
    escrow,   \* status of each Escrow row
    returned, \* orders whose payment Razorpay has refunded
    recorded, \* orders with a completed Refund row
    flagged,  \* orders with an operator record refund_after_release
    job,      \* the JobQueue row of each order
    told,     \* how often task-service accepted the refund of each order (0..2)
    lock,     \* the visit's lock row
    crashes,  \* crashes so far
    req       \* the request each slot is serving

vars == <<escrow, returned, recorded, flagged, job, told, lock, crashes, req>>
store == <<escrow, returned, recorded, flagged, job, told>>

Slots == Handlers \cup Schedulers

Jobs == [status   : {"none", "pending", "processing", "completed", "failed"},
         attempts : 0..MaxAttempts,
         claimant : Slots \cup {Nobody, Dead}]

Steps == {"idle", "duplicate.read", "sync.read", "enqueue", "claim", "lock",
          "refund.check", "refund.call", "refund.commit",
          "direct.check", "direct.call", "direct.record",
          "mark", "flag", "unlock", "notify", "finish"}

Requests == [step    : Steps,
             task    : {"none", "duplicate", "refund", "direct", "webhook",
                        "reconcile", "sync"},
             escrow  : Escrows \cup {Nobody},
             outcome : {"ok", "error", "refused"}]  \* refused: never retried

Idle == [step |-> "idle", task |-> "none", escrow |-> Nobody, outcome |-> "ok"]

TypeOK ==
    /\ escrow \in [Escrows -> {"held", "released", "cancelled", "refunded"}]
    /\ returned \subseteq Escrows
    /\ recorded \subseteq Escrows
    /\ flagged \subseteq Escrows
    /\ job \in [Escrows -> Jobs]
    /\ told \in [Escrows -> 0..2]
    /\ lock \in Slots \cup {Nobody, Dead}
    /\ crashes \in 0..MaxCrashes
    /\ req \in [Slots -> Requests]

\* bindRecurringVisitCapture has decided: the winner is held, every other
\* capture is cancelled and carries the duplicate error code.
Init ==
    /\ escrow = [e \in Escrows |->
                   IF e \in Duplicates THEN "cancelled" ELSE "held"]
    /\ returned = {} /\ recorded = {} /\ flagged = {}
    /\ job = [e \in Escrows |->
                [status |-> "none", attempts |-> 0, claimant |-> Nobody]]
    /\ told = [e \in Escrows |-> 0]
    /\ lock = Nobody
    /\ crashes = 0
    /\ req = [h \in Slots |-> Idle]

At(h, step) == req[h].step = step
Start(h, task, e, step) ==
    /\ At(h, "idle")
    /\ req' = [req EXCEPT ![h] = [step |-> step, task |-> task, escrow |-> e,
                                  outcome |-> "ok"]]
GoTo(h, step) == req' = [req EXCEPT ![h].step = step]
Conclude(h, step, outcome) ==
    req' = [req EXCEPT ![h].step = step, ![h].outcome = outcome]
Return(h) == req' = [req EXCEPT ![h] = Idle]

-----------------------------------------------------------------------------
(* Requests                                                                *)

\* A capture event of a duplicate, first or repeated.
CaptureEvent(h, e) ==
    /\ "capture" \in Operations
    /\ e \in Duplicates
    /\ Start(h, "duplicate", e, "duplicate.read")
    /\ UNCHANGED <<store, lock, crashes>>

\* processRefund of the visit's payment, by the cancellation flow.
RefundRequest(h, e) ==
    /\ "refund" \in Operations
    /\ e \notin Duplicates
    /\ Start(h, "refund", e, "lock")
    /\ UNCHANGED <<store, lock, crashes>>

\* POST /payment/refund: issueDirectRefund finds the order by its payment.
DirectRefund(h, e) ==
    /\ "direct" \in Operations
    /\ Start(h, "direct", e, "lock")
    /\ UNCHANGED <<store, lock, crashes>>

\* syncRecurringEscrowFromRefundWebhook; the event may come repeatedly or never.
RefundWebhook(h, e) ==
    /\ "webhook" \in Operations
    /\ e \in returned
    /\ Start(h, "webhook", e,
             IF escrow[e] = "refunded" THEN "sync.read" ELSE "mark")
    /\ UNCHANGED <<store, lock, crashes>>

\* The held -> released claim of a payout, which takes no visit lock.
ClaimForPayout(e) ==
    /\ "payout" \in Operations
    /\ escrow[e] = "held"
    /\ escrow' = [escrow EXCEPT ![e] = "released"]
    /\ UNCHANGED <<returned, recorded, flagged, job, told, lock, crashes, req>>

-----------------------------------------------------------------------------
(* runRefundReconciliationOnce: the rows one run selects                   *)

\* The claim is older than REFUND_CLAIM_STALE_MS / SYNC_CLAIM_STALE_MS.
Stale(e) == /\ job[e].status = "processing"
            /\ job[e].claimant = Dead \/ "slowClaim" \in Faults

\* Wrong on purpose: claims left by a crashed instance are not looked for.
SyncDue_NotStale(e) ==
    /\ e \notin Duplicates
    /\ \/ job[e].status = "pending"
       \/ job[e].status = "none" /\ escrow[e] = "refunded"

\* Due syncs, and refunded orders that have no sync job.
SyncDue(e) == /\ e \notin Duplicates
              /\ \/ job[e].status = "pending"
                 \/ Stale(e)
                 \/ job[e].status = "none" /\ escrow[e] = "refunded"

\* Wrong on purpose: refunds that failed once are left alone.
DuplicateDue_NotRetried(e) ==
    /\ e \in Duplicates
    /\ job[e].status = "none"
    /\ escrow[e] = "cancelled"

\* Step D and retryPendingDuplicateVisitPaymentRefunds: duplicates without a
\* job, and pending jobs.
DuplicateDue(e) == /\ e \in Duplicates
                   /\ \/ job[e].status = "pending"
                      \/ job[e].status = "none" /\ escrow[e] = "cancelled"

\* Step A: a completed refund whose order is still active.
MarkDue(e) == e \in recorded /\ escrow[e] # "refunded"

Reconcile(s, e) ==
    /\ \/ SyncDue(e) /\ Start(s, "sync", e, "sync.read")
       \/ DuplicateDue(e) /\ Start(s, "duplicate", e, "duplicate.read")
       \/ MarkDue(e) /\ Start(s, "reconcile", e, "mark")
    /\ UNCHANGED <<store, lock, crashes>>

-----------------------------------------------------------------------------
(* JobQueue rows                                                           *)

\* ensureDuplicateVisitPaymentRefund: an order already refunded completes its
\* job.
ReadDuplicate(h) ==
    LET e == req[h].escrow IN
    /\ At(h, "duplicate.read")
    /\ \/ /\ escrow[e] = "refunded"
          /\ job' = IF job[e].status = "none" THEN job
                    ELSE [job EXCEPT ![e].status = "completed"]
          /\ Return(h)
       \/ /\ escrow[e] = "cancelled"
          /\ GoTo(h, "enqueue")
          /\ UNCHANGED job
    /\ UNCHANGED <<escrow, returned, recorded, flagged, told, lock, crashes>>

\* Wrong on purpose: a duplicate is synced like the visit's own payment.
ReadForSync_Duplicates(h) ==
    /\ At(h, "sync.read")
    /\ IF escrow[req[h].escrow] = "refunded"
       THEN req' = [req EXCEPT ![h].step = "enqueue", ![h].task = "sync"]
       ELSE Return(h)
    /\ UNCHANGED <<store, lock, crashes>>

\* ensureRecurringVisitRefundSync: only a refunded bound payment is synced.
ReadForSync(h) ==
    LET e == req[h].escrow IN
    /\ At(h, "sync.read")
    /\ IF escrow[e] = "refunded" /\ e \notin Duplicates
       THEN req' = [req EXCEPT ![h].step = "enqueue", ![h].task = "sync"]
       ELSE Return(h)
    /\ UNCHANGED <<store, lock, crashes>>

\* The upsert with an empty update.
Enqueue(h) ==
    LET e == req[h].escrow IN
    /\ At(h, "enqueue")
    /\ job' = IF job[e].status = "none"
              THEN [job EXCEPT ![e].status = "pending"] ELSE job
    /\ GoTo(h, "claim")
    /\ UNCHANGED <<escrow, returned, recorded, flagged, told, lock, crashes>>

\* Wrong on purpose: off by one.
Attempt_OffByOne(e) == IF job[e].attempts <= MaxAttempts THEN job[e].attempts + 1
                       ELSE MaxAttempts

Attempt(e) == IF job[e].attempts < MaxAttempts THEN job[e].attempts + 1
              ELSE MaxAttempts

\* Wrong on purpose: the update is not conditional on the job's status.
Claim_Unconditional(h) ==
    LET e == req[h].escrow IN
    /\ At(h, "claim")
    /\ job' = [job EXCEPT ![e] = [status   |-> "processing",
                                 attempts |-> Attempt(e),
                                 claimant |-> h]]
    /\ GoTo(h, IF req[h].task = "sync" THEN "notify" ELSE "lock")
    /\ UNCHANGED <<escrow, returned, recorded, flagged, told, lock, crashes>>

\* The conditional update to processing.
Claim(h) ==
    LET e == req[h].escrow IN
    /\ At(h, "claim")
    /\ IF job[e].status = "pending" \/ Stale(e)
       THEN /\ job' = [job EXCEPT ![e] = [status   |-> "processing",
                                          attempts |-> Attempt(e),
                                          claimant |-> h]]
            /\ GoTo(h, IF req[h].task = "sync" THEN "notify" ELSE "lock")
       ELSE /\ UNCHANGED job
            /\ Return(h)
    /\ UNCHANGED <<escrow, returned, recorded, flagged, told, lock, crashes>>

\* The job's new status, written whoever holds the claim by now.  An error is
\* retried until the attempts are used up; a refusal never is.
Finish(h) ==
    LET e == req[h].escrow
        exhausted == job[e].attempts >= MaxAttempts
    IN
    /\ At(h, "finish")
    /\ job' = [job EXCEPT ![e].status =
                 CASE req[h].outcome = "ok"      -> "completed"
                   [] req[h].outcome = "refused" -> "failed"
                   [] req[h].outcome = "error"   ->
                        IF exhausted THEN "failed" ELSE "pending"]
    /\ Return(h)
    /\ UNCHANGED <<escrow, returned, recorded, flagged, told, lock, crashes>>

\* TaskServiceClient.notifyRecurringVisitPaymentRefunded
Notify(h) ==
    LET e == req[h].escrow
        accepted == [told EXCEPT ![e] = IF @ < 2 THEN @ + 1 ELSE 2]
    IN
    /\ At(h, "notify")
    /\ \/ told' = accepted /\ Conclude(h, "finish", "ok")
       \/ /\ "taskServiceDown" \in Faults
          /\ told' \in {told, accepted}
          /\ Conclude(h, "finish", "error")
       \/ /\ "taskServiceRejects" \in Faults
          /\ UNCHANGED told
          /\ Conclude(h, "finish", "refused")
    /\ UNCHANGED <<escrow, returned, recorded, flagged, job, lock, crashes>>

-----------------------------------------------------------------------------
(* withRecurringEscrowRefundLock                                           *)

AcquireLock(h) ==
    /\ At(h, "lock")
    /\ lock = Nobody
    /\ lock' = h
    /\ GoTo(h, IF req[h].task = "direct" THEN "direct.check"
               ELSE "refund.check")
    /\ UNCHANGED <<store, crashes>>

\* A waiter deletes a crashed holder's row once it is past its TTL.
ExpireLock(h) ==
    /\ At(h, "lock")
    /\ lock = Dead
    /\ lock' = Nobody
    /\ UNCHANGED <<store, crashes, req>>

\* Wrong on purpose: a refund in progress counts as done.
GiveUpOnLock_Done(h) ==
    /\ At(h, "lock")
    /\ lock # Nobody
    /\ IF req[h].task = "duplicate" THEN Conclude(h, "finish", "ok")
       ELSE Return(h)
    /\ UNCHANGED <<store, lock, crashes>>

\* Waited REFUND_LOCK_WAIT_MS: "A refund or payment for this visit is in
\* progress", which is an error of the refund like any other.
GiveUpOnLock(h) ==
    /\ At(h, "lock")
    /\ lock # Nobody
    /\ IF req[h].task = "duplicate" THEN Conclude(h, "finish", "error")
       ELSE Return(h)
    /\ UNCHANGED <<store, lock, crashes>>

\* The job of a duplicate is finished by the outcome; any other refund that
\* succeeded, or had been made, is synced.
Unlock(h) ==
    /\ At(h, "unlock")
    /\ lock' = IF lock = h THEN Nobody ELSE lock
    /\ CASE req[h].task = "duplicate" -> GoTo(h, "finish")
         [] req[h].task # "duplicate" ->
              IF req[h].outcome = "ok" THEN GoTo(h, "sync.read") ELSE Return(h)
    /\ UNCHANGED <<store, crashes>>

-----------------------------------------------------------------------------
(* processRefundUnlocked                                                   *)

CheckEscrowForRefund(h) ==
    LET e == req[h].escrow IN
    /\ At(h, "refund.check")
    /\ CASE escrow[e] = "released" -> Conclude(h, "unlock", "error")
         [] escrow[e] = "refunded" -> Conclude(h, "unlock", "ok")
         [] escrow[e] \notin {"released", "refunded"} /\ e \in recorded ->
              Conclude(h, "unlock", "ok")
         [] OTHER                  -> GoTo(h, "refund.call")
    /\ UNCHANGED <<store, lock, crashes>>

\* Razorpay refunds a payment once.  The error of a call need not mean that no
\* money moved.
RazorpayRefund(h, e, next) ==
    \/ /\ e \notin returned
       /\ returned' = returned \cup {e}
       /\ \/ GoTo(h, next)
          \/ "lostReply" \in Faults /\ Conclude(h, "unlock", "error")
    \/ /\ "gatewayError" \in Faults
       /\ UNCHANGED returned
       /\ Conclude(h, "unlock", "error")

\* A payment without a capturable balance is not refunded again.
CallGatewayRefund(h) ==
    LET e == req[h].escrow IN
    /\ At(h, "refund.call")
    /\ \/ RazorpayRefund(h, e, "refund.commit")
       \/ /\ e \in returned
          /\ UNCHANGED returned
          /\ Conclude(h, "unlock", "refused")
    /\ UNCHANGED <<escrow, recorded, flagged, job, told, lock, crashes>>

\* One transaction; the status is written whatever it has become.
CommitRefund(h) ==
    LET e == req[h].escrow IN
    /\ At(h, "refund.commit")
    /\ \/ /\ escrow' = [escrow EXCEPT ![e] = "refunded"]
          /\ recorded' = recorded \cup {e}
          /\ Conclude(h, "unlock", "ok")
       \/ /\ "dbError" \in Faults
          /\ UNCHANGED <<escrow, recorded>>
          /\ Conclude(h, "unlock", "error")
    /\ UNCHANGED <<returned, flagged, job, told, lock, crashes>>

-----------------------------------------------------------------------------
(* issueDirectRefund                                                       *)

CheckEscrowForDirectRefund(h) ==
    LET e == req[h].escrow IN
    /\ At(h, "direct.check")
    /\ CASE escrow[e] = "refunded" -> Conclude(h, "unlock", "ok")
         [] escrow[e] = "released" -> Conclude(h, "unlock", "error")
         [] OTHER                  -> GoTo(h, "direct.call")
    /\ UNCHANGED <<store, lock, crashes>>

CallGatewayDirect(h) ==
    LET e == req[h].escrow IN
    /\ At(h, "direct.call")
    /\ \/ RazorpayRefund(h, e, "direct.record")
       \/ /\ e \in returned
          /\ UNCHANGED returned
          /\ Conclude(h, "unlock", "error")
    /\ UNCHANGED <<escrow, recorded, flagged, job, told, lock, crashes>>

\* The Refund row, which is a transaction of its own.
RecordDirectRefund(h) ==
    LET e == req[h].escrow IN
    /\ At(h, "direct.record")
    /\ \/ /\ recorded' = recorded \cup {e}
          /\ GoTo(h, "mark")
       \/ /\ "dbError" \in Faults
          /\ UNCHANGED recorded
          /\ Conclude(h, "unlock", "error")
    /\ UNCHANGED <<escrow, returned, flagged, job, told, lock, crashes>>

-----------------------------------------------------------------------------
(* markEscrowRefunded                                                      *)

\* What the caller does once the order is refunded.
AfterMark(h) ==
    CASE req[h].task = "direct"    -> Conclude(h, "unlock", "ok")
      [] req[h].task = "webhook"   -> GoTo(h, "sync.read")
      [] req[h].task = "reconcile" -> Return(h)

\* Wrong on purpose: the order is refunded whatever its status.
MarkEscrowRefunded_Unconditional(h) ==
    /\ At(h, "mark")
    /\ escrow' = [escrow EXCEPT ![req[h].escrow] = "refunded"]
    /\ AfterMark(h)
    /\ UNCHANGED <<returned, recorded, flagged, job, told, lock, crashes>>

\* The write is conditional on the status it was decided on and is decided
\* again when that changed; a status other than released changes to released
\* or refunded only, so the last decision is the current one.
MarkEscrowRefunded(h) ==
    LET e == req[h].escrow IN
    /\ At(h, "mark")
    /\ IF escrow[e] = "released"
       THEN GoTo(h, "flag") /\ UNCHANGED escrow
       ELSE /\ escrow' = [escrow EXCEPT ![e] = "refunded"]
            /\ AfterMark(h)
    /\ UNCHANGED <<returned, recorded, flagged, job, told, lock, crashes>>

\* flagRefundReconciliation("refund_after_release")
FlagRefundAfterRelease(h) ==
    /\ At(h, "flag")
    /\ flagged' = flagged \cup {req[h].escrow}
    /\ IF req[h].task = "direct" THEN Conclude(h, "unlock", "error")
       ELSE Return(h)
    /\ UNCHANGED <<escrow, returned, recorded, job, told, lock, crashes>>

-----------------------------------------------------------------------------
\* The instance serving h stops; its lock row and its claims stay.
Crash(h) ==
    /\ ~At(h, "idle")
    /\ crashes < MaxCrashes
    /\ crashes' = crashes + 1
    /\ lock' = IF lock = h THEN Dead ELSE lock
    /\ job' = [e \in Escrows |->
                 IF job[e].claimant = h THEN [job[e] EXCEPT !.claimant = Dead]
                 ELSE job[e]]
    /\ Return(h)
    /\ UNCHANGED <<escrow, returned, recorded, flagged, told>>

Continue(h) ==
    \/ ReadDuplicate(h) \/ ReadForSync(h)
    \/ Enqueue(h) \/ Claim(h) \/ Notify(h) \/ Finish(h)
    \/ AcquireLock(h) \/ ExpireLock(h) \/ GiveUpOnLock(h) \/ Unlock(h)
    \/ CheckEscrowForRefund(h) \/ CallGatewayRefund(h) \/ CommitRefund(h)
    \/ CheckEscrowForDirectRefund(h) \/ CallGatewayDirect(h)
    \/ RecordDirectRefund(h)
    \/ MarkEscrowRefunded(h) \/ FlagRefundAfterRelease(h)

Request(h, e) ==
    \/ CaptureEvent(h, e)
    \/ RefundRequest(h, e)
    \/ DirectRefund(h, e)
    \/ RefundWebhook(h, e)

Next ==
    \/ \E h \in Handlers, e \in Escrows : Request(h, e)
    \/ \E s \in Schedulers, e \in Escrows : Reconcile(s, e)
    \/ \E e \in Escrows : ClaimForPayout(e)
    \/ \E h \in Slots : Continue(h) \/ Crash(h)

Spec == Init /\ [][Next]_vars

\* Node runs every pending continuation, and the cron job keeps running and
\* reaches every row it selects.  No request, event or crash has to come.
Fairness ==
    /\ \A h \in Slots : WF_vars(Continue(h))
    /\ \A s \in Schedulers, e \in Escrows : SF_vars(Reconcile(s, e))

FairSpec == Spec /\ Fairness

-----------------------------------------------------------------------------
(* Properties                                                              *)

\* A refund job is completed, and so never looked at again, only when the
\* customer has the money back (ensureDuplicateVisitPaymentRefund completes it
\* on success and on any "already refunded" answer).
CompletedMeansReturned ==
    \A e \in Duplicates : job[e].status = "completed" => e \in returned

\* Task-service is told that the visit is unpaid only when the visit's own
\* payment was returned: never for a duplicate, and never while the order still
\* pays the visit (ensureRecurringVisitRefundSync).
ToldMeansRefunded ==
    \A e \in Escrows :
        told[e] > 0 => e \in returned \ Duplicates /\ escrow[e] = "refunded"

\* "At most once per escrow" (recurringVisitRefundSync.ts:180): with several
\* instances, requests and webhooks asking for the same sync, task-service is
\* told once, until an instance crashes between the call and its record.
ToldOnce == crashes = 0 => \A e \in Escrows : told[e] <= 1

\* "released (paid out) is never overwritten" (markEscrowRefunded).  The
\* unconditional write of processRefund is not exercised with it.
ReleasedKept ==
    [][\A e \in Escrows : escrow[e] = "released" => escrow'[e] = "released"]_vars

\* An order that was paid out while its refund was on its way to Razorpay ends
\* up in front of an operator, unless the instance crashed before it recorded
\* the refund.
PaidOutRefundFlagged ==
    \A e \in Escrows :
        (escrow[e] = "released" /\ e \in returned)
            ~> (e \in flagged \/ (crashes > 0 /\ e \notin recorded))

\* Task-service learns of every refunded visit payment, or the sync is left to
\* an operator, even when the instance that should have told it crashed.
RefundsAreTold ==
    \A e \in Escrows \ Duplicates :
        (escrow[e] = "refunded") ~> (told[e] > 0 \/ job[e].status = "failed")

\* The customer has the money of a duplicate back, or its refund is left to an
\* operator.
Settled(e) == e \in returned \/ job[e].status = "failed"

\* "Repairs stale recurring refund state without guessing: ... and unrefunded
\* duplicate captures" (recurringVisitRefundSync.ts:609-611), unless an instance
\* crashed while it held the claim of the refund job.
SettledOrAbandoned ==
    \A e \in Duplicates :
        <>(Settled(e) \/ (job[e].status = "processing" /\ job[e].claimant = Dead))

\* Every refund comes to its end: the visit's is told to task-service, one that
\* met a payout is flagged, a duplicate's is settled.
EveryRefundEnds == RefundsAreTold /\ PaidOutRefundFlagged /\ SettledOrAbandoned
=============================================================================
