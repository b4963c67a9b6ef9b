------------------------ MODULE VisitRefunds_proofs ------------------------
(***************************************************************************)
(* Proofs about VisitRefunds, for any number of orders, duplicates,        *)
(* handlers and schedulers, any number of crashes and attempts, and any    *)
(* combination of operations and faults, except where a theorem excludes   *)
(* some.                                                                   *)
(*                                                                         *)
(*   RefundsTypeCorrect  Spec => []TypeOK                                  *)
(*   CompletedReturned   Spec => []CompletedMeansReturned                  *)
(*   ToldRefunded        Spec => []ToldMeansRefunded                       *)
(*   PaidOutKept         Spec => ReleasedKept, as long as the cancellation *)
(*                       flow refunds no bound payment                     *)
(*   ToldAtMostOnce      Spec => []ToldOnce, as long as no claim outlives  *)
(*                       SYNC_CLAIM_STALE_MS and every call task-service   *)
(*                       accepted is answered                              *)
(*                                                                         *)
(* Right says what a request knows about the order it works on.  It stays  *)
(* true whatever other requests do, because money returned stays returned  *)
(* and a refunded order stays refunded (Monotone): no lock is needed.      *)
(*                                                                         *)
(* OnceInv says who may tell task-service: the one slot that holds the     *)
(* claim of the sync job, and a job that can be claimed was never told.    *)
(***************************************************************************)
EXTENDS VisitRefunds, TLAPS

\* What request r knows, given the orders' statuses and the refunded payments.
Right(r, status, back) ==
    /\ r.step # "idle" => r.escrow \in Escrows
    /\ r.step \in {"refund.commit", "direct.record", "mark", "flag"} => r.escrow \in back
    /\ r.step = "refund.commit" => r.task \in {"duplicate", "refund"}
    /\ r.step = "refund.check" => r.task \in {"duplicate", "refund"}
    /\ r.step = "refund.call" => r.task \in {"duplicate", "refund"}
    /\ r.step \in {"direct.check", "direct.call", "direct.record"} => r.task = "direct"
    /\ r.step \in {"mark", "flag"} => r.task \in {"direct", "webhook", "reconcile"}
    /\ r.step = "duplicate.read" => r.task = "duplicate"
    /\ r.step \in {"enqueue", "claim", "finish"} => r.task \in {"duplicate", "sync"}
    /\ r.step = "lock" => r.task \in {"duplicate", "refund", "direct"}
    /\ r.step = "notify" => r.task = "sync"
    /\ r.task = "refund" => "refund" \in Operations
    /\ r.task = "duplicate" => r.escrow \in Duplicates
    /\ r.task = "duplicate" /\ r.step \in {"unlock", "finish"} /\ r.outcome = "ok"
         => r.escrow \in back
    /\ r.task = "sync" /\ r.step \in {"enqueue", "claim", "notify", "finish"}
         => status[r.escrow] = "refunded" /\ r.escrow \notin Duplicates

RequestInv == req \in [Slots -> Requests] /\ \A h \in Slots : Right(req[h], escrow, returned)

\* A recorded or refunded order's money went back; a duplicate is never held.
OrderInv ==
    /\ recorded \subseteq returned
    /\ \A e \in Escrows : escrow[e] = "refunded" => e \in returned
    /\ \A e \in Duplicates : escrow[e] \in {"cancelled", "refunded"}

RInv == TypeOK /\ RequestInv /\ OrderInv /\ CompletedMeansReturned /\ ToldMeansRefunded

Monotone == /\ returned \subseteq returned'
            /\ \A e \in Escrows : escrow[e] = "refunded" => escrow'[e] = "refunded"

-----------------------------------------------------------------------------
(* How a request goes on                                                   *)

LEMMA IdleRight ==
  /\ Idle \in Requests
  /\ \A status, back : Right(Idle, status, back)
BY DEF Idle, Requests, Steps, Right

\* What the other requests know stays true.
LEMMA RightKept ==
  ASSUME TypeOK, Monotone, NEW r \in Requests, Right(r, escrow, returned)
  PROVE  Right(r, escrow', returned')
BY DEF TypeOK, Monotone, Right, Requests

LEMMA RequestsKept ==
  ASSUME TypeOK, RequestInv, Monotone, UNCHANGED req
  PROVE  RequestInv'
<1> SUFFICES ASSUME NEW g \in Slots PROVE Right(req[g], escrow', returned')
  BY DEF RequestInv
<1> QED BY RightKept DEF RequestInv

LEMMA BecomeRight ==
  ASSUME TypeOK, RequestInv, Monotone, NEW h \in Slots, NEW r \in Requests,
         req' = [req EXCEPT ![h] = r], Right(r, escrow', returned')
  PROVE  RequestInv'
<1>1. req' \in [Slots -> Requests]
  BY DEF RequestInv
<1>2. ASSUME NEW g \in Slots PROVE Right(req'[g], escrow', returned')
  <2>1. CASE g = h
    BY <2>1 DEF RequestInv
  <2>2. CASE g # h
    <3>1. req'[g] = req[g] /\ req[g] \in Requests /\ Right(req[g], escrow, returned)
      BY <2>2 DEF RequestInv
    <3> QED BY <3>1, RightKept
  <2> QED BY <2>1, <2>2
<1> QED BY <1>1, <1>2 DEF RequestInv

LEMMA ReturnRight ==
  ASSUME TypeOK, RequestInv, Monotone, NEW h \in Slots, Return(h)
  PROVE  RequestInv'
BY IdleRight, BecomeRight DEF Return

LEMMA StartRight ==
  ASSUME TypeOK, RequestInv, UNCHANGED <<escrow, returned>>,
         NEW h \in Slots, NEW e \in Escrows,
         NEW task \in {"duplicate", "refund", "direct", "webhook", "reconcile", "sync"},
         NEW step \in {"duplicate.read", "sync.read", "lock", "mark"},
         Start(h, task, e, step),
         task = "duplicate" => e \in Duplicates /\ step = "duplicate.read",
         task = "refund" => "refund" \in Operations /\ step = "lock",
         task = "direct" => step = "lock",
         task = "webhook" => step \in {"sync.read", "mark"} /\ e \in returned,
         task = "reconcile" => step = "mark" /\ e \in returned,
         task = "sync" => step = "sync.read"
  PROVE  RequestInv'
<1> DEFINE r == [step |-> step, task |-> task, escrow |-> e, outcome |-> "ok"]
<1>1. r \in Requests
  BY DEF Requests, Steps
<1>2. Right(r, escrow, returned)
  BY DEF Right
<1>3. Right(r, escrow', returned')
  BY <1>2
<1>4. req' = [req EXCEPT ![h] = r]
  BY DEF Start
<1>5. Monotone
  BY DEF Monotone
<1> HIDE DEF r
<1> QED BY <1>1, <1>3, <1>4, <1>5, BecomeRight

LEMMA GoToRight ==
  ASSUME TypeOK, RequestInv, Monotone, NEW h \in Slots, NEW step \in Steps,
         GoTo(h, step), Right([req[h] EXCEPT !.step = step], escrow', returned')
  PROVE  RequestInv'
<1> DEFINE r == [req[h] EXCEPT !.step = step]
<1>1. r \in Requests
  BY DEF RequestInv, Requests
<1>2. req' = [req EXCEPT ![h] = r]
  BY DEF GoTo, RequestInv
<1> HIDE DEF r
<1> QED BY <1>1, <1>2, BecomeRight DEF r

LEMMA ConcludeRight ==
  ASSUME TypeOK, RequestInv, Monotone, NEW h \in Slots, NEW step \in Steps,
         NEW outcome \in {"ok", "error", "refused"}, Conclude(h, step, outcome),
         Right([req[h] EXCEPT !.step = step, !.outcome = outcome], escrow', returned')
  PROVE  RequestInv'
<1> DEFINE r == [req[h] EXCEPT !.step = step, !.outcome = outcome]
<1>1. r \in Requests
  BY DEF RequestInv, Requests
<1>2. req' = [req EXCEPT ![h] = r]
  BY DEF Conclude, RequestInv
<1> HIDE DEF r
<1> QED BY <1>1, <1>2, BecomeRight DEF r

-----------------------------------------------------------------------------
(* Requests, schedulers and crashes                                        *)

\* Where only requests and the lock move, the rest of the invariant stays.
LEMMA StoreKept ==
  ASSUME RInv, RequestInv', UNCHANGED store,
         lock' \in Slots \cup {Nobody, Dead}, crashes' \in 0..MaxCrashes
  PROVE  RInv'
<1>1. TypeOK'
  BY DEF RInv, TypeOK, RequestInv, store
<1>2. OrderInv'
  BY DEF RInv, OrderInv, store
<1>3. CompletedMeansReturned' /\ ToldMeansRefunded'
  BY DEF RInv, CompletedMeansReturned, ToldMeansRefunded, store
<1> QED BY <1>1, <1>2, <1>3 DEF RInv

LEMMA RequestSafe ==
  ASSUME RInv, NEW h \in Handlers, NEW e \in Escrows, Request(h, e)
  PROVE  RInv'
<1>1. TypeOK /\ RequestInv /\ h \in Slots
  BY DEF RInv, Slots
<1>2. UNCHANGED store /\ UNCHANGED lock /\ UNCHANGED crashes
  BY DEF Request, CaptureEvent, RefundRequest, DirectRefund, RefundWebhook
<1>3. UNCHANGED <<escrow, returned>>
  BY <1>2 DEF store
<1>4. RequestInv'
  <2>1. CASE CaptureEvent(h, e)
    BY <1>1, <1>3, <2>1, StartRight DEF CaptureEvent
  <2>2. CASE RefundRequest(h, e)
    BY <1>1, <1>3, <2>2, StartRight DEF RefundRequest
  <2>3. CASE DirectRefund(h, e)
    BY <1>1, <1>3, <2>3, StartRight DEF DirectRefund
  <2>4. CASE RefundWebhook(h, e)
    <3> DEFINE step == IF escrow[e] = "refunded" THEN "sync.read" ELSE "mark"
    <3>1. step \in {"sync.read", "mark"}
      OBVIOUS
    <3>2. Start(h, "webhook", e, step) /\ e \in returned
      BY <2>4 DEF RefundWebhook
    <3> HIDE DEF step
    <3> QED BY <1>1, <1>3, <3>1, <3>2, StartRight
  <2> QED BY <2>1, <2>2, <2>3, <2>4 DEF Request
<1> QED BY <1>1, <1>2, <1>4, StoreKept DEF TypeOK

LEMMA ReconcileSafe ==
  ASSUME RInv, NEW s \in Schedulers, NEW e \in Escrows, Reconcile(s, e)
  PROVE  RInv'
<1>1. TypeOK /\ RequestInv /\ s \in Slots
  BY DEF RInv, Slots
<1>2. UNCHANGED store /\ UNCHANGED lock /\ UNCHANGED crashes
  BY DEF Reconcile
<1>3. UNCHANGED <<escrow, returned>>
  BY <1>2 DEF store
<1>4. RequestInv'
  <2>1. CASE Start(s, "sync", e, "sync.read")
    BY <1>1, <1>3, <2>1, StartRight
  <2>2. CASE DuplicateDue(e) /\ Start(s, "duplicate", e, "duplicate.read")
    BY <1>1, <1>3, <2>2, StartRight DEF DuplicateDue
  <2>3. CASE MarkDue(e) /\ Start(s, "reconcile", e, "mark")
    <3>1. e \in returned
      BY <2>3 DEF MarkDue, RInv, OrderInv
    <3> QED BY <1>1, <1>3, <2>3, <3>1, StartRight
  <2> QED BY <2>1, <2>2, <2>3 DEF Reconcile
<1> QED BY <1>1, <1>2, <1>4, StoreKept DEF TypeOK

LEMMA PayoutSafe ==
  ASSUME RInv, NEW e \in Escrows, ClaimForPayout(e)
  PROVE  RInv'
<1>1. TypeOK /\ RequestInv /\ OrderInv
  BY DEF RInv
<1>2. Monotone
  BY DEF ClaimForPayout, Monotone, RInv, TypeOK
<1>3. RequestInv'
  BY <1>1, <1>2, RequestsKept DEF ClaimForPayout
<1>4. TypeOK'
  BY <1>1, <1>3 DEF TypeOK, RequestInv, ClaimForPayout
<1>5. OrderInv'
  BY <1>1 DEF OrderInv, ClaimForPayout, TypeOK
<1>6. CompletedMeansReturned' /\ ToldMeansRefunded'
  BY DEF RInv, TypeOK, CompletedMeansReturned, ToldMeansRefunded, ClaimForPayout
<1> QED BY <1>3, <1>4, <1>5, <1>6 DEF RInv

LEMMA CrashSafe ==
  ASSUME RInv, NEW h \in Slots, Crash(h)
  PROVE  RInv'
<1>1. TypeOK /\ RequestInv /\ OrderInv
  BY DEF RInv
<1>2. Monotone
  BY DEF Crash, Monotone
<1>3. RequestInv'
  BY <1>1, <1>2, ReturnRight DEF Crash
<1>4. job' \in [Escrows -> Jobs] /\ \A e \in Escrows : job'[e].status = job[e].status
  BY <1>1 DEF TypeOK, Jobs, Crash
<1>5. crashes' \in 0..MaxCrashes
  BY <1>1, VisitRefundsAssumption DEF TypeOK, Crash
<1>6. TypeOK'
  BY <1>1, <1>3, <1>4, <1>5 DEF TypeOK, RequestInv, Crash
<1>7. OrderInv'
  BY <1>1 DEF OrderInv, Crash
<1>8. CompletedMeansReturned' /\ ToldMeansRefunded'
  BY <1>4, VisitRefundsAssumption DEF RInv, CompletedMeansReturned, ToldMeansRefunded, Crash
<1> QED BY <1>3, <1>6, <1>7, <1>8 DEF RInv

-----------------------------------------------------------------------------
(* Job rows                                                                *)

\* A step that changes requests, jobs and what task-service was told keeps the
\* invariant if it keeps these right.
LEMMA JobStepSafe ==
  ASSUME RInv, RequestInv', job' \in [Escrows -> Jobs], told' \in [Escrows -> 0..2],
         CompletedMeansReturned', ToldMeansRefunded',
         UNCHANGED <<escrow, returned, recorded, flagged, lock, crashes>>
  PROVE  RInv'
<1>1. TypeOK'
  BY DEF RInv, TypeOK, RequestInv
<1>2. OrderInv'
  BY DEF RInv, OrderInv
<1> QED BY <1>1, <1>2 DEF RInv

\* The request of a slot, and where it is.
LEMMA AtKnown ==
  ASSUME RInv, NEW h \in Slots, NEW step \in Steps \ {"idle"}, At(h, step)
  PROVE  /\ req[h] \in Requests /\ req[h].step = step
         /\ req[h].escrow \in Escrows
         /\ Right(req[h], escrow, returned)
BY DEF RInv, RequestInv, At, Right, Requests

LEMMA ReadDuplicateSafe ==
  ASSUME RInv, NEW h \in Slots, ReadDuplicate(h)
  PROVE  RInv'
<1> DEFINE e == req[h].escrow
<1>1. /\ req[h] \in Requests /\ req[h].step = "duplicate.read"
      /\ e \in Escrows /\ Right(req[h], escrow, returned)
  BY AtKnown DEF ReadDuplicate, Steps
<1>2. TypeOK /\ RequestInv /\ OrderInv
  BY DEF RInv
<1>3. Monotone
  BY DEF Monotone, ReadDuplicate
<1>4. CASE escrow[e] = "refunded" /\ Return(h)
          /\ job' = IF job[e].status = "none" THEN job
                    ELSE [job EXCEPT ![e].status = "completed"]
  <2>1. RequestInv'
    BY <1>2, <1>3, <1>4, ReturnRight
  <2>2. job' \in [Escrows -> Jobs]
    BY <1>1, <1>2, <1>4 DEF TypeOK, Jobs
  <2>3. CompletedMeansReturned'
    BY <1>1, <1>2, <1>4, VisitRefundsAssumption
       DEF RInv, CompletedMeansReturned, OrderInv, TypeOK, ReadDuplicate
  <2>4. ToldMeansRefunded'
    BY DEF RInv, ToldMeansRefunded, ReadDuplicate
  <2> QED BY <1>2, <2>1, <2>2, <2>3, <2>4, JobStepSafe DEF ReadDuplicate, TypeOK
<1>5. CASE GoTo(h, "enqueue") /\ UNCHANGED job
  <2>1. Right([req[h] EXCEPT !.step = "enqueue"], escrow', returned')
    BY <1>1 DEF Right, Requests, ReadDuplicate
  <2>2. RequestInv'
    BY <1>2, <1>3, <1>5, <2>1, GoToRight DEF Steps
  <2> QED BY <1>2, <1>5, <2>2, StoreKept DEF ReadDuplicate, store, TypeOK
<1> QED BY <1>4, <1>5 DEF ReadDuplicate

LEMMA ReadForSyncSafe ==
  ASSUME RInv, NEW h \in Slots, ReadForSync(h)
  PROVE  RInv'
<1> DEFINE e == req[h].escrow
           r == [req[h] EXCEPT !.step = "enqueue", !.task = "sync"]
<1>1. /\ req[h] \in Requests /\ req[h].step = "sync.read"
      /\ e \in Escrows /\ Right(req[h], escrow, returned)
  BY AtKnown DEF ReadForSync, Steps
<1>2. TypeOK /\ RequestInv
  BY DEF RInv
<1>3. UNCHANGED store /\ UNCHANGED lock /\ UNCHANGED crashes
  BY DEF ReadForSync
<1>4. Monotone
  BY <1>3 DEF Monotone, store
<1>5. RequestInv'
  <2>1. CASE escrow[e] = "refunded" /\ e \notin Duplicates
    <3>1. req' = [req EXCEPT ![h] = r]
      BY <1>2, <2>1 DEF ReadForSync, RequestInv
    <3>2. r \in Requests
      BY <1>1 DEF Requests, Steps
    <3>3. Right(r, escrow', returned')
      BY <1>1, <1>3, <2>1 DEF Right, Requests, store
    <3> HIDE DEF r
    <3> QED BY <1>2, <1>4, <3>1, <3>2, <3>3, BecomeRight
  <2>2. CASE ~(escrow[e] = "refunded" /\ e \notin Duplicates)
    <3>1. Return(h)
      BY <2>2 DEF ReadForSync
    <3> QED BY <1>2, <1>4, <3>1, ReturnRight
  <2> QED BY <2>1, <2>2
<1> QED BY <1>2, <1>3, <1>5, StoreKept DEF TypeOK

LEMMA EnqueueSafe ==
  ASSUME RInv, NEW h \in Slots, Enqueue(h)
  PROVE  RInv'
<1> DEFINE e == req[h].escrow
<1>1. /\ req[h] \in Requests /\ req[h].step = "enqueue"
      /\ e \in Escrows /\ Right(req[h], escrow, returned)
  BY AtKnown DEF Enqueue, Steps
<1>2. TypeOK /\ RequestInv
  BY DEF RInv
<1>3. Monotone
  BY DEF Monotone, Enqueue
<1>4. Right([req[h] EXCEPT !.step = "claim"], escrow', returned')
  BY <1>1 DEF Right, Requests, Enqueue
<1>5. RequestInv'
  BY <1>2, <1>3, <1>4, GoToRight DEF Steps, Enqueue
<1>6. job' \in [Escrows -> Jobs]
      /\ \A d \in Escrows : job'[d].status = "completed" => job[d].status = "completed"
  BY <1>1, <1>2 DEF TypeOK, Jobs, Enqueue
<1>7. CompletedMeansReturned' /\ ToldMeansRefunded'
  BY <1>6, VisitRefundsAssumption DEF RInv, CompletedMeansReturned, ToldMeansRefunded, Enqueue
<1> QED BY <1>2, <1>5, <1>6, <1>7, JobStepSafe DEF Enqueue, TypeOK

LEMMA ClaimSafe ==
  ASSUME RInv, NEW h \in Slots, Claim(h)
  PROVE  RInv'
<1> DEFINE e == req[h].escrow
           next == IF req[h].task = "sync" THEN "notify" ELSE "lock"
           claimed == [status |-> "processing", attempts |-> Attempt(e), claimant |-> h]
<1>1. /\ req[h] \in Requests /\ req[h].step = "claim"
      /\ e \in Escrows /\ Right(req[h], escrow, returned)
  BY AtKnown DEF Claim, Steps
<1>2. TypeOK /\ RequestInv
  BY DEF RInv
<1>3. Monotone
  BY DEF Monotone, Claim
<1>4. CASE job' = [job EXCEPT ![e] = claimed] /\ GoTo(h, next)
  <2>1. Right([req[h] EXCEPT !.step = next], escrow', returned')
    BY <1>1 DEF Right, Requests, Claim
  <2>2. next \in Steps
    BY DEF Steps
  <2> HIDE DEF next
  <2>3. RequestInv'
    BY <1>2, <1>3, <1>4, <2>1, <2>2, GoToRight
  <2>4. job[e].attempts \in 0..MaxAttempts
    BY <1>1, <1>2 DEF TypeOK, Jobs
  <2>5. claimed \in Jobs
    BY <2>4, VisitRefundsAssumption DEF Jobs, Attempt
  <2>6. claimed.status # "completed"
    OBVIOUS
  <2> HIDE DEF claimed
  <2>7. job' \in [Escrows -> Jobs]
        /\ \A d \in Escrows : job'[d].status = "completed" => job[d].status = "completed"
    BY <1>1, <1>2, <1>4, <2>5, <2>6 DEF TypeOK
  <2>8. CompletedMeansReturned' /\ ToldMeansRefunded'
    BY <2>7, VisitRefundsAssumption DEF RInv, CompletedMeansReturned, ToldMeansRefunded, Claim
  <2> QED BY <1>2, <2>3, <2>7, <2>8, JobStepSafe DEF Claim, TypeOK
<1>5. CASE UNCHANGED job /\ Return(h)
  <2>1. RequestInv'
    BY <1>2, <1>3, <1>5, ReturnRight
  <2> QED BY <1>2, <1>5, <2>1, StoreKept DEF Claim, store, TypeOK
<1> QED BY <1>4, <1>5 DEF Claim

LEMMA FinishSafe ==
  ASSUME RInv, NEW h \in Slots, Finish(h)
  PROVE  RInv'
<1> DEFINE e == req[h].escrow
<1>1. /\ req[h] \in Requests /\ req[h].step = "finish"
      /\ e \in Escrows /\ Right(req[h], escrow, returned)
  BY AtKnown DEF Finish, Steps
<1>2. TypeOK /\ RequestInv
  BY DEF RInv
<1>3. Monotone
  BY DEF Monotone, Finish
<1>4. RequestInv'
  BY <1>2, <1>3, ReturnRight DEF Finish
<1>5. PICK status \in {"completed", "failed", "pending"} :
        /\ job' = [job EXCEPT ![e].status = status]
        /\ status = "completed" => req[h].outcome = "ok"
  <2>1. req[h].outcome \in {"ok", "error", "refused"}
    BY <1>1 DEF Requests
  <2> QED BY <2>1 DEF Finish
<1>6. job' \in [Escrows -> Jobs]
  BY <1>1, <1>2, <1>5 DEF TypeOK, Jobs
<1>7. status = "completed" /\ e \in Duplicates => e \in returned
  BY <1>1, <1>5 DEF Right
<1>8. \A d \in Escrows : job'[d].status = "completed"
        => job[d].status = "completed" \/ (d = e /\ status = "completed")
  BY <1>1, <1>2, <1>5 DEF TypeOK, Jobs
<1>9. CompletedMeansReturned'
  BY <1>7, <1>8, VisitRefundsAssumption DEF RInv, CompletedMeansReturned, Finish
<1>10. ToldMeansRefunded'
  BY DEF RInv, ToldMeansRefunded, Finish
<1> QED BY <1>2, <1>4, <1>6, <1>9, <1>10, JobStepSafe DEF Finish, TypeOK

LEMMA NotifySafe ==
  ASSUME RInv, NEW h \in Slots, Notify(h)
  PROVE  RInv'
<1> DEFINE e == req[h].escrow
<1>1. /\ req[h] \in Requests /\ req[h].step = "notify"
      /\ e \in Escrows /\ Right(req[h], escrow, returned)
  BY AtKnown DEF Notify, Steps
<1>2. TypeOK /\ RequestInv /\ OrderInv
  BY DEF RInv
<1>3. Monotone
  BY DEF Monotone, Notify
<1>4. PICK outcome \in {"ok", "error", "refused"} : Conclude(h, "finish", outcome)
  BY DEF Notify
<1>5. Right([req[h] EXCEPT !.step = "finish", !.outcome = outcome], escrow', returned')
  BY <1>1 DEF Right, Requests, Notify
<1>6. RequestInv'
  BY <1>2, <1>3, <1>4, <1>5, ConcludeRight DEF Steps
<1>7. /\ told' \in [Escrows -> 0..2]
      /\ \A d \in Escrows : d # e => told'[d] = told[d]
  BY <1>1, <1>2 DEF TypeOK, Notify
<1>8. e \in returned \ Duplicates /\ escrow[e] = "refunded"
  BY <1>1, <1>2 DEF Right, OrderInv
<1>9. ToldMeansRefunded'
  BY <1>7, <1>8 DEF RInv, ToldMeansRefunded, Notify
<1>10. CompletedMeansReturned'
  BY DEF RInv, CompletedMeansReturned, Notify
<1> QED BY <1>2, <1>6, <1>7, <1>9, <1>10, JobStepSafe DEF Notify, TypeOK

-----------------------------------------------------------------------------
(* The visit lock                                                          *)

LEMMA LockStepSafe ==
  ASSUME RInv, NEW h \in Slots,
         AcquireLock(h) \/ ExpireLock(h) \/ GiveUpOnLock(h)
  PROVE  RInv'
<1>1. /\ req[h] \in Requests /\ req[h].step = "lock"
      /\ req[h].escrow \in Escrows /\ Right(req[h], escrow, returned)
  BY AtKnown DEF AcquireLock, ExpireLock, GiveUpOnLock, Steps
<1>2. TypeOK /\ RequestInv
  BY DEF RInv
<1>3. UNCHANGED store /\ UNCHANGED crashes /\ lock' \in Slots \cup {Nobody, Dead}
  BY <1>2 DEF AcquireLock, ExpireLock, GiveUpOnLock, TypeOK
<1>4. Monotone
  BY <1>3 DEF Monotone, store
<1>5. CASE AcquireLock(h)
  <2> DEFINE next == IF req[h].task = "direct" THEN "direct.check" ELSE "refund.check"
  <2>1. Right([req[h] EXCEPT !.step = next], escrow', returned')
    BY <1>1, <1>3 DEF Right, Requests, store
  <2>2. GoTo(h, next) /\ next \in Steps
    BY <1>5 DEF AcquireLock, Steps
  <2> HIDE DEF next
  <2>3. RequestInv'
    BY <1>2, <1>4, <2>1, <2>2, GoToRight
  <2> QED BY <1>2, <1>3, <2>3, StoreKept DEF TypeOK
<1>6. CASE ExpireLock(h)
  <2>1. RequestInv'
    BY <1>2, <1>4, <1>6, RequestsKept DEF ExpireLock
  <2> QED BY <1>2, <1>3, <2>1, StoreKept DEF TypeOK
<1>7. CASE GiveUpOnLock(h)
  <2>1. CASE req[h].task = "duplicate"
    <3>1. Right([req[h] EXCEPT !.step = "finish", !.outcome = "error"], escrow', returned')
      BY <1>1, <1>3, <2>1 DEF Right, Requests, store
    <3>2. Conclude(h, "finish", "error")
      BY <1>7, <2>1 DEF GiveUpOnLock
    <3>3. RequestInv'
      BY <1>2, <1>4, <3>1, <3>2, ConcludeRight DEF Steps
    <3> QED BY <1>2, <1>3, <3>3, StoreKept DEF TypeOK
  <2>2. CASE req[h].task # "duplicate"
    <3>1. RequestInv'
      BY <1>2, <1>4, <1>7, <2>2, ReturnRight DEF GiveUpOnLock
    <3> QED BY <1>2, <1>3, <3>1, StoreKept DEF TypeOK
  <2> QED BY <2>1, <2>2
<1> QED BY <1>5, <1>6, <1>7

LEMMA UnlockSafe ==
  ASSUME RInv, NEW h \in Slots, Unlock(h)
  PROVE  RInv'
<1>1. /\ req[h] \in Requests /\ req[h].step = "unlock"
      /\ req[h].escrow \in Escrows /\ Right(req[h], escrow, returned)
  BY AtKnown DEF Unlock, Steps
<1>2. TypeOK /\ RequestInv
  BY DEF RInv
<1>3. UNCHANGED store /\ UNCHANGED crashes /\ lock' \in Slots \cup {Nobody, Dead}
  BY <1>2 DEF Unlock, TypeOK
<1>4. Monotone
  BY <1>3 DEF Monotone, store
<1>5. RequestInv'
  <2>1. CASE req[h].task = "duplicate"
    <3>1. Right([req[h] EXCEPT !.step = "finish"], escrow', returned')
      BY <1>1, <1>3, <2>1 DEF Right, Requests, store
    <3> QED BY <1>2, <1>4, <2>1, <3>1, GoToRight DEF Steps, Unlock
  <2>2. CASE req[h].task # "duplicate" /\ req[h].outcome = "ok"
    <3>1. Right([req[h] EXCEPT !.step = "sync.read"], escrow', returned')
      BY <1>1, <1>3, <2>2 DEF Right, Requests, store
    <3> QED BY <1>2, <1>4, <2>2, <3>1, GoToRight DEF Steps, Unlock
  <2>3. CASE req[h].task # "duplicate" /\ req[h].outcome # "ok"
    BY <1>2, <1>4, <2>3, ReturnRight DEF Unlock
  <2> QED BY <2>1, <2>2, <2>3
<1> QED BY <1>2, <1>3, <1>5, StoreKept DEF TypeOK

-----------------------------------------------------------------------------
(* Refunds                                                                 *)

\* A step that changes requests and orders keeps the invariant if refunded
\* orders stay refunded and only orders whose money went back become so.
LEMMA RefundStepSafe ==
  ASSUME RInv, RequestInv', Monotone,
         escrow' \in [Escrows -> {"held", "released", "cancelled", "refunded"}],
         returned' \subseteq Escrows, recorded' \subseteq returned', flagged' \subseteq Escrows,
         \A e \in Escrows : escrow'[e] \in {escrow[e], "refunded"},
         \A e \in Escrows : escrow'[e] = "refunded" => e \in returned',
         UNCHANGED <<job, told, lock, crashes>>
  PROVE  RInv'
<1>1. TypeOK'
  BY DEF RInv, TypeOK, RequestInv
<1>2. OrderInv'
  BY VisitRefundsAssumption DEF RInv, OrderInv
<1>3. CompletedMeansReturned'
  BY DEF RInv, CompletedMeansReturned, Monotone
<1>4. ToldMeansRefunded'
  BY DEF RInv, ToldMeansRefunded, Monotone
<1> QED BY <1>1, <1>2, <1>3, <1>4 DEF RInv

LEMMA CheckSafe ==
  ASSUME RInv, NEW h \in Slots,
         CheckEscrowForRefund(h) \/ CheckEscrowForDirectRefund(h)
  PROVE  RInv'
<1> DEFINE e == req[h].escrow
<1>1. /\ req[h] \in Requests /\ req[h].step \in {"refund.check", "direct.check"}
      /\ e \in Escrows /\ Right(req[h], escrow, returned)
  BY AtKnown DEF CheckEscrowForRefund, CheckEscrowForDirectRefund, Steps
<1>2. TypeOK /\ RequestInv /\ OrderInv
  BY DEF RInv
<1>3. UNCHANGED store /\ UNCHANGED lock /\ UNCHANGED crashes
  BY DEF CheckEscrowForRefund, CheckEscrowForDirectRefund
<1>4. Monotone
  BY <1>3 DEF Monotone, store
<1>5. \/ GoTo(h, "refund.call") /\ req[h].step = "refund.check"
      \/ GoTo(h, "direct.call") /\ req[h].step = "direct.check"
      \/ Conclude(h, "unlock", "ok") /\ e \in returned
      \/ Conclude(h, "unlock", "error")
  BY <1>1, <1>2 DEF CheckEscrowForRefund, CheckEscrowForDirectRefund, OrderInv, At
<1>6. RequestInv'
  <2>1. CASE GoTo(h, "refund.call") /\ req[h].step = "refund.check"
    <3>1. Right([req[h] EXCEPT !.step = "refund.call"], escrow', returned')
      BY <1>1, <1>3, <2>1 DEF Right, Requests, store
    <3> QED BY <1>2, <1>4, <2>1, <3>1, GoToRight DEF Steps
  <2>2. CASE GoTo(h, "direct.call") /\ req[h].step = "direct.check"
    <3>1. Right([req[h] EXCEPT !.step = "direct.call"], escrow', returned')
      BY <1>1, <1>3, <2>2 DEF Right, Requests, store
    <3> QED BY <1>2, <1>4, <2>2, <3>1, GoToRight DEF Steps
  <2>3. CASE Conclude(h, "unlock", "ok") /\ e \in returned
    <3>1. Right([req[h] EXCEPT !.step = "unlock", !.outcome = "ok"], escrow', returned')
      BY <1>1, <1>3, <2>3 DEF Right, Requests, store
    <3> QED BY <1>2, <1>4, <2>3, <3>1, ConcludeRight DEF Steps
  <2>4. CASE Conclude(h, "unlock", "error")
    <3>1. Right([req[h] EXCEPT !.step = "unlock", !.outcome = "error"], escrow', returned')
      BY <1>1, <1>3, <2>4 DEF Right, Requests, store
    <3> QED BY <1>2, <1>4, <2>4, <3>1, ConcludeRight DEF Steps
  <2> QED BY <1>5, <2>1, <2>2, <2>3, <2>4
<1> QED BY <1>2, <1>3, <1>6, StoreKept DEF TypeOK

\* Leaving the locked part with an error or a refusal is always right.
LEMMA LeaveRight ==
  ASSUME RInv, Monotone, NEW h \in Slots, NEW outcome \in {"error", "refused"},
         req[h].step \in {"refund.call", "refund.commit", "direct.call",
                          "direct.record", "flag"},
         Conclude(h, "unlock", outcome)
  PROVE  RequestInv'
<1>1. req[h] \in Requests /\ Right(req[h], escrow, returned) /\ req[h].escrow \in Escrows
  BY DEF RInv, RequestInv, Right
<1>2. Right([req[h] EXCEPT !.step = "unlock", !.outcome = outcome], escrow', returned')
  BY <1>1 DEF Right, Requests, Monotone
<1> QED BY <1>2, ConcludeRight DEF RInv, Steps

LEMMA GatewaySafe ==
  ASSUME RInv, NEW h \in Slots, CallGatewayRefund(h) \/ CallGatewayDirect(h)
  PROVE  RInv'
<1> DEFINE e == req[h].escrow
           next == IF req[h].step = "refund.call" THEN "refund.commit" ELSE "direct.record"
<1>1. /\ req[h] \in Requests /\ req[h].step \in {"refund.call", "direct.call"}
      /\ e \in Escrows /\ Right(req[h], escrow, returned)
  BY AtKnown DEF CallGatewayRefund, CallGatewayDirect, Steps
<1>2. TypeOK /\ RequestInv /\ OrderInv
  BY DEF RInv
<1>3. /\ UNCHANGED <<escrow, recorded, flagged, job, told, lock, crashes>>
      /\ returned' \in {returned, returned \cup {e}}
      /\ \/ GoTo(h, next) /\ e \in returned'
         \/ Conclude(h, "unlock", "error")
         \/ Conclude(h, "unlock", "refused")
  BY <1>1 DEF CallGatewayRefund, CallGatewayDirect, RazorpayRefund, At
<1>4. Monotone
  BY <1>3 DEF Monotone
<1>5. RequestInv'
  <2>1. CASE GoTo(h, next) /\ e \in returned'
    <3>1. Right([req[h] EXCEPT !.step = next], escrow', returned')
      BY <1>1, <1>3, <2>1 DEF Right, Requests
    <3>2. next \in Steps
      BY DEF Steps
    <3> HIDE DEF next
    <3> QED BY <1>2, <1>4, <2>1, <3>1, <3>2, GoToRight
  <2>2. CASE Conclude(h, "unlock", "error")
    BY <1>1, <1>4, <2>2, LeaveRight
  <2>3. CASE Conclude(h, "unlock", "refused")
    BY <1>1, <1>4, <2>3, LeaveRight
  <2> QED BY <1>3, <2>1, <2>2, <2>3
<1>6. returned' \subseteq Escrows /\ recorded' \subseteq returned'
  BY <1>1, <1>2, <1>3 DEF TypeOK, OrderInv
<1> QED BY <1>2, <1>3, <1>4, <1>5, <1>6, RefundStepSafe DEF TypeOK, OrderInv

LEMMA CommitSafe ==
  ASSUME RInv, NEW h \in Slots, CommitRefund(h)
  PROVE  RInv'
<1> DEFINE e == req[h].escrow
<1>1. /\ req[h] \in Requests /\ req[h].step = "refund.commit"
      /\ e \in Escrows /\ Right(req[h], escrow, returned)
  BY AtKnown DEF CommitRefund, Steps
<1>2. TypeOK /\ RequestInv /\ OrderInv /\ e \in returned
  BY <1>1 DEF RInv, Right
<1>3. Monotone
  BY <1>2 DEF Monotone, CommitRefund, TypeOK
<1>4. RequestInv'
  <2>1. CASE Conclude(h, "unlock", "ok")
    <3>1. Right([req[h] EXCEPT !.step = "unlock", !.outcome = "ok"], escrow', returned')
      BY <1>1, <1>2 DEF Right, Requests, CommitRefund
    <3> QED BY <1>2, <1>3, <2>1, <3>1, ConcludeRight DEF Steps
  <2>2. CASE Conclude(h, "unlock", "error")
    BY <1>1, <1>3, <2>2, LeaveRight
  <2> QED BY <2>1, <2>2 DEF CommitRefund
<1>5. /\ escrow' \in [Escrows -> {"held", "released", "cancelled", "refunded"}]
      /\ \A d \in Escrows : escrow'[d] \in {escrow[d], "refunded"}
      /\ \A d \in Escrows : escrow'[d] = "refunded" => d \in returned'
      /\ recorded' \subseteq returned' /\ returned' \subseteq Escrows
      /\ flagged' \subseteq Escrows /\ UNCHANGED <<job, told, lock, crashes>>
  BY <1>1, <1>2 DEF TypeOK, OrderInv, CommitRefund
<1> QED BY <1>3, <1>4, <1>5, RefundStepSafe

LEMMA RecordSafe ==
  ASSUME RInv, NEW h \in Slots, RecordDirectRefund(h)
  PROVE  RInv'
<1> DEFINE e == req[h].escrow
<1>1. /\ req[h] \in Requests /\ req[h].step = "direct.record"
      /\ e \in Escrows /\ Right(req[h], escrow, returned)
  BY AtKnown DEF RecordDirectRefund, Steps
<1>2. TypeOK /\ RequestInv /\ OrderInv /\ e \in returned
  BY <1>1 DEF RInv, Right
<1>3. Monotone
  BY DEF Monotone, RecordDirectRefund
<1>4. RequestInv'
  <2>1. CASE GoTo(h, "mark")
    <3>1. Right([req[h] EXCEPT !.step = "mark"], escrow', returned')
      BY <1>1, <1>2 DEF Right, Requests, RecordDirectRefund
    <3> QED BY <1>2, <1>3, <2>1, <3>1, GoToRight DEF Steps
  <2>2. CASE Conclude(h, "unlock", "error")
    BY <1>1, <1>3, <2>2, LeaveRight
  <2> QED BY <2>1, <2>2 DEF RecordDirectRefund
<1>5. recorded' \subseteq returned' /\ UNCHANGED <<escrow, returned, flagged, job, told, lock, crashes>>
  BY <1>2 DEF OrderInv, RecordDirectRefund
<1> QED BY <1>2, <1>3, <1>4, <1>5, RefundStepSafe DEF TypeOK, OrderInv

LEMMA MarkSafe ==
  ASSUME RInv, NEW h \in Slots, MarkEscrowRefunded(h)
  PROVE  RInv'
<1> DEFINE e == req[h].escrow
<1>1. /\ req[h] \in Requests /\ req[h].step = "mark"
      /\ e \in Escrows /\ Right(req[h], escrow, returned)
  BY AtKnown DEF MarkEscrowRefunded, Steps
<1>2. TypeOK /\ RequestInv /\ OrderInv /\ e \in returned
      /\ req[h].task \in {"direct", "webhook", "reconcile"}
  BY <1>1 DEF RInv, Right
<1>3. Monotone
  BY <1>2 DEF Monotone, MarkEscrowRefunded, TypeOK
<1>4. RequestInv'
  <2>1. CASE GoTo(h, "flag")
    <3>1. Right([req[h] EXCEPT !.step = "flag"], escrow', returned')
      BY <1>1, <1>2 DEF Right, Requests, MarkEscrowRefunded
    <3> QED BY <1>2, <1>3, <2>1, <3>1, GoToRight DEF Steps
  <2>2. CASE Conclude(h, "unlock", "ok") /\ req[h].task = "direct"
    <3>1. Right([req[h] EXCEPT !.step = "unlock", !.outcome = "ok"], escrow', returned')
      BY <1>1, <2>2 DEF Right, Requests
    <3> QED BY <1>2, <1>3, <2>2, <3>1, ConcludeRight DEF Steps
  <2>3. CASE GoTo(h, "sync.read") /\ req[h].task = "webhook"
    <3>1. Right([req[h] EXCEPT !.step = "sync.read"], escrow', returned')
      BY <1>1, <2>3 DEF Right, Requests
    <3> QED BY <1>2, <1>3, <2>3, <3>1, GoToRight DEF Steps
  <2>4. CASE Return(h)
    BY <1>2, <1>3, <2>4, ReturnRight
  <2> QED BY <1>2, <2>1, <2>2, <2>3, <2>4 DEF MarkEscrowRefunded, AfterMark
<1>5. /\ escrow' \in [Escrows -> {"held", "released", "cancelled", "refunded"}]
      /\ \A d \in Escrows : escrow'[d] \in {escrow[d], "refunded"}
      /\ \A d \in Escrows : escrow'[d] = "refunded" => d \in returned'
      /\ UNCHANGED <<returned, recorded, flagged, job, told, lock, crashes>>
  BY <1>1, <1>2 DEF TypeOK, OrderInv, MarkEscrowRefunded
<1> QED BY <1>2, <1>3, <1>4, <1>5, RefundStepSafe DEF TypeOK, OrderInv

LEMMA FlagSafe ==
  ASSUME RInv, NEW h \in Slots, FlagRefundAfterRelease(h)
  PROVE  RInv'
<1>1. /\ req[h] \in Requests /\ req[h].step = "flag"
      /\ req[h].escrow \in Escrows /\ Right(req[h], escrow, returned)
  BY AtKnown DEF FlagRefundAfterRelease, Steps
<1>2. TypeOK /\ RequestInv /\ OrderInv
  BY DEF RInv
<1>3. Monotone
  BY DEF Monotone, FlagRefundAfterRelease
<1>4. RequestInv'
  <2>1. CASE Conclude(h, "unlock", "error")
    BY <1>1, <1>3, <2>1, LeaveRight
  <2>2. CASE Return(h)
    BY <1>2, <1>3, <2>2, ReturnRight
  <2> QED BY <2>1, <2>2 DEF FlagRefundAfterRelease
<1>5. flagged' \subseteq Escrows
      /\ UNCHANGED <<escrow, returned, recorded, job, told, lock, crashes>>
  BY <1>1, <1>2 DEF TypeOK, FlagRefundAfterRelease
<1> QED BY <1>2, <1>3, <1>4, <1>5, RefundStepSafe DEF TypeOK, OrderInv

-----------------------------------------------------------------------------
(* The theorems                                                            *)

LEMMA InitSafe ==
  ASSUME Init PROVE RInv
<1>1. TypeOK
  BY VisitRefundsAssumption DEF Init, TypeOK, Jobs, Idle, Requests, Steps
<1>2. RequestInv
  BY IdleRight DEF Init, RequestInv
<1>3. OrderInv
  BY VisitRefundsAssumption DEF Init, OrderInv
<1>4. CompletedMeansReturned
  BY VisitRefundsAssumption DEF Init, CompletedMeansReturned
<1>5. ToldMeansRefunded
  BY DEF Init, ToldMeansRefunded
<1> QED BY <1>1, <1>2, <1>3, <1>4, <1>5 DEF RInv

LEMMA NextSafe ==
  ASSUME RInv, [Next]_vars PROVE RInv'
<1>1. ASSUME NEW h \in Handlers, NEW e \in Escrows, Request(h, e) PROVE RInv'
  BY <1>1, RequestSafe
<1>2. ASSUME NEW s \in Schedulers, NEW e \in Escrows, Reconcile(s, e) PROVE RInv'
  BY <1>2, ReconcileSafe
<1>3. ASSUME NEW e \in Escrows, ClaimForPayout(e) PROVE RInv'
  BY <1>3, PayoutSafe
<1>4. ASSUME NEW h \in Slots, Continue(h) PROVE RInv'
  BY <1>4, ReadDuplicateSafe, ReadForSyncSafe, EnqueueSafe, ClaimSafe, NotifySafe,
     FinishSafe, LockStepSafe, UnlockSafe, CheckSafe, GatewaySafe, CommitSafe,
     RecordSafe, MarkSafe, FlagSafe DEF Continue
<1>5. ASSUME NEW h \in Slots, Crash(h) PROVE RInv'
  BY <1>5, CrashSafe
<1>6. CASE UNCHANGED vars
  <2>1. Monotone /\ TypeOK /\ RequestInv
    BY <1>6 DEF RInv, Monotone, vars
  <2>2. RequestInv'
    BY <1>6, <2>1, RequestsKept DEF vars
  <2> QED BY <1>6, <2>1, <2>2, StoreKept DEF vars, store, TypeOK
<1> QED BY <1>1, <1>2, <1>3, <1>4, <1>5, <1>6 DEF Next

LEMMA Safe == Spec => []RInv
<1> QED BY InitSafe, NextSafe, PTL DEF Spec

\* Every reachable state is well typed.
THEOREM RefundsTypeCorrect == Spec => []TypeOK
<1>1. RInv => TypeOK
  BY DEF RInv
<1> QED BY <1>1, Safe, PTL

\* A duplicate whose refund job is completed has been refunded at Razorpay,
\* whatever crashes, lost replies and stale claims came before
\* (ensureDuplicateVisitPaymentRefund).
THEOREM CompletedReturned == Spec => []CompletedMeansReturned
<1>1. RInv => CompletedMeansReturned
  BY DEF RInv
<1> QED BY <1>1, Safe, PTL

\* Task-service is told only of refunded payments that paid the visit
\* (ensureRecurringVisitRefundSync).
THEOREM ToldRefunded == Spec => []ToldMeansRefunded
<1>1. RInv => ToldMeansRefunded
  BY DEF RInv
<1> QED BY <1>1, Safe, PTL

\* markEscrowRefunded and the refunds of duplicates never overwrite a payout:
\* only processRefund of a bound payment can.
THEOREM PaidOutKept ==
  ASSUME "refund" \notin Operations
  PROVE  Spec => ReleasedKept
<1>1. ASSUME RInv, [Next]_vars, NEW e \in Escrows, escrow[e] = "released"
      PROVE  escrow'[e] = "released"
  <2>1. TypeOK
    BY <1>1 DEF RInv
  <2>2. ASSUME NEW h \in Handlers, NEW d \in Escrows, Request(h, d)
        PROVE  UNCHANGED escrow
    BY <2>2 DEF Request, CaptureEvent, RefundRequest, DirectRefund, RefundWebhook, store
  <2>3. ASSUME NEW s \in Schedulers, NEW d \in Escrows, Reconcile(s, d)
        PROVE  UNCHANGED escrow
    BY <2>3 DEF Reconcile, store
  <2>4. ASSUME NEW d \in Escrows, ClaimForPayout(d) PROVE escrow'[e] = "released"
    BY <1>1, <2>1, <2>4 DEF ClaimForPayout, TypeOK
  <2>5. ASSUME NEW h \in Slots, CommitRefund(h) PROVE escrow'[e] = "released"
    <3>1. req[h].escrow # e
      <4>1. req[h].step = "refund.commit" /\ Right(req[h], escrow, returned)
        BY <1>1, <2>5, AtKnown DEF CommitRefund, Steps
      <4>2. req[h].escrow \in Duplicates
        BY <4>1 DEF Right
      <4> QED BY <1>1, <4>2 DEF RInv, OrderInv
    <3> QED BY <1>1, <2>1, <2>5, <3>1 DEF CommitRefund, TypeOK
  <2>6. ASSUME NEW h \in Slots, MarkEscrowRefunded(h) PROVE escrow'[e] = "released"
    BY <1>1, <2>1, <2>6 DEF MarkEscrowRefunded, TypeOK
  <2>7. ASSUME NEW h \in Slots, Continue(h), ~CommitRefund(h), ~MarkEscrowRefunded(h)
        PROVE  UNCHANGED escrow
    BY <2>7 DEF Continue, ReadDuplicate, ReadForSync, Enqueue, Claim, Notify, Finish,
       AcquireLock, ExpireLock, GiveUpOnLock, Unlock, CheckEscrowForRefund,
       CallGatewayRefund, CheckEscrowForDirectRefund, CallGatewayDirect,
       RecordDirectRefund, FlagRefundAfterRelease, store
  <2>8. ASSUME NEW h \in Slots, Crash(h) PROVE UNCHANGED escrow
    BY <2>8 DEF Crash
  <2>9. CASE UNCHANGED vars
    BY <2>9, <1>1 DEF vars
  <2> QED BY <1>1, <2>2, <2>3, <2>4, <2>5, <2>6, <2>7, <2>8, <2>9 DEF Next
<1>2. RInv /\ [Next]_vars
        => [\A e \in Escrows : escrow[e] = "released" => escrow'[e] = "released"]_vars
  BY <1>1
<1> QED BY <1>2, Safe, PTL DEF Spec, ReleasedKept
-----------------------------------------------------------------------------
(* Telling task-service once                                               *)

\* Request r is about to tell task-service, or has just done so.
Telling(r) == r.task = "sync" /\ r.step \in {"notify", "finish"}

\* While no instance has crashed, no claim is orphaned, and a job that can still
\* be claimed stands for a refund nobody told.
JobInv(e) ==
    /\ told[e] <= 1
    /\ job[e].claimant # Dead
    /\ job[e].status \in {"none", "pending"} => told[e] = 0

\* Who tells holds the claim, and does not put the job back once it has told.
TellerInv(h) ==
    Telling(req[h]) =>
        /\ job[req[h].escrow].status = "processing"
        /\ job[req[h].escrow].claimant = h
        /\ req[h].step = "notify" => told[req[h].escrow] = 0
        /\ req[h].step = "finish" /\ told[req[h].escrow] > 0 => req[h].outcome = "ok"

OnceInv == crashes = 0 => /\ \A e \in Escrows : JobInv(e)
                          /\ \A h \in Slots : TellerInv(h)

\* What a step of h does to the other requests: nothing.
Others(h) == \A g \in Slots \ {h} : req'[g] = req[g]

LEMMA GoToOwn ==
  ASSUME RInv, NEW h \in Slots, NEW step \in Steps, GoTo(h, step)
  PROVE  /\ Others(h)
         /\ req'[h].step = step /\ req'[h].task = req[h].task
         /\ req'[h].escrow = req[h].escrow
BY DEF RInv, RequestInv, Requests, GoTo, Others

LEMMA ConcludeOwn ==
  ASSUME RInv, NEW h \in Slots, NEW step \in Steps,
         NEW outcome \in {"ok", "error", "refused"}, Conclude(h, step, outcome)
  PROVE  /\ Others(h)
         /\ req'[h].step = step /\ req'[h].task = req[h].task
         /\ req'[h].escrow = req[h].escrow /\ req'[h].outcome = outcome
BY DEF RInv, RequestInv, Requests, Conclude, Others

\* Steps after which the request does not tell.
LEMMA ReturnQuiet ==
  ASSUME RInv, NEW h \in Slots, Return(h)
  PROVE  Others(h) /\ ~Telling(req'[h])
BY DEF RInv, RequestInv, Return, Others, Telling, Idle

LEMMA GoToQuiet ==
  ASSUME RInv, NEW h \in Slots, NEW step \in Steps, GoTo(h, step),
         req[h].task = "sync" => step \notin {"notify", "finish"}
  PROVE  Others(h) /\ ~Telling(req'[h])
BY GoToOwn DEF Telling

LEMMA ConcludeQuiet ==
  ASSUME RInv, NEW h \in Slots, NEW step \in Steps,
         NEW outcome \in {"ok", "error", "refused"}, Conclude(h, step, outcome),
         req[h].task = "sync" => step \notin {"notify", "finish"}
  PROVE  Others(h) /\ ~Telling(req'[h])
BY ConcludeOwn DEF Telling

LEMMA StartQuiet ==
  ASSUME RInv, NEW h \in Slots, NEW task, NEW e, NEW step \in Steps \ {"notify", "finish"},
         Start(h, task, e, step)
  PROVE  Others(h) /\ ~Telling(req'[h])
BY DEF RInv, RequestInv, Start, Others, Telling

\* A step that leaves jobs alone and after which its request does not tell.
LEMMA QuietOnce ==
  ASSUME RInv, OnceInv, NEW h \in Slots, Others(h), ~Telling(req'[h]),
         UNCHANGED <<job, told, crashes>>
  PROVE  OnceInv'
<1> SUFFICES ASSUME crashes = 0
             PROVE  /\ \A e \in Escrows : JobInv(e)'
                    /\ \A g \in Slots : TellerInv(g)'
  BY DEF OnceInv
<1>1. ASSUME NEW e \in Escrows PROVE JobInv(e)'
  BY DEF OnceInv, JobInv
<1>2. ASSUME NEW g \in Slots PROVE TellerInv(g)'
  <2>1. CASE g = h
    BY <2>1 DEF TellerInv
  <2>2. CASE g # h
    BY <2>2 DEF OnceInv, TellerInv, Others
  <2> QED BY <2>1, <2>2
<1> QED BY <1>1, <1>2

\* A step that writes one job and after which its request does not tell keeps
\* the invariant if nobody else tells of that order.
LEMMA WriteOnce ==
  ASSUME RInv, OnceInv, NEW h \in Slots, Others(h), ~Telling(req'[h]),
         NEW e \in Escrows, crashes = 0 => JobInv(e)',
         \A d \in Escrows \ {e} : job'[d] = job[d],
         \A g \in Slots \ {h} : Telling(req[g]) => req[g].escrow # e,
         UNCHANGED <<told, crashes>>
  PROVE  OnceInv'
<1> SUFFICES ASSUME crashes = 0
             PROVE  /\ \A d \in Escrows : JobInv(d)'
                    /\ \A g \in Slots : TellerInv(g)'
  BY DEF OnceInv
<1>1. ASSUME NEW d \in Escrows PROVE JobInv(d)'
  <2>1. CASE d = e
    BY <2>1
  <2>2. CASE d # e
    BY <2>2 DEF OnceInv, JobInv
  <2> QED BY <2>1, <2>2
<1>2. ASSUME NEW g \in Slots PROVE TellerInv(g)'
  <2>1. CASE g = h
    BY <2>1 DEF TellerInv
  <2>2. CASE g # h
    <3> SUFFICES ASSUME Telling(req[g]) PROVE TellerInv(g)'
      BY <2>2 DEF TellerInv, Others
    <3>1. req[g].escrow \in Escrows \ {e}
      BY <2>2 DEF RInv, RequestInv, Right, Telling
    <3> QED BY <2>2, <3>1 DEF OnceInv, TellerInv, Others
  <2> QED BY <2>1, <2>2
<1> QED BY <1>1, <1>2

\* Nobody tells of a duplicate, and nobody has.
LEMMA DuplicateUntold ==
  ASSUME RInv, NEW e \in Duplicates
  PROVE  /\ told[e] = 0
         /\ \A g \in Slots : Telling(req[g]) => req[g].escrow # e
<1>1. told[e] = 0
  BY VisitRefundsAssumption DEF RInv, TypeOK, ToldMeansRefunded
<1>2. ASSUME NEW g \in Slots, Telling(req[g]) PROVE req[g].escrow # e
  BY <1>2 DEF RInv, RequestInv, Right, Telling
<1> QED BY <1>1, <1>2

LEMMA ReadDuplicateOnce ==
  ASSUME RInv, OnceInv, NEW h \in Slots, ReadDuplicate(h)
  PROVE  OnceInv'
<1>0. PICK e : e = req[h].escrow
  OBVIOUS
<1>1. /\ req[h] \in Requests /\ req[h].step = "duplicate.read"
      /\ e \in Duplicates /\ e \in Escrows
  BY <1>0, AtKnown DEF ReadDuplicate, Steps, Right
<1>2. Others(h) /\ ~Telling(req'[h])
  <2>1. CASE Return(h)
    BY <2>1, ReturnQuiet
  <2>2. CASE GoTo(h, "enqueue")
    BY <2>2, GoToQuiet DEF Steps
  <2> QED BY <2>1, <2>2 DEF ReadDuplicate
<1>3. UNCHANGED <<told, crashes>>
  BY <1>0 DEF ReadDuplicate
<1>4. UNCHANGED job \/ job' = [job EXCEPT ![e].status = "completed"]
  BY <1>0 DEF ReadDuplicate
<1>5. /\ job'[e].claimant = job[e].claimant
      /\ \A d \in Escrows \ {e} : job'[d] = job[d]
  BY <1>1, <1>4 DEF RInv, TypeOK, Jobs
<1>6. told[e] = 0 /\ \A g \in Slots : Telling(req[g]) => req[g].escrow # e
  BY <1>1, DuplicateUntold
<1>7. crashes = 0 => JobInv(e)'
  BY <1>1, <1>3, <1>5, <1>6 DEF OnceInv, JobInv
<1> QED BY <1>1, <1>2, <1>3, <1>5, <1>6, <1>7, WriteOnce

LEMMA EnqueueOnce ==
  ASSUME RInv, OnceInv, NEW h \in Slots, Enqueue(h)
  PROVE  OnceInv'
<1>0. PICK e : e = req[h].escrow
  OBVIOUS
<1>1. /\ req[h] \in Requests /\ req[h].step = "enqueue" /\ e \in Escrows
  BY <1>0, AtKnown DEF Enqueue, Steps
<1>2. Others(h) /\ ~Telling(req'[h])
  BY GoToQuiet DEF Enqueue, Steps
<1>3. UNCHANGED <<told, crashes>>
  BY <1>0 DEF Enqueue
<1>4. CASE job[e].status = "none" /\ crashes = 0
  <2>1. job' = [job EXCEPT ![e].status = "pending"]
    BY <1>0, <1>4 DEF Enqueue
  <2>3. /\ job'[e].claimant = job[e].claimant
        /\ \A d \in Escrows \ {e} : job'[d] = job[d]
    BY <1>1, <2>1 DEF RInv, TypeOK, Jobs
  <2>2. JobInv(e)'
    BY <1>1, <1>3, <1>4, <2>3 DEF OnceInv, JobInv
  <2>4. \A g \in Slots : Telling(req[g]) => req[g].escrow # e
    BY <1>0, <1>4 DEF OnceInv, TellerInv
  <2> QED BY <1>1, <1>2, <1>3, <2>2, <2>3, <2>4, WriteOnce
<1>5. CASE job[e].status # "none"
  <2>1. UNCHANGED job
    BY <1>0, <1>5 DEF Enqueue
  <2> QED BY <1>2, <1>3, <2>1, QuietOnce
<1>6. CASE crashes # 0
  BY <1>3, <1>6 DEF OnceInv
<1> QED BY <1>4, <1>5, <1>6

LEMMA ClaimOnce ==
  ASSUME RInv, OnceInv, "slowClaim" \notin Faults, NEW h \in Slots, Claim(h)
  PROVE  OnceInv'
<1>0. PICK e : e = req[h].escrow
  OBVIOUS
<1> DEFINE claimed == [status |-> "processing", attempts |-> Attempt(e), claimant |-> h]
<1>1. /\ req[h] \in Requests /\ req[h].step = "claim" /\ e \in Escrows
  BY <1>0, AtKnown DEF Claim, Steps
<1>2. UNCHANGED <<told, crashes>>
  BY <1>0 DEF Claim
<1>3. CASE crashes # 0
  BY <1>2, <1>3 DEF OnceInv
<1>4. CASE Return(h) /\ UNCHANGED job
  <2>1. Others(h) /\ ~Telling(req'[h])
    BY <1>4, ReturnQuiet
  <2> QED BY <1>2, <1>4, <2>1, QuietOnce
<1>5. CASE /\ crashes = 0
           /\ job[e].status = "pending" \/ Stale(e)
           /\ job' = [job EXCEPT ![e] = claimed]
           /\ GoTo(h, IF req[h].task = "sync" THEN "notify" ELSE "lock")
  <2>1. job[e].status = "pending" /\ told[e] = 0
    BY <1>1, <1>5 DEF OnceInv, JobInv, Stale
  <2>2. job'[e] = claimed /\ \A d \in Escrows \ {e} : job'[d] = job[d]
    BY <1>1, <1>5 DEF RInv, TypeOK
  <2>3. job'[e].status = "processing" /\ job'[e].claimant = h
    BY <2>2
  <2> HIDE DEF claimed
  <2>4. Others(h) /\ req'[h].escrow = e
        /\ req'[h].step \in {"notify", "lock"}
    <3>1. PICK step \in {"notify", "lock"} : GoTo(h, step)
      BY <1>5
    <3> QED BY <1>0, <1>1, <3>1, GoToOwn DEF Steps
  <2>5. ASSUME NEW d \in Escrows PROVE JobInv(d)'
    <3>1. CASE d = e
      BY <1>2, <2>1, <2>3, <3>1, VisitRefundsAssumption DEF JobInv, Slots
    <3>2. CASE d # e
      BY <1>2, <1>5, <2>2, <3>2 DEF OnceInv, JobInv
    <3> QED BY <3>1, <3>2
  <2>6. ASSUME NEW g \in Slots PROVE TellerInv(g)'
    <3>1. CASE g = h
      BY <1>2, <2>1, <2>3, <2>4, <3>1 DEF TellerInv
    <3>2. CASE g # h
      <4>1. req'[g] = req[g] /\ TellerInv(g)
        BY <1>5, <2>4, <3>2 DEF Others, OnceInv
      <4>2. Telling(req[g]) => req[g].escrow \in Escrows \ {e}
        BY <1>0, <2>1, <4>1 DEF TellerInv, RInv, RequestInv, Right, Telling
      <4> QED BY <1>2, <2>2, <4>1, <4>2 DEF TellerInv
    <3> QED BY <3>1, <3>2
  <2> QED BY <2>5, <2>6 DEF OnceInv
<1> QED BY <1>0, <1>3, <1>4, <1>5 DEF Claim

LEMMA NotifyOnce ==
  ASSUME RInv, OnceInv, "taskServiceDown" \notin Faults, NEW h \in Slots, Notify(h)
  PROVE  OnceInv'
<1>0. PICK e : e = req[h].escrow
  OBVIOUS
<1>1. /\ req[h] \in Requests /\ req[h].step = "notify" /\ e \in Escrows
      /\ req[h].task = "sync"
  BY <1>0, AtKnown DEF Notify, Steps, Right
<1>2. UNCHANGED <<job, crashes>>
  BY DEF Notify
<1>3. CASE crashes # 0
  BY <1>2, <1>3 DEF OnceInv
<1>4. CASE crashes = 0
  <2>1. job[e].status = "processing" /\ job[e].claimant = h /\ told[e] = 0
    BY <1>0, <1>1, <1>4 DEF OnceInv, TellerInv, Telling
  <2>2. PICK outcome \in {"ok", "refused"} :
          /\ Conclude(h, "finish", outcome)
          /\ told' = [told EXCEPT ![e] = IF outcome = "ok" THEN 1 ELSE 0]
    BY <1>0, <1>1, <2>1 DEF Notify, RInv, TypeOK
  <2>3. /\ told'[e] = IF outcome = "ok" THEN 1 ELSE 0
        /\ \A d \in Escrows \ {e} : told'[d] = told[d]
    BY <1>1, <2>2 DEF RInv, TypeOK
  <2>4. Others(h) /\ req'[h].escrow = e /\ req'[h].step = "finish"
        /\ req'[h].outcome = outcome
    BY <1>0, <1>1, <2>2, ConcludeOwn DEF Steps
  <2>5. ASSUME NEW d \in Escrows PROVE JobInv(d)'
    <3>1. CASE d = e
      BY <1>2, <1>4, <2>1, <2>3, <3>1 DEF OnceInv, JobInv
    <3>2. CASE d # e
      BY <1>2, <1>4, <2>3, <3>2 DEF OnceInv, JobInv
    <3> QED BY <3>1, <3>2
  <2>6. ASSUME NEW g \in Slots PROVE TellerInv(g)'
    <3>1. CASE g = h
      BY <1>2, <2>1, <2>3, <2>4, <3>1 DEF TellerInv
    <3>2. CASE g # h
      <4>1. req'[g] = req[g] /\ TellerInv(g)
        BY <1>4, <2>4, <3>2 DEF Others, OnceInv
      <4>2. Telling(req[g]) => req[g].escrow \in Escrows \ {e}
        BY <2>1, <3>2, <4>1 DEF TellerInv, RInv, RequestInv, Right, Telling
      <4> QED BY <1>2, <2>3, <4>1, <4>2 DEF TellerInv
    <3> QED BY <3>1, <3>2
  <2> QED BY <2>5, <2>6 DEF OnceInv
<1> QED BY <1>3, <1>4

LEMMA FinishOnce ==
  ASSUME RInv, OnceInv, NEW h \in Slots, Finish(h)
  PROVE  OnceInv'
<1>0. PICK e : e = req[h].escrow
  OBVIOUS
<1>1. /\ req[h] \in Requests /\ req[h].step = "finish" /\ e \in Escrows
      /\ Right(req[h], escrow, returned)
  BY <1>0, AtKnown DEF Finish, Steps
<1>2. UNCHANGED <<told, crashes>>
  BY <1>0 DEF Finish
<1>3. Others(h) /\ ~Telling(req'[h])
  BY ReturnQuiet DEF Finish
<1>4. CASE crashes # 0
  BY <1>2, <1>4 DEF OnceInv
<1>5. CASE crashes = 0
  <2>1. PICK status \in {"completed", "failed", "pending"} :
          /\ job' = [job EXCEPT ![e].status = status]
          /\ status = "pending" => req[h].outcome = "error"
    <3>1. req[h].outcome \in {"ok", "error", "refused"}
      BY <1>1 DEF Requests
    <3> QED BY <1>0, <3>1 DEF Finish
  <2>2. /\ job'[e] = [job[e] EXCEPT !.status = status]
        /\ \A d \in Escrows \ {e} : job'[d] = job[d]
    BY <1>1, <2>1 DEF RInv, TypeOK
  <2>3. job'[e].status = status /\ job'[e].claimant = job[e].claimant
    BY <1>1, <2>2 DEF RInv, TypeOK, Jobs
  <2>4. /\ req[h].outcome = "error" => told[e] = 0
        /\ \A g \in Slots \ {h} : Telling(req[g]) => req[g].escrow # e
    <3>1. CASE req[h].task = "duplicate"
      <4>1. e \in Duplicates
        BY <1>0, <1>1, <3>1 DEF Right
      <4> QED BY <4>1, DuplicateUntold
    <3>2. CASE req[h].task = "sync"
      <4>1. TellerInv(h) /\ Telling(req[h]) /\ told[e] \in 0..2
        BY <1>0, <1>1, <1>5, <3>2 DEF OnceInv, Telling, RInv, TypeOK
      <4>2. req[h].outcome = "error" => told[e] = 0
        BY <1>0, <1>1, <4>1 DEF TellerInv
      <4>3. ASSUME NEW g \in Slots \ {h}, Telling(req[g]) PROVE req[g].escrow # e
        BY <1>0, <1>5, <4>1, <4>3 DEF OnceInv, TellerInv
      <4> QED BY <4>2, <4>3
    <3> QED BY <1>0, <1>1, <3>1, <3>2 DEF Right
  <2>5. JobInv(e)'
    BY <1>1, <1>2, <1>5, <2>1, <2>3, <2>4 DEF OnceInv, JobInv
  <2> QED BY <1>1, <1>2, <1>3, <2>2, <2>4, <2>5, WriteOnce
<1> QED BY <1>4, <1>5

\* Every other step of a request leaves jobs alone and does not lead to telling:
\* it is not a sync yet, or it is that of a refund.
LEMMA ContinueOnce ==
  ASSUME RInv, OnceInv, "slowClaim" \notin Faults, "taskServiceDown" \notin Faults,
         NEW h \in Slots, Continue(h)
  PROVE  OnceInv'
<1>1. CASE ReadDuplicate(h)
  BY <1>1, ReadDuplicateOnce
<1>2. CASE Enqueue(h)
  BY <1>2, EnqueueOnce
<1>3. CASE Claim(h)
  BY <1>3, ClaimOnce
<1>4. CASE Notify(h)
  BY <1>4, NotifyOnce
<1>5. CASE Finish(h)
  BY <1>5, FinishOnce
<1>6. CASE ReadForSync(h)
  <2>1. UNCHANGED <<job, told, crashes>>
    BY <1>6 DEF ReadForSync, store
  <2>2. Others(h) /\ ~Telling(req'[h])
    <3>1. CASE Return(h)
      BY <3>1, ReturnQuiet
    <3>2. CASE req' = [req EXCEPT ![h].step = "enqueue", ![h].task = "sync"]
      BY <3>2 DEF RInv, RequestInv, Requests, Telling, Others
    <3> QED BY <1>6, <3>1, <3>2 DEF ReadForSync
  <2> QED BY <2>1, <2>2, QuietOnce
<1>7. CASE ExpireLock(h)
  <2>1. UNCHANGED <<job, told, crashes, req>>
    BY <1>7 DEF ExpireLock, store
  <2>2. Others(h) /\ ~Telling(req'[h])
    BY <1>7, <2>1 DEF ExpireLock, At, Telling, Others
  <2> QED BY <2>1, <2>2, QuietOnce
<1>8. CASE \/ AcquireLock(h) \/ GiveUpOnLock(h) \/ Unlock(h)
  <2>1. UNCHANGED <<job, told, crashes>>
    BY <1>8 DEF AcquireLock, GiveUpOnLock, Unlock, store
  <2>2. req[h] \in Requests
    BY DEF RInv, RequestInv
  <2>3. Others(h) /\ ~Telling(req'[h])
    <3>1. CASE AcquireLock(h)
      <4>1. PICK step \in {"direct.check", "refund.check"} : GoTo(h, step)
        BY <3>1 DEF AcquireLock
      <4> QED BY <4>1, GoToQuiet DEF Steps
    <3>2. CASE GiveUpOnLock(h)
      <4>1. Return(h) \/ (Conclude(h, "finish", "error") /\ req[h].task = "duplicate")
        BY <3>2 DEF GiveUpOnLock
      <4> QED BY <4>1, ReturnQuiet, ConcludeQuiet DEF Steps
    <3>3. CASE Unlock(h)
      <4>1. \/ Return(h) \/ GoTo(h, "sync.read")
            \/ GoTo(h, "finish") /\ req[h].task = "duplicate"
        BY <3>3 DEF Unlock
      <4> QED BY <4>1, ReturnQuiet, GoToQuiet DEF Steps
    <3> QED BY <1>8, <3>1, <3>2, <3>3
  <2> QED BY <2>1, <2>3, QuietOnce
<1>9. CASE \/ CheckEscrowForRefund(h) \/ CallGatewayRefund(h) \/ CommitRefund(h)
           \/ CheckEscrowForDirectRefund(h) \/ CallGatewayDirect(h)
           \/ RecordDirectRefund(h)
           \/ MarkEscrowRefunded(h) \/ FlagRefundAfterRelease(h)
  <2>1. UNCHANGED <<job, told, crashes>>
    BY <1>9 DEF CheckEscrowForRefund, CallGatewayRefund, CommitRefund,
       CheckEscrowForDirectRefund, CallGatewayDirect, RecordDirectRefund,
       MarkEscrowRefunded, FlagRefundAfterRelease, store
  <2>2. req[h] \in Requests /\ Right(req[h], escrow, returned)
    BY DEF RInv, RequestInv
  <2>3. \/ Return(h)
        \/ \E step \in Steps \ {"notify", "finish"} :
              \/ GoTo(h, step)
              \/ \E outcome \in {"ok", "error", "refused"} : Conclude(h, step, outcome)
    BY <1>9, <2>2 DEF CheckEscrowForRefund, CallGatewayRefund, CommitRefund,
       CheckEscrowForDirectRefund, CallGatewayDirect, RecordDirectRefund, RazorpayRefund,
       MarkEscrowRefunded, AfterMark, FlagRefundAfterRelease, At, Right, Steps
  <2>4. Others(h) /\ ~Telling(req'[h])
    BY <2>3, ReturnQuiet, GoToQuiet, ConcludeQuiet DEF Steps
  <2> QED BY <2>1, <2>4, QuietOnce
<1> QED BY <1>1, <1>2, <1>3, <1>4, <1>5, <1>6, <1>7, <1>8, <1>9 DEF Continue

LEMMA NextOnce ==
  ASSUME RInv, OnceInv, "slowClaim" \notin Faults, "taskServiceDown" \notin Faults,
         [Next]_vars
  PROVE  OnceInv'
<1>1. ASSUME NEW h \in Handlers, NEW e \in Escrows, Request(h, e) PROVE OnceInv'
  <2>1. h \in Slots /\ UNCHANGED <<job, told, crashes>>
    BY <1>1 DEF Slots, Request, CaptureEvent, RefundRequest, DirectRefund, RefundWebhook, store
  <2>2. Others(h) /\ ~Telling(req'[h])
    <3>1. PICK task \in {"duplicate", "refund", "direct", "webhook"},
               step \in {"duplicate.read", "sync.read", "lock", "mark"} :
            Start(h, task, e, step)
      BY <1>1 DEF Request, CaptureEvent, RefundRequest, DirectRefund, RefundWebhook
    <3> QED BY <2>1, <3>1, StartQuiet DEF Steps
  <2> QED BY <2>1, <2>2, QuietOnce
<1>2. ASSUME NEW s \in Schedulers, NEW e \in Escrows, Reconcile(s, e) PROVE OnceInv'
  <2>1. s \in Slots /\ UNCHANGED <<job, told, crashes>>
    BY <1>2 DEF Slots, Reconcile, store
  <2>2. Others(s) /\ ~Telling(req'[s])
    BY <1>2, <2>1, StartQuiet DEF Reconcile, Steps
  <2> QED BY <2>1, <2>2, QuietOnce
<1>3. ASSUME NEW h \in Slots, Crash(h) PROVE OnceInv'
  BY <1>3 DEF Crash, OnceInv, RInv, TypeOK
<1>4. CASE UNCHANGED <<job, told, crashes, req>>
  BY <1>4 DEF OnceInv, JobInv, TellerInv
<1> QED BY <1>1, <1>2, <1>3, <1>4, ContinueOnce DEF Next, ClaimForPayout, vars

\* The number of instances and of requests, webhooks and scheduler runs that ask
\* for the same sync does not matter: the conditional update to processing lets
\* one of them tell (ensureRecurringVisitRefundSync), as long as no claim
\* outlives SYNC_CLAIM_STALE_MS and no accepted call is reported as an error.
THEOREM ToldAtMostOnce ==
  ASSUME "slowClaim" \notin Faults, "taskServiceDown" \notin Faults
  PROVE  Spec => []ToldOnce
<1>1. Init => OnceInv
  BY VisitRefundsAssumption DEF Init, OnceInv, JobInv, TellerInv, Telling, Idle
<1>2. RInv /\ OnceInv /\ [Next]_vars => OnceInv'
  BY NextOnce
<1>3. OnceInv => ToldOnce
  BY DEF OnceInv, JobInv, ToldOnce
<1> QED BY <1>1, <1>2, <1>3, Safe, PTL DEF Spec
=============================================================================
