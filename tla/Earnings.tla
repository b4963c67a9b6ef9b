------------------------------ MODULE Earnings ------------------------------
(***************************************************************************)
(* The earnings a helper sees (earningsService) and the UserPaymentProfile *)
(* row that caches them (userPaymentProfileService).  The row is kept up   *)
(* to date in two ways that run beside each other: most changes of a       *)
(* payout or of a compensation add to it in the background, and reads of   *)
(* an old or missing row recalculate it from the tables.  Holds, resumes,  *)
(* deletions, late failures, line refunds and new helpers of a booking     *)
(* change the tables silently.                                             *)
(***************************************************************************)
EXTENDS Integers, FiniteSets, FiniteSetsExt

CONSTANTS
  Users,         \* accounts
  Payouts,       \* payout rows
  BookNow,       \* the payouts hidden from the partner at first
  Compensations, \* refunds that leave a part of the fee to the helper
  Owner,         \* [Payouts \cup Compensations -> Users]
  Amount,        \* [Payouts \cup Compensations -> Nat]
  Movers,        \* requests and polls that change the status of a payout
  Slots,         \* recalculations at once
  Reached,       \* the statuses payouts are given
  MaxMoves,      \* bound: changes of status in all
  Faults         \* "lostUpdate", "recalculationFails"

\* Amounts are not negative (netAmount, cancellationFee), and no row is both a
\* payout and a refund.
ASSUME EarningsAssumption ==
  /\ IsFiniteSet(Payouts) /\ IsFiniteSet(Compensations)
  /\ Payouts \cap Compensations = {} /\ BookNow \subseteq Payouts
  /\ Owner \in [Payouts \cup Compensations -> Users]
  /\ Amount \in [Payouts \cup Compensations -> Nat]
  /\ Reached \subseteq {"pending", "processing", "completed", "failed", "held"}
  /\ MaxMoves \in Nat

VARIABLES
  status,    \* [Payouts -> status of the row, or "none" before it is made, or "deleted"]
  hidden,    \* the payouts whose window has not ended (partnerVisibleAt)
  kept,      \* the compensations recorded
  uncounted, \* those no sum counts for Owner: the helper cancelled, the refund failed or
             \* was deleted, or the booking went to another helper
  profile,   \* [Users -> UserPaymentProfile, NoRow before it is made]
  updates,   \* background updates of profiles under way
  mover,     \* [Movers -> the payout and the status it read]
  moves,     \* changes of status so far
  slot,      \* [Slots -> a recalculation under way]
  reader,    \* the request for earnings under way
  drift      \* [Users -> why the updates may not add up to what a sum yields]

vars == <<status, hidden, kept, uncounted, profile, updates, mover, moves, slot, reader, drift>>
tables == <<status, hidden, kept, uncounted>>

Statuses == {"pending", "processing", "completed", "failed", "held"}
NoRow == [row |-> FALSE]
Row(paid, comp, pending) ==
  [row |-> TRUE, paid |-> paid, comp |-> comp, pending |-> pending, fresh |-> TRUE]
Idle == [step |-> "idle"]

PENDING_STATUSES == {"pending", "processing"}
Sum(S) == MapThenSumSet(LAMBDA x: Amount[x], S)

-----------------------------------------------------------------------------
(* What the tables say about an account now.                               *)

Of(u) == {p \in Payouts: Owner[p] = u}
partnerVisibleNowWhere == Payouts \ hidden
CompletedNow(u) == Sum({p \in Of(u) \cap partnerVisibleNowWhere: status[p] = "completed"})
PendingNow(u) ==
  Sum({p \in Of(u) \cap partnerVisibleNowWhere: status[p] \in PENDING_STATUSES})
CompensationNow(u) == Sum({c \in kept \ uncounted: Owner[c] = u})

Exact(u) ==
  /\ profile[u].paid = CompletedNow(u)
  /\ profile[u].comp = CompensationNow(u)
  /\ profile[u].pending = PendingNow(u)
UpdatesOf(u) == {j \in updates: Owner[j.of] = u}

\* The rows an account may start with: none, or one payout made before
\* profiles were kept.
Init ==
  /\ \E old \in SUBSET Payouts:
       /\ Cardinality(old) <= 1
       /\ status = [p \in Payouts |-> IF p \in old THEN "completed" ELSE "none"]
       /\ drift = [u \in Users |-> IF \E p \in old: Owner[p] = u THEN "moved" ELSE "none"]
       /\ hidden = BookNow \ old
  /\ kept = {} /\ uncounted = {}
  /\ profile = [u \in Users |-> NoRow]
  /\ updates = {} /\ moves = 0
  /\ mover = [m \in Movers |-> Idle]
  /\ slot = [i \in Slots |-> Idle]
  /\ reader = Idle

\* The recalculations of u under way no longer read one state of the tables.
Spoil(u) ==
  slot' = [i \in Slots |-> IF slot[i] # Idle /\ slot[i].user = u
                           THEN [slot[i] EXCEPT !.clean = FALSE] ELSE slot[i]]
Drifts(u, b) == drift' = IF b /\ drift[u] = "none" THEN [drift EXCEPT ![u] = "moved"] ELSE drift
Update(p, prev, next) ==
  [of |-> p, prev |-> prev, next |-> next, id |-> moves, step |-> "pending"]

-----------------------------------------------------------------------------
(* Payouts and compensations change: most changes hand over an update.     *)

Exists(p) == status[p] \notin {"none", "deleted"}

createPayout(p, s) ==
  /\ status[p] = "none" /\ moves < MaxMoves
  /\ status' = [status EXCEPT ![p] = s]
  /\ updates' = updates \cup {Update(p, "none", s)}
  /\ moves' = moves + 1
  /\ Spoil(Owner[p]) /\ Drifts(Owner[p], p \in hidden)
  /\ UNCHANGED <<hidden, kept, uncounted, profile, mover, reader>>

\* An operator, a poll of the bank or task-service reads a payout.
ReadPayout(m, p) ==
  /\ mover[m] = Idle /\ Exists(p) /\ moves < MaxMoves
  /\ mover' = [mover EXCEPT ![m] = [step |-> "write", payout |-> p, status |-> status[p]]]
  /\ UNCHANGED <<tables, profile, updates, moves, slot, reader, drift>>

\* It writes the status it decided on and reports the change it believes in.
updatePayoutStatus(m, s) ==
  LET r == mover[m] IN
  /\ r.step = "write" /\ Exists(r.payout) /\ moves < MaxMoves
  /\ status' = [status EXCEPT ![r.payout] = s]
  /\ updates' = updates \cup {Update(r.payout, r.status, s)}
  /\ mover' = [mover EXCEPT ![m] = Idle] /\ moves' = moves + 1
  /\ Spoil(Owner[r.payout])
  /\ Drifts(Owner[r.payout], \/ r.payout \in hidden \/ r.status # status[r.payout]
                             \/ \E j \in updates: j.of = r.payout
                             \/ (r.status = "completed" /\ s # "completed"))
  /\ UNCHANGED <<hidden, kept, uncounted, profile, reader>>

Compensate(c) ==
  /\ c \notin kept /\ moves < MaxMoves
  /\ kept' = kept \cup {c}
  /\ updates' = updates \cup {[of |-> c, id |-> moves, step |-> "earn"]}
  /\ moves' = moves + 1 /\ Spoil(Owner[c])
  /\ UNCHANGED <<status, hidden, uncounted, profile, mover, reader, drift>>

\* The window of a Book Now payout ends: nothing is told of it.
WindowEnds(p) ==
  /\ p \in hidden
  /\ hidden' = hidden \ {p}
  /\ Spoil(Owner[p]) /\ Drifts(Owner[p], status[p] \in PENDING_STATUSES \cup {"completed"})
  /\ UNCHANGED <<status, kept, uncounted, profile, updates, mover, moves, reader>>

\* A compensation of a task the helper cancelled is reported like any other,
\* and no sum counts it.
CompensateCancelling(c) ==
  /\ c \notin kept /\ moves < MaxMoves
  /\ kept' = kept \cup {c} /\ uncounted' = uncounted \cup {c}
  /\ updates' = updates \cup {[of |-> c, id |-> moves, step |-> "earn"]}
  /\ moves' = moves + 1 /\ Spoil(Owner[c]) /\ Drifts(Owner[c], TRUE)
  /\ UNCHANGED <<status, hidden, profile, mover, reader>>

-----------------------------------------------------------------------------
(* Changes of the tables no profile is told of.                            *)

Silent(x) ==
  /\ moves < MaxMoves /\ moves' = moves + 1
  /\ Spoil(Owner[x]) /\ Drifts(Owner[x], TRUE)
  /\ UNCHANGED <<profile, updates, reader>>

\* The mover gives the payout it read another status, and shows or hides it.
Rewrites(m, s, unseenNow) ==
  LET p == mover[m].payout IN
  /\ mover[m].step = "write" /\ Exists(p)
  /\ status' = [status EXCEPT ![p] = s] /\ hidden' = unseenNow
  /\ mover' = [mover EXCEPT ![m] = Idle]
  /\ Silent(p) /\ UNCHANGED <<kept, uncounted>>

\* A customer raised an issue: the payout is held, and has no window.
holdBookNowTaskPayouts(m) ==
  LET r == mover[m] IN
  /\ r.step = "write" /\ r.payout \in BookNow
  /\ r.status \in PENDING_STATUSES \cup {"completed"}
  /\ Rewrites(m, "held", hidden \ {r.payout})

\* An operator holds or freezes a payout.
holdPayout(m) == Rewrites(m, "held", hidden)

\* The task is completed again: the held payout goes on, in a fresh window.
ResumesHeldPayout(m, s) ==
  LET r == mover[m] IN
  /\ r.step = "write" /\ r.status = "held" /\ s \in PENDING_STATUSES
  /\ Rewrites(m, s, hidden \cup {r.payout})

\* An operator deletes a payout; a write to it fails then.
deletePayout(m) == Rewrites(m, "deleted", hidden)
WriteFails(m) ==
  /\ mover[m].step = "write" /\ ~Exists(mover[m].payout)
  /\ mover' = [mover EXCEPT ![m] = Idle]
  /\ UNCHANGED <<tables, profile, updates, moves, slot, reader, drift>>

\* The bank took the payout, and what follows its transaction fails.
processPayoutFails(m) ==
  /\ mover[m].step = "write" /\ mover[m].status = "completed"
  /\ Rewrites(m, "failed", hidden)

\* A compensation comes to count for its helper: a line of a booking is refunded
\* (processBookNowLineItemRefund), or the booking of one is given to the helper
\* (attachPerformerToEscrow).
CompensationJoins(c) ==
  /\ c \notin kept /\ kept' = kept \cup {c}
  /\ Silent(c) /\ UNCHANGED <<status, hidden, uncounted, mover>>

\* It no longer does: the bank could not return the money after all
\* (updateRefundRecordFromRazorpayWebhook), an operator deletes the refund, or the
\* booking is given to another helper.
CompensationDrops(c) ==
  /\ c \in kept \ uncounted /\ uncounted' = uncounted \cup {c}
  /\ Silent(c) /\ UNCHANGED <<status, hidden, kept, mover>>

-----------------------------------------------------------------------------
(* An update adds to the profile, in statements of their own.              *)

Increments(u, row) ==
  /\ profile' = [profile EXCEPT ![u] = row]
  /\ Spoil(u)
  /\ UNCHANGED <<tables, mover, moves, reader, drift>>
Goes(j, next) == updates' = (updates \ {j}) \cup {[j EXCEPT !.step = step]: step \in next}
\* Wrong on purpose: a payout set to completed again counts again.
BecameCompleted_Again(j) == j.next = "completed"
BecameCompleted(j) == j.next = "completed" /\ j.prev # "completed"

\* The pending sum, when the change enters or leaves it.
applyPendingToProfile(j) ==
  LET u == Owner[j.of]
      was == j.prev \in PENDING_STATUSES
      is == j.next \in PENDING_STATUSES
      row == profile[u]
  IN /\ j.step = "pending"
     /\ IF was = is THEN Increments(u, row)
        ELSE IF ~row.row THEN Increments(u, Row(0, 0, IF is THEN Amount[j.of] ELSE 0))
        ELSE Increments(u, [row EXCEPT !.pending = IF is THEN @ + Amount[j.of] ELSE @ - Amount[j.of],
                                       !.fresh = TRUE])
     /\ Goes(j, IF was /\ ~is THEN {"clamp"} ELSE IF BecameCompleted(j) THEN {"earn"} ELSE {})

\* Wrong on purpose: a negative sum is left as it is.
clampPending_Skipped(j) ==
  /\ j.step = "clamp" /\ Increments(Owner[j.of], profile[Owner[j.of]])
  /\ Goes(j, IF BecameCompleted(j) THEN {"earn"} ELSE {})
clampPending(j) ==
  LET u == Owner[j.of] IN
  /\ j.step = "clamp"
  /\ Increments(u, IF profile[u].row /\ profile[u].pending < 0
                   THEN [profile[u] EXCEPT !.pending = 0] ELSE profile[u])
  /\ Goes(j, IF BecameCompleted(j) THEN {"earn"} ELSE {})

\* A payout became completed, or a compensation was kept.
updateUserPaymentProfile(j) ==
  LET u == Owner[j.of]
      paid == IF j.of \in Payouts THEN Amount[j.of] ELSE 0
      comp == IF j.of \in Payouts THEN 0 ELSE Amount[j.of]
      row == profile[u]
  IN /\ j.step = "earn"
     /\ IF ~row.row THEN Increments(u, Row(paid, comp, 0))
        ELSE Increments(u, [row EXCEPT !.paid = @ + paid, !.comp = @ + comp, !.fresh = TRUE])
     /\ Goes(j, {})

\* The statement fails, or the instance stops before it.
LoseUpdate(j) ==
  /\ "lostUpdate" \in Faults
  /\ updates' = updates \ {j}
  /\ drift' = [drift EXCEPT ![Owner[j.of]] = "lost"]
  /\ UNCHANGED <<tables, profile, mover, moves, slot, reader>>

-----------------------------------------------------------------------------
(* A recalculation reads the sums, then writes the row.                    *)

Unread == -1
Starts(u, for) ==
  [step |-> "sums", user |-> u, paid |-> Unread, comp |-> Unread, pending |-> Unread,
   for |-> for, clean |-> UpdatesOf(u) = {}]

\* A recalculation starts beside those under way, or fails at once.
scheduleEarningsRecalc(u) ==
  \/ \E i \in Slots: slot[i] = Idle /\ slot' = [slot EXCEPT ![i] = Starts(u, "background")]
  \/ "recalculationFails" \in Faults /\ UNCHANGED slot

\* The sums are queries of their own, answered in any order.
ReadSum(i, field) ==
  /\ slot[i].step = "sums" /\ slot[i][field] = Unread
  /\ slot' = [slot EXCEPT ![i][field] =
                CASE field = "paid" -> CompletedNow(slot[i].user)
                  [] field = "comp" -> CompensationNow(slot[i].user)
                  [] field = "pending" -> PendingNow(slot[i].user)]
  /\ UNCHANGED <<tables, profile, updates, mover, moves, reader, drift>>

\* Wrong on purpose: only the payouts are awaited.
Summed_NotAwaited(r) == r.step = "sums" /\ r.paid # Unread
Summed(r) == r.step = "sums" /\ Unread \notin {r.paid, r.comp, r.pending}
Resumes(i, step) ==
  IF slot[i].for = "reader" THEN reader' = [reader EXCEPT !.step = step] ELSE UNCHANGED reader

recalculateUserEarningsProfile(i) ==
  LET r == slot[i] IN
  /\ Summed(r)
  /\ profile' = [profile EXCEPT ![r.user] = Row(r.paid, r.comp, r.pending)]
  /\ drift' = [drift EXCEPT ![r.user] = IF r.clean THEN "none" ELSE "moved"]
  /\ slot' = [slot EXCEPT ![i] = Idle] /\ Resumes(i, "again")
  /\ UNCHANGED <<tables, updates, mover, moves>>

RecalculationFails(i) ==
  /\ "recalculationFails" \in Faults /\ Summed(slot[i])
  /\ slot' = [slot EXCEPT ![i] = Idle] /\ Resumes(i, "live")
  /\ UNCHANGED <<tables, profile, updates, mover, moves, drift>>

\* PROFILE_STALE_MS pass since the row was written.
Ages(u) ==
  /\ profile[u].row /\ profile[u].fresh
  /\ profile' = [profile EXCEPT ![u].fresh = FALSE]
  /\ UNCHANGED <<tables, updates, mover, moves, slot, reader, drift>>

-----------------------------------------------------------------------------
(* A request for the earnings of an account.                               *)

\* Wrong on purpose: a row never gets old.
isUsable_Forever(row) == row.row
isUsable(row) == row.row /\ row.fresh
Reads(r) == reader' = r /\ UNCHANGED <<tables, profile, updates, mover, moves, drift>>
Serve(u) ==
  IF isUsable(profile[u])
  THEN [step |-> "overlay", user |-> u, row |-> profile[u], drift |-> drift[u]]
  ELSE [step |-> "live", user |-> u]
\* Wrong on purpose: the pending payouts are added to the cached ones.
Shown_OnTop(r) == [earned |-> r.row.paid + r.row.comp, pending |-> r.row.pending + PendingNow(r.user)]
\* What a request answers from the row it read and the payouts pending now.
Shown(r) == [earned |-> r.row.paid + r.row.comp, pending |-> PendingNow(r.user)]

\* A missing or old row is recalculated first, and read again.
getUserEarnings(u) ==
  /\ reader = Idle
  /\ \/ isUsable(profile[u]) /\ Reads(Serve(u)) /\ UNCHANGED slot
     \/ \E i \in Slots:
          /\ slot[i] = Idle /\ ~isUsable(profile[u])
          /\ Reads([step |-> "recalculate", user |-> u])
          /\ slot' = [slot EXCEPT ![i] = Starts(u, "reader")]

FindAgain == reader.step = "again" /\ Reads(Serve(reader.user)) /\ UNCHANGED slot

\* The earnings are the answer, or the statistics are wanted as well.
Answers == Reads(Idle) \/ Reads([step |-> "stats", user |-> reader.user])

\* The cached totals, with the payouts that are pending now; a difference to
\* the cached ones starts a recalculation.
withLivePending ==
  /\ reader.step = "overlay"
  /\ Answers
  /\ IF Shown(reader).pending = reader.row.pending THEN UNCHANGED slot
     ELSE scheduleEarningsRecalc(reader.user)

\* Without a usable row everything is summed now, and the rows are recalculated.
liveAggregateFallback ==
  /\ reader.step = "live"
  /\ Answers
  /\ scheduleEarningsRecalc(reader.user)

\* The statistics come from the row as it is now, however old.
getEarningsStats ==
  /\ reader.step = "stats"
  /\ Reads(Idle)
  /\ IF isUsable(profile[reader.user]) THEN UNCHANGED slot
     ELSE scheduleEarningsRecalc(reader.user)

-----------------------------------------------------------------------------
TablesChange ==
  \/ \E p \in Payouts, s \in Reached: createPayout(p, s)
  \/ \E m \in Movers, p \in Payouts: ReadPayout(m, p)
  \/ \E m \in Movers, s \in Reached: updatePayoutStatus(m, s)
  \/ \E c \in Compensations: Compensate(c)
  \/ \E p \in Payouts: WindowEnds(p)
SilentChange ==
  \/ \E c \in Compensations:
       CompensateCancelling(c) \/ CompensationJoins(c) \/ CompensationDrops(c)
  \/ \E m \in Movers:
       \/ holdBookNowTaskPayouts(m) \/ holdPayout(m) \/ deletePayout(m) \/ processPayoutFails(m)
       \/ WriteFails(m)
  \/ \E m \in Movers, s \in Reached: ResumesHeldPayout(m, s)
Background ==
  \/ \E j \in updates: applyPendingToProfile(j) \/ clampPending(j) \/ updateUserPaymentProfile(j)
  \/ \E i \in Slots, f \in {"paid", "comp", "pending"}: ReadSum(i, f)
  \/ \E i \in Slots: recalculateUserEarningsProfile(i)
Answering == FindAgain \/ withLivePending \/ liveAggregateFallback \/ getEarningsStats
Disturbances ==
  \/ \E j \in updates: LoseUpdate(j)
  \/ \E i \in Slots: RecalculationFails(i)

Next ==
  \/ TablesChange \/ SilentChange \/ Background \/ Answering \/ Disturbances
  \/ \E u \in Users: getUserEarnings(u)
  \/ \E u \in Users: Ages(u)
Spec == Init /\ [][Next]_vars

\* Background work and requests run on, time passes, every account is asked
\* about again and again, and a recalculation does not fail for ever.
FairSpec ==
  /\ Spec /\ WF_vars(Background) /\ WF_vars(Answering)
  /\ \A u \in Users:
       SF_vars(\E i \in Slots: slot[i] # Idle /\ slot[i].user = u /\ recalculateUserEarningsProfile(i))
  /\ \A u \in Users: WF_vars(Ages(u)) /\ SF_vars(getUserEarnings(u))

-----------------------------------------------------------------------------
(* Properties.                                                             *)

TypeOK ==
  /\ status \in [Payouts -> Statuses \cup {"none", "deleted"}]
  /\ hidden \subseteq Payouts /\ uncounted \subseteq kept /\ kept \subseteq Compensations
  /\ \A u \in Users: profile[u] = NoRow \/ (profile[u].paid >= 0 /\ profile[u].comp >= 0)
  /\ \A j \in updates: j.step \in {"pending", "clamp", "earn"}
  /\ moves \in 0 .. MaxMoves
  /\ \A i \in Slots: slot[i].step \in {"idle", "sums"}
  /\ reader.step \in {"idle", "recalculate", "again", "overlay", "live", "stats"}
  /\ drift \in [Users -> {"none", "moved", "lost"}]

\* The two ways of keeping the row agree where the code reports its changes: once
\* the updates of an account have run, its row says what the tables say, unless
\* since its last undisturbed recalculation an update was lost, came from a status
\* read too early or met another of its payout, a completed payout left that
\* status, a hidden one was counted or a recalculation overlapped a change, or a
\* change was silent: a hold, a resume, a deletion, a payout or a refund that failed
\* after all, a line refund, another helper of the booking, or a fee of a cancelling
\* helper that is reported and not summed.
UpdatesAgreeWithSums ==
  \A u \in Users: profile[u].row /\ UpdatesOf(u) = {} /\ drift[u] = "none" => Exact(u)

\* A payout is not shown as earned and as pending at once ("the Overview never
\* shows a payout as Processing after it completed"), when served from the row.
ShownOnce ==
  LET u == reader.user IN
  (reader.step = "overlay" /\ reader.drift = "none" /\ drift[u] = "none") =>
    Shown(reader).earned + Shown(reader).pending <=
      Sum({p \in Of(u): status[p] # "none"}) + CompensationNow(u)

\* The pending sum of a row is negative only while an update is about to raise it,
\* where no update was lost.
PendingNotNegative ==
  \A u \in Users: profile[u].row /\ profile[u].pending < 0 =>
    drift[u] = "lost" \/ \E j \in UpdatesOf(u): j.step = "clamp"

\* However many updates were missed, the row comes to say what the tables say
\* ("self-healing even if an incremental update was missed").
SelfHeals == <>[](\A u \in Users: profile[u].row => Exact(u))

\* What holds of an account's row at every moment, with the faults that excuse it.
RowInv == TypeOK /\ UpdatesAgreeWithSums /\ ShownOnce /\ PendingNotNegative
=============================================================================
