--------------------------- MODULE Earnings_proofs ---------------------------
(***************************************************************************)
(* The row of an account says what the tables say once its updates have    *)
(* run, unless something it is excused for disturbed it, and what is shown *)
(* of it counts no payout twice: for any number of accounts, payouts,      *)
(* movers, recalculations and amounts.  An answer of the history of        *)
(* transactions lists nothing twice, no payout held back and, on one page, *)
(* each other payout: whatever moves between its queries.  Its summary     *)
(* adds up to the list.                                                    *)
(*                                                                         *)
(*   RowRight              Spec => []RowInv                                *)
(*   HistorySound          HistorySpec => []HistoryInv                     *)
(*   HistoryShowsPayouts   HistorySpec => []PayoutsShown                   *)
(*   HistorySummaryAgrees  HistorySpec => []SummaryAgrees                  *)
(***************************************************************************)
EXTENDS Earnings, TransactionHistory, FiniteSums, TLAPS

Items == Payouts \cup Compensations

-----------------------------------------------------------------------------
(* Sums of amounts                                                         *)

\* The rows an account's sums are over, and any of them, are finitely many.
LEMMA ItemsFinite == IsFiniteSet(Items) /\ \A S \in SUBSET Items : IsFiniteSet(S)
<1>1. IsFiniteSet(Items)
  BY FS_Union, EarningsAssumption DEF Items
<1> QED BY <1>1, FS_Subset

LEMMA AmountNat == \A x \in Items : Amount[x] \in Nat /\ Amount[x] \in Int /\ Amount[x] >= 0
BY EarningsAssumption DEF Items

\* The fold Earnings uses is SumOver.
LEMMA SumIs == ASSUME NEW S \in SUBSET Items PROVE Sum(S) = SumOver(Amount, S)
<1> DEFINE
      Body(iter) == [s \in SUBSET S |->
                       IF s = {} THEN 0
                       ELSE Amount[CHOOSE x \in s : TRUE] + iter[s \ {CHOOSE x \in s : TRUE}]]
      fold == CHOOSE iter : iter = Body(iter)
<1>1. Sum(S) = fold[S]
  BY DEF Sum, MapThenSumSet, MapThenFoldSet
<1>2. \A g : g = Body(g) <=> Sums(g, Amount, S)
  BY DEF Sums, Pick
<1>3. fold = Body(fold)
  <2>1. \E g : g = Body(g)
    <3>1. PICK g : Sums(g, Amount, S)
      BY SumsExist, ItemsFinite
    <3> HIDE DEF Body
    <3> QED BY <1>2, <3>1
  <2> HIDE DEF Body
  <2> QED BY <2>1
<1> HIDE DEF fold, Body
<1>4. Sums(fold, Amount, S)
  BY <1>2, <1>3
<1> QED BY <1>1, <1>4, SumsGive, ItemsFinite

\* A sum of amounts is an amount.
LEMMA SumTyped == ASSUME NEW S \in SUBSET Items PROVE Sum(S) \in Nat
<1>1. \A x \in S : Amount[x] \in Nat
  BY AmountNat
<1> QED BY <1>1, SumIs, SumNat, ItemsFinite

LEMMA SumNone == Sum({}) = 0
BY SumIs, SumEmpty

\* A sum is one amount and the sum of the others.
LEMMA SumWithout ==
  ASSUME NEW S \in SUBSET Items, NEW x \in S
  PROVE  Sum(S) = Sum(S \ {x}) + Amount[x]
<1>1. \A y \in S : Amount[y] \in Int
  BY AmountNat
<1>2. SumOver(Amount, S) = Amount[x] + SumOver(Amount, S \ {x})
  BY <1>1, SumAdd, ItemsFinite
<1>3. S \ {x} \in SUBSET Items
  OBVIOUS
<1>4. Sum(S) = Amount[x] + Sum(S \ {x})
  BY <1>2, <1>3, SumIs
<1>5. Amount[x] \in Nat /\ Sum(S \ {x}) \in Nat
  BY <1>3, AmountNat, SumTyped
<1> QED BY <1>4, <1>5

\* A set and the rest of a larger one sum up to the sum over that one.
LEMMA SumSplit ==
  ASSUME NEW T \in SUBSET Items, NEW S \in SUBSET T
  PROVE  Sum(T) = Sum(S) + Sum(T \ S)
<1> DEFINE Bad == {s \in SUBSET T : Sum(T) # Sum(s) + Sum(T \ s)}
<1>1. SUFFICES ASSUME Bad # {} PROVE FALSE
  OBVIOUS
<1>2. PICK s \in Bad : \A t \in Bad : t \subseteq s => t = s
  <2>1. Bad \subseteq SUBSET T
    OBVIOUS
  <2> HIDE DEF Bad
  <2> QED BY <1>1, <2>1, SmallestMember, ItemsFinite
<1>3. s # {}
  <2>1. T \ {} = T /\ Sum(T) \in Nat
    BY SumTyped
  <2> QED BY <2>1, SumNone
<1>4. PICK x : x \in s
  BY <1>3
<1>5. Sum(T) = Sum(s \ {x}) + Sum(T \ (s \ {x}))
  <2>1. s \ {x} \in SUBSET T /\ s \ {x} \subseteq s /\ s \ {x} # s
    BY <1>4
  <2> QED BY <1>2, <2>1
<1>6. Sum(s) = Sum(s \ {x}) + Amount[x]
  BY <1>4, SumWithout
<1>7. Sum(T \ (s \ {x})) = Sum(T \ s) + Amount[x]
  <2>1. x \in T \ (s \ {x}) /\ (T \ (s \ {x})) \ {x} = T \ s
    BY <1>4
  <2> QED BY <2>1, SumWithout
<1>8. Sum(s \ {x}) \in Nat /\ Sum(T \ s) \in Nat /\ Amount[x] \in Nat
  BY <1>4, SumTyped, AmountNat
<1> QED BY <1>5, <1>6, <1>7, <1>8

\* A larger set has no smaller sum.
LEMMA SumGrows ==
  ASSUME NEW T \in SUBSET Items, NEW S \in SUBSET T
  PROVE  Sum(S) <= Sum(T)
<1>1. S \in SUBSET Items /\ T \ S \in SUBSET Items
  OBVIOUS
<1>2. Sum(S) \in Nat /\ Sum(T \ S) \in Nat
  BY <1>1, SumTyped
<1>3. Sum(T) = Sum(S) + Sum(T \ S)
  BY SumSplit
<1> QED BY <1>2, <1>3

-----------------------------------------------------------------------------
(* The inductive invariant                                                 *)

Kinds == Statuses \cup {"none", "deleted"}
Drift == {"none", "moved", "lost"}

PayoutUpdates ==
  [of: Payouts, prev: Kinds, next: Statuses, id: Nat, step: {"pending", "clamp", "earn"}]
CompensationUpdates == [of: Compensations, id: Nat, step: {"earn"}]
Rows == [row: {TRUE}, paid: Nat, comp: Nat, pending: Int, fresh: BOOLEAN]
Sums0 == Nat \cup {Unread}
Recalculations ==
  [step: {"sums"}, user: Users, paid: Sums0, comp: Sums0, pending: Sums0,
   for: {"background", "reader"}, clean: BOOLEAN]
Writes == [step: {"write"}, payout: Payouts, status: Statuses]
Asked == [step: {"recalculate", "again", "live", "stats"}, user: Users]
Overlays == [step: {"overlay"}, user: Users, row: Rows, drift: Drift]

Shaped ==
  /\ status \in [Payouts -> Kinds]
  /\ hidden \subseteq Payouts /\ uncounted \subseteq kept /\ kept \subseteq Compensations
  /\ profile \in [Users -> Rows \cup {NoRow}]
  /\ updates \subseteq PayoutUpdates \cup CompensationUpdates
  /\ mover \in [Movers -> Writes \cup {Idle}]
  /\ moves \in 0 .. MaxMoves
  /\ slot \in [Slots -> Recalculations \cup {Idle}]
  /\ reader \in Asked \cup Overlays \cup {Idle}
  /\ drift \in [Users -> Drift]

\* The request that waits for a recalculation is the one it runs for.
ForReader(r) == r.step = "sums" /\ r.for = "reader"
Awaited ==
  /\ \A i \in Slots: ForReader(slot[i]) => reader.step = "recalculate"
  /\ \A i, k \in Slots: ForReader(slot[i]) /\ ForReader(slot[k]) => i = k

\* What an update under way is about was recorded, and updates are told apart.
Recorded ==
  /\ \A j \in updates: j.id < moves
  /\ \A j, k \in updates: j.id = k.id => j = k
  /\ \A j \in updates: j.of \in Payouts =>
       status[j.of] # "none" /\ (j.step = "earn" => BecameCompleted(j))
  /\ \A j \in updates: j.of \in Compensations => j.of \in kept

\* Of an item no update misreports: it has one at most, which tells what the
\* tables say.
ItemInStep(x) ==
  /\ \A j, k \in updates: j.of = x /\ k.of = x => j = k
  /\ x \in Payouts => \A j \in updates: j.of = x => x \notin hidden /\ j.next = status[x]
  /\ x \in Compensations => \A j \in updates: j.of = x => x \notin uncounted

\* What an account's row counts of an item: the status its update has not yet
\* replaced, and earnings once their update has run.
Entering(p) == \E j \in updates: j.of = p /\ j.step = "pending"
CountsPending(p) ==
  /\ p \notin hidden
  /\ IF Entering(p)
     THEN \E j \in updates: j.of = p /\ j.step = "pending" /\ j.prev \in PENDING_STATUSES
     ELSE status[p] \in PENDING_STATUSES
CountsPaid(p) ==
  /\ p \notin hidden /\ status[p] = "completed"
  /\ \A j \in updates: j.of = p => ~BecameCompleted(j)
CountsComp(c) == c \in kept /\ c \notin uncounted /\ \A j \in updates: j.of # c

PendingCounted(u) == {p \in Payouts: Owner[p] = u /\ CountsPending(p)}
PaidCounted(u) == {p \in Payouts: Owner[p] = u /\ CountsPaid(p)}
CompCounted(u) == {c \in Compensations: Owner[c] = u /\ CountsComp(c)}

PaidIn(row) == IF row.row THEN row.paid ELSE 0
CompIn(row) == IF row.row THEN row.comp ELSE 0
PendingIn(row) == IF row.row THEN row.pending ELSE 0

Counted(u) ==
  /\ PaidIn(profile[u]) = Sum(PaidCounted(u))
  /\ CompIn(profile[u]) = Sum(CompCounted(u))
  /\ PendingIn(profile[u]) = Sum(PendingCounted(u))
InStep(u) == \A x \in Items: Owner[x] = u => ItemInStep(x)

\* An account nothing disturbed has updates that report the tables as they are,
\* one an item, and a row that counts what they have brought to it.
BooksOf(u) == drift[u] = "none" => InStep(u) /\ Counted(u)
Books == \A u \in Users: BooksOf(u)

\* A recalculation that nothing disturbed read the tables as they are.
ReadsNow(r) ==
  /\ UpdatesOf(r.user) = {}
  /\ r.paid # Unread => r.paid = CompletedNow(r.user)
  /\ r.comp # Unread => r.comp = CompensationNow(r.user)
  /\ r.pending # Unread => r.pending = PendingNow(r.user)
Clean(i) == slot[i].step = "sums" /\ slot[i].clean
CleanInv == \A i \in Slots: Clean(i) => ReadsNow(slot[i])

\* What a request is about to show of an account's row is earned still, or the
\* account drifted and no recalculation under way can clear it.
RowBelow ==
  reader.row.paid <= CompletedNow(reader.user) /\ reader.row.comp <= CompensationNow(reader.user)
Disturbed(u) ==
  drift[u] # "none" /\ \A i \in Slots: Clean(i) => slot[i].user # u
OverlayInv ==
  reader.step = "overlay" /\ reader.drift = "none" => RowBelow \/ Disturbed(reader.user)

EInv ==
  /\ Shaped /\ Awaited /\ Recorded
  /\ Books /\ CleanInv /\ OverlayInv /\ PendingNotNegative
-----------------------------------------------------------------------------
(* A step is about one item                                                *)

\* Nothing changes of other items and their updates.
Touches(x) ==
  /\ \A j \in updates: j.of # x => j \in updates'
  /\ \A j \in updates': j.of # x => j \in updates
  /\ \A p \in Payouts \ {x}: status'[p] = status[p] /\ (p \in hidden' <=> p \in hidden)
  /\ \A c \in Compensations \ {x}:
       (c \in kept' <=> c \in kept) /\ (c \in uncounted' <=> c \in uncounted)

\* What the sums of the tables add up.
CompletedSet(u) ==
  {p \in Payouts: Owner[p] = u /\ p \notin hidden /\ status[p] = "completed"}
PendingSet(u) ==
  {p \in Payouts: Owner[p] = u /\ p \notin hidden /\ status[p] \in PENDING_STATUSES}
CompensationSet(u) ==
  {c \in Compensations: Owner[c] = u /\ c \in kept /\ c \notin uncounted}

\* The sums of the tables, over sets that name their items.
LEMMA NowSums ==
  ASSUME Shaped, NEW u
  PROVE  /\ CompletedNow(u) = Sum(CompletedSet(u))
         /\ PendingNow(u) = Sum(PendingSet(u))
         /\ CompensationNow(u) = Sum(CompensationSet(u))
<1>1. {p \in Of(u) \cap partnerVisibleNowWhere: status[p] = "completed"} = CompletedSet(u)
  BY DEF Of, partnerVisibleNowWhere, CompletedSet
<1>2. {p \in Of(u) \cap partnerVisibleNowWhere: status[p] \in PENDING_STATUSES} = PendingSet(u)
  BY DEF Of, partnerVisibleNowWhere, PendingSet
<1>3. {c \in kept \ uncounted: Owner[c] = u} = CompensationSet(u)
  BY DEF Shaped, CompensationSet
<1> QED BY <1>1, <1>2, <1>3 DEF CompletedNow, PendingNow, CompensationNow

\* What a row counts and what the sums add up are items.
LEMMA AllItems ==
  ASSUME NEW u
  PROVE  /\ CompletedSet(u) \in SUBSET Items /\ PendingSet(u) \in SUBSET Items
         /\ CompensationSet(u) \in SUBSET Items
         /\ PendingCounted(u) \in SUBSET Items /\ PaidCounted(u) \in SUBSET Items
         /\ CompCounted(u) \in SUBSET Items
BY DEF CompletedSet, PendingSet, CompensationSet, PendingCounted, PaidCounted, CompCounted, Items

LEMMA NowTyped ==
  ASSUME Shaped, NEW u
  PROVE  CompletedNow(u) \in Nat /\ PendingNow(u) \in Nat /\ CompensationNow(u) \in Nat
BY NowSums, AllItems, SumTyped

\* Other items are reported and counted as before.
LEMMA ItemKept ==
  ASSUME NEW x, Touches(x), NEW y \in Items \ {x}
  PROVE  /\ ItemInStep(y)' <=> ItemInStep(y)
         /\ y \in Payouts => (CountsPending(y)' <=> CountsPending(y))
         /\ y \in Payouts => (CountsPaid(y)' <=> CountsPaid(y))
         /\ y \in Compensations => (CountsComp(y)' <=> CountsComp(y))
<1>1. /\ \A j \in updates : j.of = y => j \in updates'
      /\ \A j \in updates' : j.of = y => j \in updates
  BY DEF Touches
<1>2. y \in Payouts => status'[y] = status[y] /\ (y \in hidden' <=> y \in hidden)
  BY DEF Touches
<1>3. y \in Compensations =>
        (y \in kept' <=> y \in kept) /\ (y \in uncounted' <=> y \in uncounted)
  BY DEF Touches
<1>4. ItemInStep(y)' <=> ItemInStep(y)
  <2>1. ItemInStep(y) => ItemInStep(y)'
    BY <1>1, <1>2, <1>3 DEF ItemInStep
  <2>2. ItemInStep(y)' => ItemInStep(y)
    BY <1>1, <1>2, <1>3 DEF ItemInStep
  <2> QED BY <2>1, <2>2
<1>5. y \in Payouts => (CountsPending(y)' <=> CountsPending(y))
  <2>1. Entering(y)' <=> Entering(y)
    BY <1>1 DEF Entering
  <2>2. (\E j \in updates' : j.of = y /\ j.step = "pending" /\ j.prev \in PENDING_STATUSES)
          <=> (\E j \in updates : j.of = y /\ j.step = "pending" /\ j.prev \in PENDING_STATUSES)
    BY <1>1
  <2> QED BY <1>2, <2>1, <2>2 DEF CountsPending
<1>6. y \in Payouts => (CountsPaid(y)' <=> CountsPaid(y))
  BY <1>1, <1>2 DEF CountsPaid, BecameCompleted
<1>7. y \in Compensations => (CountsComp(y)' <=> CountsComp(y))
  BY <1>1, <1>3 DEF CountsComp
<1> QED BY <1>4, <1>5, <1>6, <1>7

\* Of any account the sets change by the item at most.
LEMMA OthersKept ==
  ASSUME NEW x, Touches(x), NEW u
  PROVE  /\ CompletedSet(u)' \ {x} = CompletedSet(u) \ {x}
         /\ PendingSet(u)' \ {x} = PendingSet(u) \ {x}
         /\ CompensationSet(u)' \ {x} = CompensationSet(u) \ {x}
         /\ PendingCounted(u)' \ {x} = PendingCounted(u) \ {x}
         /\ PaidCounted(u)' \ {x} = PaidCounted(u) \ {x}
         /\ CompCounted(u)' \ {x} = CompCounted(u) \ {x}
<1>1. CompletedSet(u)' \ {x} = CompletedSet(u) \ {x}
  BY DEF Touches, CompletedSet
<1>2. PendingSet(u)' \ {x} = PendingSet(u) \ {x}
  BY DEF Touches, PendingSet
<1>3. CompensationSet(u)' \ {x} = CompensationSet(u) \ {x}
  BY DEF Touches, CompensationSet
<1>4. /\ \A y \in Payouts \ {x} : CountsPending(y)' <=> CountsPending(y)
      /\ \A y \in Payouts \ {x} : CountsPaid(y)' <=> CountsPaid(y)
  BY ItemKept DEF Items
<1>5. \A y \in Compensations \ {x} : CountsComp(y)' <=> CountsComp(y)
  BY ItemKept DEF Items
<1>6. PendingCounted(u)' \ {x} = PendingCounted(u) \ {x}
  BY <1>4 DEF PendingCounted
<1>7. PaidCounted(u)' \ {x} = PaidCounted(u) \ {x}
  BY <1>4 DEF PaidCounted
<1>8. CompCounted(u)' \ {x} = CompCounted(u) \ {x}
  BY <1>5 DEF CompCounted
<1> QED BY <1>1, <1>2, <1>3, <1>6, <1>7, <1>8

\* Nothing changes of the other accounts.
LEMMA AccountKept ==
  ASSUME Shaped, Shaped', NEW x \in Items, Touches(x), NEW u, Owner[x] # u
  PROVE  /\ UpdatesOf(u)' = UpdatesOf(u)
         /\ CompletedNow(u)' = CompletedNow(u)
         /\ PendingNow(u)' = PendingNow(u)
         /\ CompensationNow(u)' = CompensationNow(u)
         /\ PendingCounted(u)' = PendingCounted(u)
         /\ PaidCounted(u)' = PaidCounted(u)
         /\ CompCounted(u)' = CompCounted(u)
         /\ InStep(u) => InStep(u)'
<1>1. UpdatesOf(u)' = UpdatesOf(u)
  BY DEF Touches, UpdatesOf
<1>2. /\ x \notin CompletedSet(u)' /\ x \notin CompletedSet(u)
      /\ x \notin PendingSet(u)' /\ x \notin PendingSet(u)
      /\ x \notin CompensationSet(u)' /\ x \notin CompensationSet(u)
      /\ x \notin PendingCounted(u)' /\ x \notin PendingCounted(u)
      /\ x \notin PaidCounted(u)' /\ x \notin PaidCounted(u)
      /\ x \notin CompCounted(u)' /\ x \notin CompCounted(u)
  BY DEF CompletedSet, PendingSet, CompensationSet, PendingCounted, PaidCounted, CompCounted
<1>3. /\ CompletedSet(u)' = CompletedSet(u) /\ PendingSet(u)' = PendingSet(u)
      /\ CompensationSet(u)' = CompensationSet(u)
  BY <1>2, OthersKept
<1>4. /\ PendingCounted(u)' = PendingCounted(u) /\ PaidCounted(u)' = PaidCounted(u)
      /\ CompCounted(u)' = CompCounted(u)
  BY <1>2, OthersKept
<1>5. /\ CompletedNow(u)' = Sum(CompletedSet(u)') /\ PendingNow(u)' = Sum(PendingSet(u)')
      /\ CompensationNow(u)' = Sum(CompensationSet(u)')
  <2>1. /\ {p \in Of(u) \cap partnerVisibleNowWhere: status[p] = "completed"}' = CompletedSet(u)'
        /\ {p \in Of(u) \cap partnerVisibleNowWhere: status[p] \in PENDING_STATUSES}'
             = PendingSet(u)'
        /\ {c \in kept \ uncounted: Owner[c] = u}' = CompensationSet(u)'
    BY DEF Of, partnerVisibleNowWhere, CompletedSet, PendingSet, CompensationSet, Shaped
  <2> QED BY <2>1 DEF CompletedNow, PendingNow, CompensationNow
<1>6. /\ CompletedNow(u) = Sum(CompletedSet(u)) /\ PendingNow(u) = Sum(PendingSet(u))
      /\ CompensationNow(u) = Sum(CompensationSet(u))
  BY NowSums
<1>7. InStep(u) => InStep(u)'
  BY ItemKept DEF InStep
<1> QED BY <1>1, <1>3, <1>4, <1>5, <1>6, <1>7

-----------------------------------------------------------------------------
(* What a step about an item does to the accounts                          *)

Gained(b, x) == IF b THEN Amount[x] ELSE 0

\* A set that gains or loses one item changes its sum by that amount.
LEMMA SumMoves ==
  ASSUME NEW S \in SUBSET Items, NEW T \in SUBSET Items, NEW x \in Items, T \ {x} = S \ {x}
  PROVE  Sum(T) = Sum(S) + Gained(x \in T, x) - Gained(x \in S, x)
<1> DEFINE R == S \ {x}
<1>1. R \in SUBSET Items /\ Sum(R) \in Nat /\ Amount[x] \in Nat
  BY SumTyped, AmountNat
<1>2. Sum(S) = Sum(R) + Gained(x \in S, x)
  <2>1. CASE x \in S
    BY <2>1, SumWithout DEF Gained
  <2>2. CASE x \notin S
    <3>1. Sum(R) = Sum(S)
      <4>1. R = S
        BY <2>2
      <4> HIDE DEF R
      <4> QED BY <4>1
    <3>2. Gained(x \in S, x) = 0
      BY <2>2 DEF Gained
    <3> QED BY <3>1, <3>2, <1>1
  <2> QED BY <2>1, <2>2
<1>3. Sum(T) = Sum(R) + Gained(x \in T, x)
  <2>1. CASE x \in T
    BY <2>1, SumWithout DEF Gained
  <2>2. CASE x \notin T
    <3>1. Sum(R) = Sum(T)
      <4>1. R = T
        BY <2>2
      <4> HIDE DEF R
      <4> QED BY <4>1
    <3>2. Gained(x \in T, x) = 0
      BY <2>2 DEF Gained
    <3> QED BY <3>1, <3>2, <1>1
  <2> QED BY <2>1, <2>2
<1>4. Gained(x \in T, x) \in Nat /\ Gained(x \in S, x) \in Nat
  BY <1>1 DEF Gained
<1> HIDE DEF R
<1> QED BY <1>1, <1>2, <1>3, <1>4

\* The row of an account gains and loses what its counted sets do.
RowFollows(u, x) ==
  /\ PaidIn(profile'[u]) = PaidIn(profile[u])
       + Gained(x \in PaidCounted(u)', x) - Gained(x \in PaidCounted(u), x)
  /\ CompIn(profile'[u]) = CompIn(profile[u])
       + Gained(x \in CompCounted(u)', x) - Gained(x \in CompCounted(u), x)
  /\ PendingIn(profile'[u]) = PendingIn(profile[u])
       + Gained(x \in PendingCounted(u)', x) - Gained(x \in PendingCounted(u), x)

\* A row that follows its sets counts what they hold.
LEMMA CountedFollows ==
  ASSUME NEW x \in Items, Touches(x), NEW u, Counted(u), RowFollows(u, x)
  PROVE  Counted(u)'
<1>1. /\ PaidCounted(u)' \in SUBSET Items /\ PaidCounted(u) \in SUBSET Items
      /\ CompCounted(u)' \in SUBSET Items /\ CompCounted(u) \in SUBSET Items
      /\ PendingCounted(u)' \in SUBSET Items /\ PendingCounted(u) \in SUBSET Items
  BY DEF PendingCounted, PaidCounted, CompCounted, Items
<1>2. /\ Sum(PaidCounted(u)') = Sum(PaidCounted(u))
           + Gained(x \in PaidCounted(u)', x) - Gained(x \in PaidCounted(u), x)
      /\ Sum(CompCounted(u)') = Sum(CompCounted(u))
           + Gained(x \in CompCounted(u)', x) - Gained(x \in CompCounted(u), x)
      /\ Sum(PendingCounted(u)') = Sum(PendingCounted(u))
           + Gained(x \in PendingCounted(u)', x) - Gained(x \in PendingCounted(u), x)
  BY <1>1, OthersKept, SumMoves
<1>3. /\ PaidIn(profile'[u]) = Sum(PaidCounted(u)')
      /\ CompIn(profile'[u]) = Sum(CompCounted(u)')
      /\ PendingIn(profile'[u]) = Sum(PendingCounted(u)')
  BY <1>2 DEF Counted, RowFollows
<1> QED BY <1>3 DEF Counted, PaidIn, CompIn, PendingIn

\* What the account of the item must keep for the others to be right as well.
AboutItem(x) ==
  /\ x \in Items /\ Touches(x) /\ reader' = reader
  /\ \A v \in Users : v # Owner[x] => profile'[v] = profile[v] /\ drift'[v] = drift[v]
  /\ \A i \in Slots : Clean(i)' => slot'[i] = slot[i] /\ slot[i].user # Owner[x]
  /\ drift'[Owner[x]] = "none" =>
       /\ drift[Owner[x]] = "none"
       /\ x \in CompletedSet(Owner[x]) => x \in CompletedSet(Owner[x])'
       /\ x \in CompensationSet(Owner[x]) => x \in CompensationSet(Owner[x])'
       /\ ItemInStep(x)' /\ RowFollows(Owner[x], x)

\* A step about one item keeps the books of all accounts.
LEMMA ItemBooks ==
  ASSUME NEW x, AboutItem(x), Shaped, Shaped', Books PROVE Books'
<1> USE DEF AboutItem
<1> SUFFICES ASSUME NEW u \in Users, drift'[u] = "none" PROVE InStep(u)' /\ Counted(u)'
  BY DEF Books, BooksOf
<1>1. CASE u # Owner[x]
  <2>1. InStep(u) /\ Counted(u) /\ profile'[u] = profile[u]
    BY <1>1 DEF Books, BooksOf
  <2>2. /\ PendingCounted(u)' = PendingCounted(u) /\ PaidCounted(u)' = PaidCounted(u)
        /\ CompCounted(u)' = CompCounted(u) /\ InStep(u)'
    BY <1>1, <2>1, AccountKept
  <2> QED BY <2>1, <2>2 DEF Counted
<1>2. CASE u = Owner[x]
  <2>1. InStep(u) /\ Counted(u) /\ RowFollows(u, x) /\ ItemInStep(x)'
    BY <1>2 DEF Books, BooksOf
  <2>2. InStep(u)'
    <3> SUFFICES ASSUME NEW y \in Items, Owner[y] = u PROVE ItemInStep(y)'
      BY DEF InStep
    <3>1. CASE y = x
      BY <2>1, <3>1
    <3>2. CASE y # x
      BY <2>1, <3>2, ItemKept DEF InStep
    <3> QED BY <3>1, <3>2
  <2>3. Counted(u)'
    BY <2>1, CountedFollows
  <2> QED BY <2>2, <2>3
<1> QED BY <1>1, <1>2

\* What clean recalculations of other accounts read is unchanged.
LEMMA ItemClean ==
  ASSUME NEW x, AboutItem(x), Shaped, Shaped', CleanInv PROVE CleanInv'
<1> SUFFICES ASSUME NEW i \in Slots, Clean(i)' PROVE ReadsNow(slot[i])'
  BY DEF CleanInv
<1>1. slot'[i] = slot[i] /\ slot[i].user # Owner[x] /\ x \in Items /\ Touches(x)
  BY DEF AboutItem
<1>2. ReadsNow(slot[i])
  BY <1>1 DEF CleanInv, Clean
<1> DEFINE u == slot[i].user
<1>3. /\ UpdatesOf(u)' = UpdatesOf(u) /\ CompletedNow(u)' = CompletedNow(u)
      /\ PendingNow(u)' = PendingNow(u) /\ CompensationNow(u)' = CompensationNow(u)
  <2> SUFFICES ASSUME NEW v, v = u, v = slot'[i].user
               PROVE  /\ UpdatesOf(v)' = UpdatesOf(v) /\ CompletedNow(v)' = CompletedNow(v)
                      /\ PendingNow(v)' = PendingNow(v)
                      /\ CompensationNow(v)' = CompensationNow(v)
    BY <1>1
  <2> QED BY <1>1, AccountKept
<1> QED BY <1>1, <1>2, <1>3 DEF ReadsNow

\* What a request is about to show is earned still, or cannot be cleared.
LEMMA ItemOverlay ==
  ASSUME NEW x, AboutItem(x), Shaped, Shaped', OverlayInv PROVE OverlayInv'
<1> DEFINE u == reader.user
<1> SUFFICES ASSUME reader.step = "overlay", reader.drift = "none", reader' = reader
             PROVE  (RowBelow \/ Disturbed(u))'
  BY DEF OverlayInv, AboutItem
<1>1. RowBelow \/ Disturbed(u)
  BY DEF OverlayInv
<1>2. u \in Users /\ reader.row.paid \in Nat /\ reader.row.comp \in Nat
  <2>1. reader \in Overlays
    BY DEF Shaped, Asked, Idle
  <2>2. u \in Users /\ reader.row \in Rows
    BY <2>1 DEF Overlays
  <2> QED BY <2>2 DEF Rows
<1>3. x \in Items /\ Touches(x) /\ \A i \in Slots : Clean(i)' => slot'[i].user # Owner[x]
  BY DEF AboutItem
<1>4. CASE u # Owner[x]
  <2>1. CompletedNow(u)' = CompletedNow(u) /\ CompensationNow(u)' = CompensationNow(u)
    <3> SUFFICES ASSUME NEW v, v = reader.user, v = reader'.user
                 PROVE  /\ CompletedNow(v)' = CompletedNow(v)
                        /\ CompensationNow(v)' = CompensationNow(v)
      OBVIOUS
    <3> QED BY <1>3, <1>4, AccountKept
  <2>2. RowBelow => RowBelow'
    BY <2>1 DEF RowBelow
  <2>3. Disturbed(u) => Disturbed(u)'
    <3>1. drift'[u] = drift[u]
      BY <1>2, <1>4 DEF AboutItem
    <3>2. \A i \in Slots : Clean(i)' => Clean(i) /\ slot'[i] = slot[i]
      BY DEF AboutItem, Clean
    <3> QED BY <3>1, <3>2 DEF Disturbed
  <2> QED BY <1>1, <2>2, <2>3
<1>5. CASE u = Owner[x] /\ drift'[u] # "none"
  BY <1>3, <1>5 DEF Disturbed
<1>6. CASE u = Owner[x] /\ drift'[u] = "none"
  <2>1. /\ drift[u] = "none"
        /\ x \in CompletedSet(u) => x \in CompletedSet(u)'
        /\ x \in CompensationSet(u) => x \in CompensationSet(u)'
    BY <1>6 DEF AboutItem, CompletedSet, CompensationSet
  <2>2. /\ reader.row.paid <= CompletedNow(u) /\ reader.row.comp <= CompensationNow(u)
    BY <1>1, <2>1 DEF Disturbed, RowBelow
  <2>3. CompletedNow(u) <= CompletedNow(u)' /\ CompensationNow(u) <= CompensationNow(u)'
    <3> SUFFICES ASSUME NEW v, v = u, v = reader'.user
                 PROVE  /\ CompletedNow(v) <= CompletedNow(v)'
                        /\ CompensationNow(v) <= CompensationNow(v)'
      OBVIOUS
    <3>1. CompletedSet(v) \subseteq CompletedSet(v)'
      <4>1. x \in CompletedSet(v) => x \in CompletedSet(v)'
        BY <2>1 DEF CompletedSet
      <4>2. CompletedSet(v)' \ {x} = CompletedSet(v) \ {x}
        BY <1>3, OthersKept
      <4> QED BY <4>1, <4>2
    <3>2. CompensationSet(v) \subseteq CompensationSet(v)'
      <4>1. x \in CompensationSet(v) => x \in CompensationSet(v)'
        BY <2>1 DEF CompensationSet
      <4>2. CompensationSet(v)' \ {x} = CompensationSet(v) \ {x}
        BY <1>3, OthersKept
      <4> QED BY <4>1, <4>2
    <3>3. CompletedSet(v)' \in SUBSET Items /\ CompensationSet(v)' \in SUBSET Items
      BY DEF CompletedSet, CompensationSet, Items
    <3>4. /\ CompletedNow(v)' = Sum(CompletedSet(v)')
          /\ CompensationNow(v)' = Sum(CompensationSet(v)')
      <4>1. {p \in Of(v) \cap partnerVisibleNowWhere: status[p] = "completed"}'
              = CompletedSet(v)'
        BY DEF Of, partnerVisibleNowWhere, CompletedSet
      <4>2. {c \in kept \ uncounted: Owner[c] = v}' = CompensationSet(v)'
        BY DEF Shaped, CompensationSet
      <4> QED BY <4>1, <4>2 DEF CompletedNow, CompensationNow
    <3> QED BY <3>1, <3>2, <3>3, <3>4, NowSums, SumGrows
  <2>4. RowBelow'
    <3>1. /\ CompletedNow(u) \in Nat /\ CompensationNow(u) \in Nat
      BY NowTyped
    <3>2. /\ CompletedNow(u)' \in Nat /\ CompensationNow(u)' \in Nat
      <4> SUFFICES ASSUME NEW v, v = u, v = reader'.user
                   PROVE  /\ CompletedNow(v)' \in Nat /\ CompensationNow(v)' \in Nat
        OBVIOUS
      <4>1. {p \in Of(v) \cap partnerVisibleNowWhere: status[p] = "completed"}' \in SUBSET Items
        BY DEF Of, partnerVisibleNowWhere, Items
      <4>2. {c \in kept \ uncounted: Owner[c] = v}' \in SUBSET Items
        BY DEF Shaped, Items
      <4> QED BY <4>1, <4>2, SumTyped DEF CompletedNow, CompensationNow
    <3> QED BY <1>2, <2>2, <2>3, <3>1, <3>2 DEF RowBelow
  <2> QED BY <2>4
<1> QED BY <1>4, <1>5, <1>6

-----------------------------------------------------------------------------
(* What a step that changes no table and no update does                    *)

Quiet == tables' = tables /\ updates' = updates

\* No sum and no counted set changes.
LEMMA QuietNow ==
  ASSUME Quiet, NEW u
  PROVE  /\ UpdatesOf(u)' = UpdatesOf(u)
         /\ CompletedNow(u)' = CompletedNow(u)
         /\ PendingNow(u)' = PendingNow(u)
         /\ CompensationNow(u)' = CompensationNow(u)
         /\ PendingCounted(u)' = PendingCounted(u)
         /\ PaidCounted(u)' = PaidCounted(u)
         /\ CompCounted(u)' = CompCounted(u)
         /\ InStep(u)' <=> InStep(u)
<1> /\ status' = status /\ hidden' = hidden /\ kept' = kept /\ uncounted' = uncounted
    /\ updates' = updates
  BY DEF Quiet, tables
<1>1. UpdatesOf(u)' = UpdatesOf(u)
  BY DEF UpdatesOf
<1>2. /\ CompletedNow(u)' = CompletedNow(u) /\ PendingNow(u)' = PendingNow(u)
      /\ CompensationNow(u)' = CompensationNow(u)
  BY DEF CompletedNow, PendingNow, CompensationNow, partnerVisibleNowWhere, Of
<1>3. PendingCounted(u)' = PendingCounted(u)
  BY DEF PendingCounted, CountsPending, Entering
<1>4. PaidCounted(u)' = PaidCounted(u)
  BY DEF PaidCounted, CountsPaid
<1>5. CompCounted(u)' = CompCounted(u)
  BY DEF CompCounted, CountsComp
<1>6. InStep(u)' <=> InStep(u)
  BY DEF InStep, ItemInStep
<1> QED BY <1>1, <1>2, <1>3, <1>4, <1>5, <1>6

\* Without updates a row counts what the tables say.
LEMMA Settled ==
  ASSUME Shaped, NEW u, UpdatesOf(u) = {}
  PROVE  /\ InStep(u)
         /\ Sum(PaidCounted(u)) = CompletedNow(u)
         /\ Sum(CompCounted(u)) = CompensationNow(u)
         /\ Sum(PendingCounted(u)) = PendingNow(u)
<1>1. \A j \in updates : Owner[j.of] # u
  BY DEF UpdatesOf
<1>2. InStep(u)
  BY <1>1 DEF InStep, ItemInStep
<1>3. PaidCounted(u) = CompletedSet(u)
  BY <1>1 DEF PaidCounted, CompletedSet, CountsPaid
<1>4. CompCounted(u) = CompensationSet(u)
  BY <1>1 DEF CompCounted, CompensationSet, CountsComp
<1>5. PendingCounted(u) = PendingSet(u)
  BY <1>1 DEF PendingCounted, PendingSet, CountsPending, Entering
<1> QED BY <1>2, <1>3, <1>4, <1>5, NowSums

\* What a row counts as earned is earned.
LEMMA RowIsBelow ==
  ASSUME Shaped, Books, NEW u \in Users, profile[u].row, drift[u] = "none"
  PROVE  profile[u].paid <= CompletedNow(u) /\ profile[u].comp <= CompensationNow(u)
<1>1. /\ profile[u].paid = Sum(PaidCounted(u)) /\ profile[u].comp = Sum(CompCounted(u))
  BY DEF Books, BooksOf, Counted, PaidIn, CompIn
<1>2. PaidCounted(u) \subseteq CompletedSet(u)
  BY DEF PaidCounted, CompletedSet, CountsPaid
<1>3. CompCounted(u) \subseteq CompensationSet(u)
  BY DEF CompCounted, CompensationSet, CountsComp
<1> QED BY <1>1, <1>2, <1>3, NowSums, AllItems, SumGrows

\* A request reads the row of an account.
RowRead ==
  /\ reader'.step = "overlay" /\ reader'.user \in Users
  /\ profile[reader'.user].row
  /\ reader'.row = profile[reader'.user] /\ reader'.drift = drift[reader'.user]
ReaderGoesOn ==
  \/ reader' = reader /\ \A i \in Slots : Clean(i)' => Clean(i) /\ slot'[i].user = slot[i].user
  \/ reader'.step # "overlay"
  \/ RowRead

\* Such a step keeps the invariant, if rows are read and sums added up as they are.
LEMMA QuietStep ==
  ASSUME Shaped, Books, OverlayInv, PendingNotNegative, Quiet,
         profile' = profile, drift' = drift, ReaderGoesOn,
         \A i \in Slots : Clean(i)' => ReadsNow(slot'[i])
  PROVE  Books' /\ CleanInv' /\ OverlayInv' /\ PendingNotNegative'
<1>1. Books'
  BY QuietNow DEF Books, BooksOf, Counted
<1>2. CleanInv'
  <2> SUFFICES ASSUME NEW i \in Slots, Clean(i)' PROVE ReadsNow(slot[i])'
    BY DEF CleanInv
  <2>1. ReadsNow(slot'[i])
    OBVIOUS
  <2>2. \A u : /\ UpdatesOf(u)' = UpdatesOf(u)
               /\ CompletedNow(u)' = CompletedNow(u)
               /\ PendingNow(u)' = PendingNow(u)
               /\ CompensationNow(u)' = CompensationNow(u)
    BY QuietNow
  <2> DEFINE r == slot[i]
  <2>3. UpdatesOf(r.user)' = UpdatesOf(slot'[i].user)
    BY DEF Quiet, UpdatesOf
  <2>4. /\ CompletedNow(r.user)' = CompletedNow(slot'[i].user)
        /\ PendingNow(r.user)' = PendingNow(slot'[i].user)
        /\ CompensationNow(r.user)' = CompensationNow(slot'[i].user)
    BY DEF Quiet, tables, CompletedNow, PendingNow, CompensationNow, partnerVisibleNowWhere, Of
  <2> QED BY <2>1, <2>3, <2>4 DEF ReadsNow
<1>3. OverlayInv'
  <2> SUFFICES ASSUME reader'.step = "overlay", reader'.drift = "none"
               PROVE  (RowBelow \/ Disturbed(reader.user))'
    BY DEF OverlayInv
  <2>1. /\ CompletedNow(reader.user)' = CompletedNow(reader'.user)
        /\ CompensationNow(reader.user)' = CompensationNow(reader'.user)
    BY DEF Quiet, tables, CompletedNow, CompensationNow, partnerVisibleNowWhere, Of
  <2>2. CASE RowRead
    <3>1. /\ reader'.row.paid <= CompletedNow(reader'.user)
          /\ reader'.row.comp <= CompensationNow(reader'.user)
      BY <2>2, RowIsBelow DEF RowRead
    <3> QED BY <2>1, <3>1 DEF RowBelow
  <2>3. CASE /\ reader' = reader
             /\ \A i \in Slots : Clean(i)' => Clean(i) /\ slot'[i].user = slot[i].user
    BY <2>1, <2>3 DEF OverlayInv, RowBelow, Disturbed
  <2> QED BY <2>2, <2>3 DEF ReaderGoesOn
<1>4. PendingNotNegative'
  BY QuietNow DEF PendingNotNegative
<1> QED BY <1>1, <1>2, <1>3, <1>4

-----------------------------------------------------------------------------
(* The payouts and the compensations change                                *)

\* What a row counts is an amount; pending may be negative.
LEMMA RowTyped ==
  ASSUME Shaped, NEW u \in Users
  PROVE  /\ PaidIn(profile[u]) \in Nat /\ CompIn(profile[u]) \in Nat
         /\ PendingIn(profile[u]) \in Int
<1>1. CASE profile[u] \in Rows
  <2>1. /\ profile[u].paid \in Nat /\ profile[u].comp \in Nat /\ profile[u].pending \in Int
    BY <1>1 DEF Rows
  <2>2. profile[u].row = TRUE
    BY <1>1, Zenon DEF Rows
  <2> QED BY <2>1, <2>2 DEF PaidIn, CompIn, PendingIn
<1>2. CASE profile[u] = NoRow
  <2>1. profile[u].row = FALSE
    BY <1>2 DEF NoRow
  <2> QED BY <2>1 DEF PaidIn, CompIn, PendingIn
<1> QED BY <1>1, <1>2 DEF Shaped

\* Every item is of an account.
LEMMA OwnerUser == \A x \in Items : Owner[x] \in Users
BY EarningsAssumption DEF Items

\* A row that stays follows sets the item stays in or out of.
LEMMA RowStays ==
  ASSUME Shaped, NEW x \in Items, profile' = profile, NEW u \in Users,
         x \in PaidCounted(u)' <=> x \in PaidCounted(u),
         x \in CompCounted(u)' <=> x \in CompCounted(u),
         x \in PendingCounted(u)' <=> x \in PendingCounted(u)
  PROVE  RowFollows(u, x)
<1>2. /\ Gained(x \in PaidCounted(u)', x) = Gained(x \in PaidCounted(u), x)
      /\ Gained(x \in PaidCounted(u), x) \in Nat
  BY AmountNat DEF Gained
<1>3. /\ Gained(x \in CompCounted(u)', x) = Gained(x \in CompCounted(u), x)
      /\ Gained(x \in CompCounted(u), x) \in Nat
  BY AmountNat DEF Gained
<1>4. /\ Gained(x \in PendingCounted(u)', x) = Gained(x \in PendingCounted(u), x)
      /\ Gained(x \in PendingCounted(u), x) \in Nat
  BY AmountNat DEF Gained
<1> QED BY <1>2, <1>3, <1>4, RowTyped DEF RowFollows

\* After a change no recalculation of the account is clean.
LEMMA Spoiled ==
  ASSUME Shaped, NEW u, Spoil(u)
  PROVE  /\ \A i \in Slots : Clean(i)' => slot'[i] = slot[i] /\ slot[i].user # u
         /\ slot' \in [Slots -> Recalculations \cup {Idle}]
         /\ \A i \in Slots : ForReader(slot'[i]) <=> ForReader(slot[i])
<1>1. slot \in [Slots -> Recalculations \cup {Idle}]
  BY DEF Shaped
<1>2. ASSUME NEW i \in Slots
      PROVE  /\ slot'[i] \in Recalculations \cup {Idle}
             /\ ForReader(slot'[i]) <=> ForReader(slot[i])
             /\ Clean(i)' => slot'[i] = slot[i] /\ slot[i].user # u
  <2>1. slot'[i] = IF slot[i] # Idle /\ slot[i].user = u
                   THEN [slot[i] EXCEPT !.clean = FALSE] ELSE slot[i]
    BY DEF Spoil
  <2>2. CASE slot[i] # Idle /\ slot[i].user = u
    <3>1. slot[i] \in Recalculations
      BY <1>1, <2>2
    <3>2. slot'[i] = [slot[i] EXCEPT !.clean = FALSE]
      BY <2>1, <2>2
    <3>3. slot'[i] \in Recalculations
      BY <3>1, <3>2 DEF Recalculations
    <3>4. slot'[i].clean = FALSE
      BY <3>1, <3>2, Zenon DEF Recalculations
    <3>5. slot'[i].step = slot[i].step /\ slot'[i].for = slot[i].for
      BY <3>1, <3>2 DEF Recalculations
    <3> QED BY <3>3, <3>4, <3>5 DEF Clean, ForReader
  <2>3. CASE ~(slot[i] # Idle /\ slot[i].user = u)
    <3>1. slot'[i] = slot[i]
      BY <2>1, <2>3
    <3>2. Clean(i)' => slot[i] # Idle
      BY <3>1 DEF Clean, Idle
    <3> QED BY <1>1, <2>3, <3>1, <3>2
  <2> QED BY <2>2, <2>3
<1>3. DOMAIN slot' = Slots /\ slot' = [i \in Slots |-> slot'[i]]
  BY DEF Spoil
<1> QED BY <1>2, <1>3

\* An update that is handed over.
LEMMA HandsOver ==
  ASSUME Shaped, Recorded, NEW n \in PayoutUpdates \cup CompensationUpdates, n.id = moves,
         moves < MaxMoves, moves' = moves + 1, updates' = updates \cup {n}
  PROVE  /\ updates' \subseteq PayoutUpdates \cup CompensationUpdates
         /\ moves' \in 0 .. MaxMoves
         /\ \A j \in updates' : j.id < moves'
         /\ \A j, k \in updates' : j.id = k.id => j = k
         /\ \A v : UpdatesOf(v) \subseteq UpdatesOf(v)'
<1>1. moves \in Nat /\ MaxMoves \in Nat /\ moves' \in 0 .. MaxMoves
  BY EarningsAssumption DEF Shaped
<1>2. \A j \in updates : j.id \in Nat /\ j.id < moves
  BY DEF Shaped, Recorded, PayoutUpdates, CompensationUpdates
<1>3. \A j \in updates' : j.id < moves'
  BY <1>1, <1>2
<1>4. \A j, k \in updates' : j.id = k.id => j = k
  BY <1>1, <1>2 DEF Recorded
<1>5. \A v : UpdatesOf(v) \subseteq UpdatesOf(v)'
  BY DEF UpdatesOf
<1> QED BY <1>1, <1>3, <1>4, <1>5 DEF Shaped

\* An account's drift is never cleared by a change.
LEMMA DriftStays ==
  ASSUME Shaped, NEW u \in Users, NEW b, Drifts(u, b)
  PROVE  /\ drift' \in [Users -> Drift]
         /\ \A v \in Users : v # u => drift'[v] = drift[v]
         /\ drift'[u] = "none" => drift[u] = "none" /\ ~b
         /\ \A v \in Users : drift[v] = "lost" => drift'[v] = "lost"
BY DEF Shaped, Drifts, Drift

\* A change that is only handed over leaves negative sums explained.
LEMMA PendingStays ==
  ASSUME PendingNotNegative, profile' = profile, \A v : UpdatesOf(v) \subseteq UpdatesOf(v)',
         \A v \in Users : drift[v] = "lost" => drift'[v] = "lost"
  PROVE  PendingNotNegative'
<1> SUFFICES ASSUME NEW u \in Users, profile[u].row, profile[u].pending < 0
             PROVE  drift'[u] = "lost" \/ \E j \in UpdatesOf(u)' : j.step = "clamp"
  BY DEF PendingNotNegative
<1> QED BY DEF PendingNotNegative

\* Whether a row counts an item depends on the item alone.
LEMMA SetsOf ==
  ASSUME NEW x \in Items
  PROVE  LET u == Owner[x] IN
         /\ x \in PendingCounted(u) <=> x \in Payouts /\ CountsPending(x)
         /\ x \in PaidCounted(u) <=> x \in Payouts /\ CountsPaid(x)
         /\ x \in CompCounted(u) <=> x \in Compensations /\ CountsComp(x)
         /\ x \in (PendingCounted(u))' <=> x \in Payouts /\ CountsPending(x)'
         /\ x \in (PaidCounted(u))' <=> x \in Payouts /\ CountsPaid(x)'
         /\ x \in (CompCounted(u))' <=> x \in Compensations /\ CountsComp(x)'
BY DEF PendingCounted, PaidCounted, CompCounted

\* A new payout is not counted until its update has run.
LEMMA Step_createPayout ==
  ASSUME EInv, NEW p \in Payouts, NEW s \in Reached, createPayout(p, s)
  PROVE  EInv'
<1> DEFINE u == Owner[p]
           n == Update(p, "none", s)
<1> USE DEF EInv
<1>1. p \in Items /\ u \in Users /\ s \in Statuses
  BY OwnerUser, EarningsAssumption DEF Items, Statuses
<1>2. /\ status[p] = "none" /\ status' = [status EXCEPT ![p] = s] /\ hidden' = hidden
      /\ kept' = kept /\ uncounted' = uncounted
      /\ profile' = profile /\ mover' = mover /\ reader' = reader
      /\ updates' = updates \cup {n} /\ moves < MaxMoves /\ moves' = moves + 1
      /\ Spoil(u) /\ Drifts(u, p \in hidden)
  BY DEF createPayout
<1>3. /\ n.of = p /\ n.prev = "none" /\ n.next = s /\ n.id = moves /\ n.step = "pending"
      /\ n \in PayoutUpdates
  BY <1>1 DEF Update, PayoutUpdates, Kinds, Shaped
<1> HIDE DEF n
<1>4. /\ updates' \subseteq PayoutUpdates \cup CompensationUpdates /\ moves' \in 0 .. MaxMoves
      /\ \A j \in updates' : j.id < moves'
      /\ \A j, k \in updates' : j.id = k.id => j = k
      /\ \A v : UpdatesOf(v) \subseteq UpdatesOf(v)'
  BY <1>2, <1>3, HandsOver
<1>5. \A j \in updates : j.of # p
  BY <1>2 DEF Recorded
<1>6. /\ drift' \in [Users -> Drift]
      /\ \A v \in Users : v # u => drift'[v] = drift[v]
      /\ drift'[u] = "none" => drift[u] = "none" /\ p \notin hidden
      /\ \A v \in Users : drift[v] = "lost" => drift'[v] = "lost"
  BY <1>1, <1>2, DriftStays
<1>7. /\ \A i \in Slots : Clean(i)' => slot'[i] = slot[i] /\ slot[i].user # u
      /\ slot' \in [Slots -> Recalculations \cup {Idle}]
      /\ \A i \in Slots : ForReader(slot'[i]) <=> ForReader(slot[i])
  BY <1>2, Spoiled
<1>8. /\ status' \in [Payouts -> Kinds] /\ status'[p] = s
      /\ \A q \in Payouts : q # p => status'[q] = status[q]
  BY <1>1, <1>2 DEF Shaped, Kinds
<1>9. Shaped'
  BY <1>2, <1>4, <1>6, <1>7, <1>8 DEF Shaped
<1>10. Awaited'
  BY <1>2, <1>7 DEF Awaited
<1>11. Recorded'
  <2>1. \A j \in updates' : j.of \in Payouts =>
          status'[j.of] # "none" /\ (j.step = "earn" => BecameCompleted(j))
    BY <1>1, <1>2, <1>3, <1>8 DEF Recorded, Statuses
  <2>2. \A j \in updates' : j.of \in Compensations => j.of \in kept'
    BY <1>2, <1>3, EarningsAssumption DEF Recorded
  <2> QED BY <1>4, <2>1, <2>2 DEF Recorded, BecameCompleted
<1>12. Touches(p)
  BY <1>2, <1>3, <1>8 DEF Touches
<1>13. ASSUME drift'[u] = "none"
       PROVE  /\ drift[u] = "none" /\ ItemInStep(p)' /\ RowFollows(u, p)
  <2>1. p \notin hidden' /\ drift[u] = "none" /\ p \notin Compensations
    BY <1>2, <1>6, <1>13, EarningsAssumption
  <2>2. \A j \in updates' : j.of = p => j = n
    BY <1>2, <1>5
  <2>3. ItemInStep(p)'
    BY <1>3, <1>8, <2>1, <2>2 DEF ItemInStep
  <2>4. ~CountsPending(p)
    BY <1>2, <1>5 DEF CountsPending, Entering, PENDING_STATUSES
  <2>5. ~CountsPending(p)'
    <3>1. Entering(p)'
      BY <1>2, <1>3 DEF Entering
    <3> QED BY <1>3, <2>2, <3>1 DEF CountsPending, PENDING_STATUSES
  <2>6. ~CountsPaid(p)
    BY <1>2 DEF CountsPaid
  <2>7. ~CountsPaid(p)'
    BY <1>2, <1>3, <1>8 DEF CountsPaid, BecameCompleted
  <2>8. RowFollows(u, p)
    BY <1>1, <1>2, <2>1, <2>4, <2>5, <2>6, <2>7, SetsOf, RowStays
  <2> QED BY <2>1, <2>3, <2>8
<1>14. AboutItem(p)
  <2>1. p \notin CompletedSet(u) /\ p \notin CompensationSet(u)
    BY <1>2, EarningsAssumption DEF CompletedSet, CompensationSet
  <2> QED BY <1>1, <1>2, <1>6, <1>7, <1>12, <1>13, <2>1 DEF AboutItem
<1>15. PendingNotNegative'
  BY <1>2, <1>4, <1>6, PendingStays
<1> QED BY <1>9, <1>10, <1>11, <1>14, <1>15, ItemBooks, ItemClean, ItemOverlay

\* An unmistaken change of status leaves what the row counts to its update.
LEMMA Step_updatePayoutStatus ==
  ASSUME EInv, NEW m \in Movers, NEW s \in Reached, updatePayoutStatus(m, s)
  PROVE  EInv'
<1> SUFFICES ASSUME NEW p, NEW prev, p = mover[m].payout, prev = mover[m].status
             PROVE  EInv'
  OBVIOUS
<1> DEFINE u == Owner[p]
           n == Update(p, prev, s)
<1> USE DEF EInv
<1>1. /\ p \in Payouts /\ prev \in Statuses
      /\ p \in Items /\ u \in Users /\ s \in Statuses
  <2>1. mover[m] \in Writes
    BY DEF Shaped, Idle, updatePayoutStatus
  <2>2. p \in Payouts /\ prev \in Statuses
    BY <2>1 DEF Writes
  <2> QED BY <2>2, OwnerUser, EarningsAssumption DEF Items, Statuses
<1> DEFINE b == \/ p \in hidden \/ prev # status[p]
                \/ \E j \in updates: j.of = p
                \/ (prev = "completed" /\ s # "completed")
<1>2. /\ status' = [status EXCEPT ![p] = s] /\ hidden' = hidden
      /\ kept' = kept /\ uncounted' = uncounted
      /\ profile' = profile /\ mover' = [mover EXCEPT ![m] = Idle]
      /\ reader' = reader
      /\ updates' = updates \cup {n} /\ moves < MaxMoves /\ moves' = moves + 1
      /\ Spoil(u) /\ Drifts(u, b)
  BY DEF updatePayoutStatus
<1>3. /\ n.of = p /\ n.prev = prev /\ n.next = s /\ n.id = moves
      /\ n.step = "pending" /\ n \in PayoutUpdates
  BY <1>1 DEF Update, PayoutUpdates, Kinds, Shaped
<1> HIDE DEF n
<1>4. /\ updates' \subseteq PayoutUpdates \cup CompensationUpdates /\ moves' \in 0 .. MaxMoves
      /\ \A j \in updates' : j.id < moves'
      /\ \A j, k \in updates' : j.id = k.id => j = k
      /\ \A v : UpdatesOf(v) \subseteq UpdatesOf(v)'
  BY <1>2, <1>3, HandsOver
<1>6. /\ drift' \in [Users -> Drift]
      /\ \A v \in Users : v # u => drift'[v] = drift[v]
      /\ drift'[u] = "none" => drift[u] = "none" /\ ~b
      /\ \A v \in Users : drift[v] = "lost" => drift'[v] = "lost"
  <2> HIDE DEF b
  <2> QED BY <1>1, <1>2, DriftStays
<1>7. /\ \A i \in Slots : Clean(i)' => slot'[i] = slot[i] /\ slot[i].user # u
      /\ slot' \in [Slots -> Recalculations \cup {Idle}]
      /\ \A i \in Slots : ForReader(slot'[i]) <=> ForReader(slot[i])
  BY <1>2, Spoiled
<1>8. /\ status' \in [Payouts -> Kinds] /\ status'[p] = s
      /\ \A q \in Payouts : q # p => status'[q] = status[q]
  BY <1>1, <1>2 DEF Shaped, Kinds
<1>9. Shaped'
  <2>1. mover' \in [Movers -> Writes \cup {Idle}]
    BY <1>2 DEF Shaped
  <2> QED BY <1>2, <1>4, <1>6, <1>7, <1>8, <2>1 DEF Shaped
<1>10. Awaited'
  BY <1>2, <1>7 DEF Awaited
<1>11. Recorded'
  <2>1. \A j \in updates' : j.of \in Payouts =>
          status'[j.of] # "none" /\ (j.step = "earn" => BecameCompleted(j))
    BY <1>1, <1>2, <1>3, <1>8 DEF Recorded, Statuses
  <2>2. \A j \in updates' : j.of \in Compensations => j.of \in kept'
    BY <1>1, <1>2, <1>3, EarningsAssumption DEF Recorded
  <2> QED BY <1>4, <2>1, <2>2 DEF Recorded, BecameCompleted
<1>12. Touches(p)
  BY <1>2, <1>3, <1>8 DEF Touches
<1>13. ASSUME drift'[u] = "none"
       PROVE  /\ drift[u] = "none" /\ ItemInStep(p)' /\ RowFollows(u, p)
              /\ status[p] = "completed" => s = "completed"
  <2>1. p \notin hidden' /\ drift[u] = "none" /\ p \notin Compensations
    BY <1>1, <1>2, <1>6, <1>13, EarningsAssumption
  <2>2. /\ prev = status[p] /\ \A j \in updates : j.of # p
        /\ status[p] = "completed" => s = "completed"
    BY <1>6, <1>13
  <2>3. \A j \in updates' : j.of = p => j = n
    BY <1>2, <2>2
  <2>4. ItemInStep(p)'
    BY <1>3, <1>8, <2>1, <2>3 DEF ItemInStep
  <2>5. CountsPending(p) <=> status[p] \in PENDING_STATUSES
    BY <1>2, <2>1, <2>2 DEF CountsPending, Entering
  <2>6. CountsPending(p)' <=> status[p] \in PENDING_STATUSES
    <3>1. Entering(p)'
      BY <1>2, <1>3 DEF Entering
    <3>2. (\E j \in updates': j.of = p /\ j.step = "pending" /\ j.prev \in PENDING_STATUSES)
            <=> status[p] \in PENDING_STATUSES
      BY <1>2, <1>3, <2>2, <2>3
    <3> QED BY <2>1, <3>1, <3>2 DEF CountsPending
  <2>7. CountsPaid(p) <=> status[p] = "completed"
    BY <1>2, <2>1, <2>2 DEF CountsPaid
  <2>8. CountsPaid(p)' <=> status[p] = "completed"
    <3>1. BecameCompleted(n) <=> s = "completed" /\ status[p] # "completed"
      BY <1>3, <2>2 DEF BecameCompleted
    <3>2. (\A j \in updates' : j.of = p => ~BecameCompleted(j)) <=> ~BecameCompleted(n)
      BY <1>2, <1>3, <2>3
    <3>3. CountsPaid(p)' <=> s = "completed" /\ ~BecameCompleted(n)
      BY <1>8, <2>1, <3>2 DEF CountsPaid, BecameCompleted
    <3> QED BY <2>2, <3>1, <3>3
  <2>9. RowFollows(u, p)
    BY <1>1, <1>2, <2>1, <2>5, <2>6, <2>7, <2>8, SetsOf, RowStays
  <2> QED BY <2>1, <2>2, <2>4, <2>9
<1>14. AboutItem(p)
  <2>1. drift'[u] = "none" => (p \in CompletedSet(u) => p \in CompletedSet(u)')
    BY <1>2, <1>8, <1>13 DEF CompletedSet
  <2>2. p \notin CompensationSet(u)
    BY <1>1, EarningsAssumption DEF CompensationSet
  <2> QED BY <1>1, <1>2, <1>6, <1>7, <1>12, <1>13, <2>1, <2>2 DEF AboutItem
<1>15. PendingNotNegative'
  BY <1>2, <1>4, <1>6, PendingStays
<1> QED BY <1>9, <1>10, <1>11, <1>14, <1>15, ItemBooks, ItemClean, ItemOverlay

\* A new compensation is not counted until its update has run.
LEMMA Step_Compensate ==
  ASSUME EInv, NEW c \in Compensations, Compensate(c)
  PROVE  EInv'
<1> DEFINE u == Owner[c]
           n == [of |-> c, id |-> moves, step |-> "earn"]
<1> USE DEF EInv
<1>1. c \in Items /\ u \in Users /\ c \notin Payouts
  BY OwnerUser, EarningsAssumption DEF Items
<1>2. /\ c \notin kept /\ kept' = kept \cup {c} /\ uncounted' = uncounted
      /\ status' = status /\ hidden' = hidden
      /\ profile' = profile /\ mover' = mover /\ reader' = reader /\ drift' = drift
      /\ updates' = updates \cup {n} /\ moves < MaxMoves /\ moves' = moves + 1
      /\ Spoil(u)
  BY DEF Compensate
<1>3. /\ n.of = c /\ n.id = moves /\ n.step = "earn"
      /\ n \in CompensationUpdates
  BY DEF CompensationUpdates, Shaped
<1> HIDE DEF n
<1>4. /\ updates' \subseteq PayoutUpdates \cup CompensationUpdates /\ moves' \in 0 .. MaxMoves
      /\ \A j \in updates' : j.id < moves'
      /\ \A j, k \in updates' : j.id = k.id => j = k
      /\ \A v : UpdatesOf(v) \subseteq UpdatesOf(v)'
  BY <1>2, <1>3, HandsOver
<1>5. \A j \in updates : j.of # c
  BY <1>2 DEF Recorded
<1>7. /\ \A i \in Slots : Clean(i)' => slot'[i] = slot[i] /\ slot[i].user # u
      /\ slot' \in [Slots -> Recalculations \cup {Idle}]
      /\ \A i \in Slots : ForReader(slot'[i]) <=> ForReader(slot[i])
  BY <1>2, Spoiled
<1>9. Shaped'
  BY <1>2, <1>4, <1>7 DEF Shaped
<1>10. Awaited'
  BY <1>2, <1>7 DEF Awaited
<1>11. Recorded'
  <2>1. \A j \in updates' : j.of \in Payouts =>
          status'[j.of] # "none" /\ (j.step = "earn" => BecameCompleted(j))
    BY <1>1, <1>2, <1>3 DEF Recorded
  <2>2. \A j \in updates' : j.of \in Compensations => j.of \in kept'
    BY <1>2, <1>3 DEF Recorded
  <2> QED BY <1>4, <2>1, <2>2 DEF Recorded, BecameCompleted
<1>12. Touches(c)
  BY <1>2, <1>3 DEF Touches
<1>13. ItemInStep(c)' /\ RowFollows(u, c)
  <2>1. \A j \in updates' : j.of = c => j = n
    BY <1>2, <1>5
  <2>2. ItemInStep(c)'
    BY <1>1, <1>2, <2>1 DEF ItemInStep, Shaped
  <2>3. ~CountsComp(c)
    BY <1>2 DEF CountsComp
  <2>4. ~CountsComp(c)'
    BY <1>2, <1>3 DEF CountsComp
  <2>5. RowFollows(u, c)
    BY <1>1, <1>2, <2>3, <2>4, SetsOf, RowStays
  <2> QED BY <2>2, <2>5
<1>14. AboutItem(c)
  <2>1. c \notin CompletedSet(u) /\ c \notin CompensationSet(u)
    BY <1>1, <1>2 DEF CompletedSet, CompensationSet
  <2> QED BY <1>1, <1>2, <1>7, <1>12, <1>13, <2>1 DEF AboutItem
<1>15. PendingNotNegative'
  BY <1>2, <1>4, PendingStays
<1> QED BY <1>9, <1>10, <1>11, <1>14, <1>15, ItemBooks, ItemClean, ItemOverlay

\* A window that ends shows a payout no sum counts, or the account drifts.
LEMMA Step_WindowEnds ==
  ASSUME EInv, NEW p \in Payouts, WindowEnds(p)
  PROVE  EInv'
<1> DEFINE u == Owner[p]
           b == status[p] \in PENDING_STATUSES \cup {"completed"}
<1> USE DEF EInv
<1>1. p \in Items /\ u \in Users /\ p \notin Compensations
  BY OwnerUser, EarningsAssumption DEF Items
<1>2. /\ p \in hidden /\ hidden' = hidden \ {p} /\ status' = status
      /\ kept' = kept /\ uncounted' = uncounted
      /\ profile' = profile /\ mover' = mover /\ reader' = reader
      /\ updates' = updates /\ moves' = moves
      /\ Spoil(u) /\ Drifts(u, b)
  BY DEF WindowEnds
<1>6. /\ drift' \in [Users -> Drift]
      /\ \A v \in Users : v # u => drift'[v] = drift[v]
      /\ drift'[u] = "none" => drift[u] = "none" /\ ~b
      /\ \A v \in Users : drift[v] = "lost" => drift'[v] = "lost"
  <2> HIDE DEF b
  <2> QED BY <1>1, <1>2, DriftStays
<1>7. /\ \A i \in Slots : Clean(i)' => slot'[i] = slot[i] /\ slot[i].user # u
      /\ slot' \in [Slots -> Recalculations \cup {Idle}]
      /\ \A i \in Slots : ForReader(slot'[i]) <=> ForReader(slot[i])
  BY <1>2, Spoiled
<1>9. Shaped'
  BY <1>2, <1>6, <1>7 DEF Shaped
<1>10. Awaited'
  BY <1>2, <1>7 DEF Awaited
<1>11. Recorded'
  BY <1>2 DEF Recorded, BecameCompleted
<1>12. Touches(p)
  BY <1>2 DEF Touches
<1>13. ASSUME drift'[u] = "none"
       PROVE  /\ drift[u] = "none" /\ ItemInStep(p)' /\ RowFollows(u, p)
  <2>1. drift[u] = "none" /\ status[p] \notin PENDING_STATUSES /\ status[p] # "completed"
    BY <1>6, <1>13
  <2>2. ItemInStep(p)
    BY <1>1, <2>1 DEF Books, BooksOf, InStep
  <2>3. \A j \in updates : j.of # p
    BY <1>2, <2>2 DEF ItemInStep
  <2>4. ItemInStep(p)'
    BY <1>2, <2>3 DEF ItemInStep
  <2>5. ~CountsPending(p) /\ ~CountsPending(p)'
    BY <1>2, <2>1, <2>3 DEF CountsPending, Entering
  <2>6. ~CountsPaid(p) /\ ~CountsPaid(p)'
    BY <1>2, <2>1 DEF CountsPaid
  <2>7. RowFollows(u, p)
    BY <1>1, <1>2, <2>5, <2>6, SetsOf, RowStays
  <2> QED BY <2>1, <2>4, <2>7
<1>14. AboutItem(p)
  <2>1. p \notin CompletedSet(u) /\ p \notin CompensationSet(u)
    BY <1>1, <1>2 DEF CompletedSet, CompensationSet
  <2> QED BY <1>1, <1>2, <1>6, <1>7, <1>12, <1>13, <2>1 DEF AboutItem
<1>15. PendingNotNegative'
  <2>1. \A v : UpdatesOf(v) \subseteq UpdatesOf(v)'
    BY <1>2 DEF UpdatesOf
  <2> QED BY <1>2, <1>6, <2>1, PendingStays
<1> QED BY <1>9, <1>10, <1>11, <1>14, <1>15, ItemBooks, ItemClean, ItemOverlay

\* A change the sums and the updates see differently makes its account drift,
\* and spoils the recalculations of it.
LEMMA DriftingStep ==
  ASSUME EInv, NEW x \in Items, Touches(x), Shaped', Awaited', Recorded',
         reader' = reader, profile' = profile, Spoil(Owner[x]), Drifts(Owner[x], TRUE),
         \A v : UpdatesOf(v) \subseteq UpdatesOf(v)'
  PROVE  EInv'
<1> DEFINE u == Owner[x]
<1> USE DEF EInv
<1>1. u \in Users
  BY OwnerUser
<1>2. /\ \A v \in Users : v # u => drift'[v] = drift[v]
      /\ drift'[u] # "none"
      /\ \A v \in Users : drift[v] = "lost" => drift'[v] = "lost"
  BY <1>1, DriftStays
<1>3. \A i \in Slots : Clean(i)' => slot'[i] = slot[i] /\ slot[i].user # u
  BY Spoiled
<1>4. AboutItem(x)
  BY <1>2, <1>3 DEF AboutItem
<1>5. PendingNotNegative'
  BY <1>2, PendingStays
<1> QED BY <1>4, <1>5, ItemBooks, ItemClean, ItemOverlay

\* A compensation that is reported and not summed.
LEMMA Step_CompensateCancelling ==
  ASSUME EInv, NEW c \in Compensations, CompensateCancelling(c)
  PROVE  EInv'
<1> DEFINE u == Owner[c]
           n == [of |-> c, id |-> moves, step |-> "earn"]
<1> USE DEF EInv
<1>1. c \in Items /\ u \in Users /\ c \notin Payouts
  BY OwnerUser, EarningsAssumption DEF Items
<1>2. /\ kept' = kept \cup {c} /\ uncounted' = uncounted \cup {c}
      /\ status' = status /\ hidden' = hidden
      /\ profile' = profile /\ mover' = mover /\ reader' = reader
      /\ updates' = updates \cup {n} /\ moves < MaxMoves /\ moves' = moves + 1
      /\ Spoil(u) /\ Drifts(u, TRUE)
  BY DEF CompensateCancelling
<1>3. /\ n.of = c /\ n.id = moves /\ n.step = "earn"
      /\ n \in CompensationUpdates
  BY DEF CompensationUpdates, Shaped
<1> HIDE DEF n
<1>4. /\ updates' \subseteq PayoutUpdates \cup CompensationUpdates /\ moves' \in 0 .. MaxMoves
      /\ \A j \in updates' : j.id < moves'
      /\ \A j, k \in updates' : j.id = k.id => j = k
      /\ \A v : UpdatesOf(v) \subseteq UpdatesOf(v)'
  BY <1>2, <1>3, HandsOver
<1>5. drift' \in [Users -> Drift]
  BY <1>1, <1>2, DriftStays
<1>6. /\ slot' \in [Slots -> Recalculations \cup {Idle}]
      /\ \A i \in Slots : ForReader(slot'[i]) <=> ForReader(slot[i])
  BY <1>2, Spoiled
<1>7. Shaped'
  BY <1>2, <1>4, <1>5, <1>6 DEF Shaped
<1>8. Awaited'
  BY <1>2, <1>6 DEF Awaited
<1>9. Recorded'
  <2>1. \A j \in updates' : j.of \in Payouts =>
          status'[j.of] # "none" /\ (j.step = "earn" => BecameCompleted(j))
    BY <1>1, <1>2, <1>3 DEF Recorded
  <2>2. \A j \in updates' : j.of \in Compensations => j.of \in kept'
    BY <1>2, <1>3 DEF Recorded
  <2> QED BY <1>4, <2>1, <2>2 DEF Recorded, BecameCompleted
<1>10. Touches(c)
  BY <1>2, <1>3 DEF Touches
<1> QED BY <1>1, <1>2, <1>4, <1>7, <1>8, <1>9, <1>10, DriftingStep

\* A change of the tables no update tells of.
LEMMA SilentStep ==
  ASSUME EInv, NEW x \in Items, Silent(x), Touches(x),
         status' \in [Payouts -> Kinds],
         \A p \in Payouts : status[p] # "none" => status'[p] # "none",
         hidden' \subseteq Payouts, uncounted' \subseteq kept', kept \subseteq kept',
         kept' \subseteq Compensations, mover' \in [Movers -> Writes \cup {Idle}]
  PROVE  EInv'
<1> DEFINE u == Owner[x]
<1> USE DEF EInv
<1>1. /\ profile' = profile /\ reader' = reader /\ updates' = updates
      /\ moves < MaxMoves /\ moves' = moves + 1 /\ Spoil(u) /\ Drifts(u, TRUE)
  BY DEF Silent
<1>2. u \in Users /\ moves \in Nat /\ moves' \in 0 .. MaxMoves
  BY <1>1, OwnerUser, EarningsAssumption DEF Shaped
<1>3. drift' \in [Users -> Drift]
  BY <1>1, <1>2, DriftStays
<1>4. /\ slot' \in [Slots -> Recalculations \cup {Idle}]
      /\ \A i \in Slots : ForReader(slot'[i]) <=> ForReader(slot[i])
  BY <1>1, Spoiled
<1>5. Shaped'
  BY <1>1, <1>2, <1>3, <1>4 DEF Shaped
<1>6. Awaited'
  BY <1>1, <1>4 DEF Awaited
<1>7. Recorded'
  <2>1. \A j \in updates : j.id < moves'
    <3>1. \A j \in updates : j.id \in Nat
      BY DEF Shaped, PayoutUpdates, CompensationUpdates
    <3> QED BY <1>1, <1>2, <3>1 DEF Recorded
  <2> QED BY <1>1, <2>1 DEF Recorded, BecameCompleted
<1>8. \A v : UpdatesOf(v) \subseteq UpdatesOf(v)'
  BY <1>1 DEF UpdatesOf
<1> QED BY <1>1, <1>5, <1>6, <1>7, <1>8, DriftingStep

\* A payout gets another status, or is deleted, silently.
LEMMA RewriteStep ==
  ASSUME EInv, NEW m \in Movers, NEW s \in Kinds \ {"none"}, NEW S \in SUBSET Payouts,
         Rewrites(m, s, S), \A p \in Payouts \ {mover[m].payout} : p \in S <=> p \in hidden
  PROVE  EInv'
<1> SUFFICES ASSUME NEW p, p = mover[m].payout PROVE EInv'
  OBVIOUS
<1> USE DEF EInv
<1>1. /\ Exists(p) /\ status' = [status EXCEPT ![p] = s] /\ hidden' = S
      /\ mover' = [mover EXCEPT ![m] = Idle] /\ Silent(p)
      /\ kept' = kept /\ uncounted' = uncounted /\ mover[m].step = "write"
  BY DEF Rewrites
<1>2. p \in Payouts /\ p \in Items
  <2>1. mover[m] \in Writes
    BY <1>1 DEF Shaped, Idle
  <2> QED BY <2>1 DEF Writes, Items
<1>3. /\ status' \in [Payouts -> Kinds] /\ status'[p] = s
      /\ \A q \in Payouts : q # p => status'[q] = status[q]
  BY <1>1, <1>2 DEF Shaped
<1>4. \A q \in Payouts : status[q] # "none" => status'[q] # "none"
  BY <1>3
<1>5. mover' \in [Movers -> Writes \cup {Idle}]
  BY <1>1 DEF Shaped
<1>6. Touches(p)
  BY <1>1, <1>3 DEF Touches, Silent
<1>7. uncounted' \subseteq kept' /\ kept \subseteq kept' /\ kept' \subseteq Compensations
  BY <1>1 DEF Shaped
<1> QED BY <1>1, <1>2, <1>3, <1>4, <1>5, <1>6, <1>7, SilentStep

\* The payout a mover read is a payout.
LEMMA MoverReads ==
  ASSUME Shaped, NEW m \in Movers, mover[m].step = "write"
  PROVE  mover[m].payout \in Payouts
<1>1. mover[m] \in Writes
  BY DEF Shaped, Idle
<1> QED BY <1>1 DEF Writes

LEMMA Step_holdBookNowTaskPayouts ==
  ASSUME EInv, NEW m \in Movers, holdBookNowTaskPayouts(m) PROVE EInv'
<1>1. Rewrites(m, "held", hidden \ {mover[m].payout})
  BY DEF holdBookNowTaskPayouts
<1>2. "held" \in Kinds \ {"none"} /\ hidden \ {mover[m].payout} \in SUBSET Payouts
  BY DEF Kinds, Statuses, EInv, Shaped
<1> QED BY <1>1, <1>2, RewriteStep

LEMMA Step_holdPayout ==
  ASSUME EInv, NEW m \in Movers, holdPayout(m) PROVE EInv'
<1>1. "held" \in Kinds \ {"none"} /\ hidden \in SUBSET Payouts
  BY DEF Kinds, Statuses, EInv, Shaped
<1> QED BY <1>1, RewriteStep DEF holdPayout

LEMMA Step_ResumesHeldPayout ==
  ASSUME EInv, NEW m \in Movers, NEW s, ResumesHeldPayout(m, s) PROVE EInv'
<1>1. /\ Rewrites(m, s, hidden \cup {mover[m].payout}) /\ s \in PENDING_STATUSES
      /\ mover[m].step = "write"
  BY DEF ResumesHeldPayout
<1>2. mover[m].payout \in Payouts
  BY <1>1, MoverReads DEF EInv
<1>3. s \in Kinds \ {"none"} /\ hidden \cup {mover[m].payout} \in SUBSET Payouts
  BY <1>1, <1>2 DEF Kinds, Statuses, PENDING_STATUSES, EInv, Shaped
<1> QED BY <1>1, <1>3, RewriteStep

LEMMA Step_deletePayout ==
  ASSUME EInv, NEW m \in Movers, deletePayout(m) PROVE EInv'
<1>1. "deleted" \in Kinds \ {"none"} /\ hidden \in SUBSET Payouts
  BY DEF Kinds, Statuses, EInv, Shaped
<1> QED BY <1>1, RewriteStep DEF deletePayout

LEMMA Step_processPayoutFails ==
  ASSUME EInv, NEW m \in Movers, processPayoutFails(m) PROVE EInv'
<1>1. "failed" \in Kinds \ {"none"} /\ hidden \in SUBSET Payouts
  BY DEF Kinds, Statuses, EInv, Shaped
<1> QED BY <1>1, RewriteStep DEF processPayoutFails

\* A compensation counts for its helper, or no longer does.
LEMMA Step_CompensationJoins ==
  ASSUME EInv, NEW c \in Compensations, CompensationJoins(c) PROVE EInv'
<1>1. /\ kept' = kept \cup {c} /\ Silent(c)
      /\ status' = status /\ hidden' = hidden /\ uncounted' = uncounted /\ mover' = mover
  BY DEF CompensationJoins
<1>2. Touches(c)
  BY <1>1 DEF Touches, Silent
<1>3. /\ status' \in [Payouts -> Kinds] /\ hidden' \subseteq Payouts
      /\ uncounted' \subseteq kept' /\ kept \subseteq kept' /\ kept' \subseteq Compensations
      /\ mover' \in [Movers -> Writes \cup {Idle}] /\ c \in Items
  BY <1>1 DEF EInv, Shaped, Items
<1> QED BY <1>1, <1>2, <1>3, SilentStep

LEMMA Step_CompensationDrops ==
  ASSUME EInv, NEW c \in Compensations, CompensationDrops(c) PROVE EInv'
<1>1. /\ c \in kept /\ uncounted' = uncounted \cup {c} /\ Silent(c)
      /\ status' = status /\ hidden' = hidden /\ kept' = kept /\ mover' = mover
  BY DEF CompensationDrops
<1>2. Touches(c)
  BY <1>1 DEF Touches, Silent
<1>3. /\ status' \in [Payouts -> Kinds] /\ hidden' \subseteq Payouts
      /\ uncounted' \subseteq kept' /\ kept \subseteq kept' /\ kept' \subseteq Compensations
      /\ mover' \in [Movers -> Writes \cup {Idle}] /\ c \in Items
  BY <1>1 DEF EInv, Shaped, Items
<1> QED BY <1>1, <1>2, <1>3, SilentStep

-----------------------------------------------------------------------------
(* An update reaches the row                                               *)

\* The update j has done a step: K is what is left of it, one step further.
Leaves(j, K) ==
  /\ j \in updates /\ updates' = (updates \ {j}) \cup K
  /\ \A k, l \in K : k = l
  /\ \A k \in K :
       /\ k \in PayoutUpdates /\ k.of = j.of /\ k.prev = j.prev /\ k.next = j.next
       /\ k.id = j.id /\ k.step \in {"clamp", "earn"}
       /\ k.step = "earn" => BecameCompleted(j)

LEMMA GoesLeaves ==
  ASSUME Shaped, NEW j \in updates, NEW next, Goes(j, next),
         \/ next = {}
         \/ /\ j \in PayoutUpdates
            /\ \E s \in {"clamp", "earn"} : next = {s} /\ (s = "earn" => BecameCompleted(j))
  PROVE  \E K : Leaves(j, K) /\ \A s : s \in next <=> \E k \in K : k.step = s
<1> DEFINE K == {[j EXCEPT !.step = step]: step \in next}
<1>1. updates' = (updates \ {j}) \cup K
  BY DEF Goes
<1>2. CASE next = {}
  <2>1. K = {}
    BY <1>2
  <2> HIDE DEF K
  <2>2. Leaves(j, K)
    BY <1>1, <2>1 DEF Leaves
  <2> QED BY <1>2, <2>1, <2>2
<1>3. CASE j \in PayoutUpdates
           /\ \E s \in {"clamp", "earn"} : next = {s} /\ (s = "earn" => BecameCompleted(j))
  <2>1. PICK s \in {"clamp", "earn"} : next = {s} /\ (s = "earn" => BecameCompleted(j))
    BY <1>3
  <2>2. K = {[j EXCEPT !.step = s]}
    BY <2>1
  <2> DEFINE k == [j EXCEPT !.step = s]
  <2>3. /\ k \in PayoutUpdates /\ k.of = j.of /\ k.prev = j.prev /\ k.next = j.next
        /\ k.id = j.id /\ k.step = s
    BY <1>3 DEF PayoutUpdates
  <2>4. K = {k}
    BY <2>2
  <2> HIDE DEF K, k
  <2>5. Leaves(j, K)
    BY <1>1, <2>1, <2>3, <2>4 DEF Leaves
  <2> QED BY <2>1, <2>3, <2>4, <2>5
<1> QED BY <1>2, <1>3

\* What is recorded of updates stays so.
LEMMA LeavesStep ==
  ASSUME Shaped, Recorded, NEW j, NEW K, Leaves(j, K), tables' = tables, moves' = moves
  PROVE  /\ Recorded' /\ Touches(j.of)
         /\ updates' \subseteq PayoutUpdates \cup CompensationUpdates
<1>1. status' = status /\ hidden' = hidden /\ kept' = kept /\ uncounted' = uncounted
  BY DEF tables
<1>2. Touches(j.of)
  BY <1>1 DEF Touches, Leaves
<1>3. updates' \subseteq PayoutUpdates \cup CompensationUpdates
  BY DEF Leaves, Shaped
<1>4. \A k \in updates' : k \in updates \/ k \in K
  BY DEF Leaves
<1>5. Recorded'
  <2>1. \A k \in updates' : k.id < moves'
    BY <1>4 DEF Leaves, Recorded
  <2>2. \A k, l \in updates' : k.id = l.id => k = l
    <3> SUFFICES ASSUME NEW k \in updates', NEW l \in updates', k.id = l.id PROVE k = l
      OBVIOUS
    <3>1. CASE k \in K /\ l \in K
      BY <3>1 DEF Leaves
    <3>2. CASE k \in K /\ l \notin K
      <4>1. l \in updates /\ l # j /\ j \in updates /\ l.id = j.id
        BY <3>2 DEF Leaves
      <4> QED BY <4>1 DEF Recorded
    <3>3. CASE k \notin K /\ l \in K
      <4>1. k \in updates /\ k # j /\ j \in updates /\ k.id = j.id
        BY <3>3 DEF Leaves
      <4> QED BY <4>1 DEF Recorded
    <3>4. CASE k \notin K /\ l \notin K
      BY <1>4, <3>4 DEF Recorded
    <3> QED BY <3>1, <3>2, <3>3, <3>4
  <2>3. \A k \in updates' : k.of \in Payouts =>
          status'[k.of] # "none" /\ (k.step = "earn" => BecameCompleted(k))
    BY <1>1, <1>4 DEF Leaves, Recorded, BecameCompleted
  <2>4. \A k \in updates' : k.of \in Compensations => k.of \in kept'
    BY <1>1, <1>4 DEF Leaves, Recorded
  <2> QED BY <2>1, <2>2, <2>3, <2>4 DEF Recorded, BecameCompleted
<1> QED BY <1>2, <1>3, <1>5

\* The only update of an item leaves only what is left of it.
LEMMA LeavesItem ==
  ASSUME NEW j, NEW K, Leaves(j, K), ItemInStep(j.of), tables' = tables
  PROVE  /\ ItemInStep(j.of)'
         /\ \A l \in updates : l.of = j.of => l = j
         /\ \A l \in updates' : l.of = j.of => l \in K
         /\ \A k \in K : k \in updates' /\ k.of = j.of
<1>1. status' = status /\ hidden' = hidden /\ kept' = kept /\ uncounted' = uncounted
  BY DEF tables
<1>2. \A l \in updates : l.of = j.of => l = j
  BY DEF Leaves, ItemInStep
<1>3. \A l \in updates' : l.of = j.of => l \in K
  BY <1>2 DEF Leaves
<1>4. \A k \in K : k \in updates' /\ k.of = j.of
  BY DEF Leaves
<1>5. ItemInStep(j.of)'
  <2>1. \A k, l \in updates' : k.of = j.of /\ l.of = j.of => k = l
    BY <1>3 DEF Leaves
  <2>2. j.of \in Payouts =>
          \A k \in updates' : k.of = j.of => j.of \notin hidden' /\ k.next = status'[j.of]
    BY <1>1, <1>3 DEF Leaves, ItemInStep
  <2>3. j.of \in Compensations => \A k \in updates' : k.of = j.of => j.of \notin uncounted'
    BY <1>1 DEF Leaves, ItemInStep
  <2> QED BY <2>1, <2>2, <2>3 DEF ItemInStep
<1> QED BY <1>2, <1>3, <1>4, <1>5

\* What the row counts of the payout, before and after.
LEMMA LeavesCounts ==
  ASSUME NEW j, NEW K, Leaves(j, K), ItemInStep(j.of), tables' = tables, j.of \in Payouts
  PROVE  /\ CountsPending(j.of) <=> IF j.step = "pending" THEN j.prev \in PENDING_STATUSES
                                    ELSE j.next \in PENDING_STATUSES
         /\ CountsPending(j.of)' <=> j.next \in PENDING_STATUSES
         /\ CountsPaid(j.of) <=> j.next = "completed" /\ ~BecameCompleted(j)
         /\ CountsPaid(j.of)' <=> j.next = "completed" /\ (BecameCompleted(j) => K = {})
<1> DEFINE p == j.of
<1>1. /\ status' = status /\ hidden' = hidden /\ p \notin hidden /\ j.next = status[p]
      /\ j \in updates
  BY DEF tables, Leaves, ItemInStep
<1>2. /\ \A l \in updates : l.of = p => l = j
      /\ \A l \in updates' : l.of = p => l \in K
      /\ \A k \in K : k \in updates' /\ k.of = p
  BY LeavesItem
<1>3. CountsPending(p) <=> IF j.step = "pending" THEN j.prev \in PENDING_STATUSES
                           ELSE j.next \in PENDING_STATUSES
  <2>1. Entering(p) <=> j.step = "pending"
    BY <1>1, <1>2 DEF Entering
  <2>2. j.step = "pending" =>
          ((\E l \in updates: l.of = p /\ l.step = "pending" /\ l.prev \in PENDING_STATUSES)
             <=> j.prev \in PENDING_STATUSES)
    BY <1>1, <1>2
  <2> QED BY <1>1, <2>1, <2>2 DEF CountsPending
<1>4. CountsPending(p)' <=> j.next \in PENDING_STATUSES
  <2>1. \A l \in updates' : ~(l.of = p /\ l.step = "pending")
    BY <1>2 DEF Leaves
  <2> HIDE DEF p
  <2> QED BY <1>1, <2>1 DEF CountsPending, Entering
<1>5. CountsPaid(p) <=> j.next = "completed" /\ ~BecameCompleted(j)
  BY <1>1, <1>2 DEF CountsPaid
<1>6. CountsPaid(p)' <=> j.next = "completed" /\ (BecameCompleted(j) => K = {})
  <2>1. \A k \in K : BecameCompleted(k) <=> BecameCompleted(j)
    BY DEF Leaves, BecameCompleted
  <2>2. (\A l \in updates' : l.of = p => ~BecameCompleted(l)) <=> (BecameCompleted(j) => K = {})
    BY <1>2, <2>1
  <2> QED BY <1>1, <2>2 DEF CountsPaid, BecameCompleted
<1> QED BY <1>3, <1>4, <1>5, <1>6

\* An update that changes the row as its item's sets change keeps the invariant.
LEMMA IncrementStep ==
  ASSUME EInv, NEW j \in updates, NEW K, Leaves(j, K), NEW row \in Rows \cup {NoRow},
         Increments(Owner[j.of], row),
         drift[Owner[j.of]] = "none" => RowFollows(Owner[j.of], j.of),
         row.row /\ row.pending < 0 =>
           \/ drift[Owner[j.of]] = "lost"
           \/ \E k \in updates' : Owner[k.of] = Owner[j.of] /\ k.step = "clamp"
  PROVE  EInv'
<1> DEFINE u == Owner[j.of]
<1> USE DEF EInv
<1>1. j.of \in Items /\ u \in Users
  <2>1. j \in PayoutUpdates \cup CompensationUpdates
    BY DEF Shaped
  <2>2. j.of \in Items
    BY <2>1 DEF PayoutUpdates, CompensationUpdates, Items
  <2> QED BY <2>2, OwnerUser
<1>2. /\ profile' = [profile EXCEPT ![u] = row] /\ Spoil(u) /\ tables' = tables
      /\ mover' = mover /\ moves' = moves /\ reader' = reader /\ drift' = drift
      /\ status' = status /\ hidden' = hidden /\ kept' = kept /\ uncounted' = uncounted
  BY DEF Increments, tables
<1>3. /\ Recorded' /\ Touches(j.of) /\ updates' \subseteq PayoutUpdates \cup CompensationUpdates
  BY <1>2, LeavesStep
<1>4. /\ profile' \in [Users -> Rows \cup {NoRow}] /\ profile'[u] = row
      /\ \A v \in Users : v # u => profile'[v] = profile[v]
  BY <1>1, <1>2 DEF Shaped
<1>5. /\ \A i \in Slots : Clean(i)' => slot'[i] = slot[i] /\ slot[i].user # u
      /\ slot' \in [Slots -> Recalculations \cup {Idle}]
      /\ \A i \in Slots : ForReader(slot'[i]) <=> ForReader(slot[i])
  BY <1>2, Spoiled
<1>6. Shaped'
  BY <1>2, <1>3, <1>4, <1>5 DEF Shaped
<1>7. Awaited'
  BY <1>2, <1>5 DEF Awaited
<1>8. AboutItem(j.of)
  <2>1. drift[u] = "none" => ItemInStep(j.of)'
    <3>1. drift[u] = "none" => ItemInStep(j.of)
      BY <1>1 DEF Books, BooksOf, InStep
    <3> QED BY <1>2, <3>1, LeavesItem
  <2>2. /\ j.of \in CompletedSet(u) => j.of \in CompletedSet(u)'
        /\ j.of \in CompensationSet(u) => j.of \in CompensationSet(u)'
    BY <1>2 DEF CompletedSet, CompensationSet
  <2> QED BY <1>1, <1>2, <1>3, <1>4, <1>5, <2>1, <2>2 DEF AboutItem
<1>9. PendingNotNegative'
  <2> SUFFICES ASSUME NEW v \in Users, profile'[v].row, profile'[v].pending < 0
               PROVE  drift'[v] = "lost" \/ \E k \in UpdatesOf(v)' : k.step = "clamp"
    BY DEF PendingNotNegative
  <2>1. CASE v = u
    BY <1>2, <1>4, <2>1 DEF UpdatesOf
  <2>2. CASE v # u
    <3>1. drift[v] = "lost" \/ \E k \in UpdatesOf(v) : k.step = "clamp"
      BY <1>4, <2>2 DEF PendingNotNegative
    <3>2. UpdatesOf(v) \subseteq UpdatesOf(v)'
      BY <2>2 DEF UpdatesOf, Leaves
    <3> QED BY <1>2, <3>1, <3>2
  <2> QED BY <2>1, <2>2
<1> QED BY <1>3, <1>6, <1>7, <1>8, <1>9, ItemBooks, ItemClean, ItemOverlay

\* Only updates of payouts have more than one step.
LEMMA PendingIsPayout ==
  ASSUME Shaped, NEW j \in updates, j.step # "earn"
  PROVE  j \in PayoutUpdates /\ j.of \in Payouts /\ j.of \notin Compensations
BY EarningsAssumption DEF Shaped, PayoutUpdates, CompensationUpdates

\* A new row holds what it is made of.
LEMMA RowIsTyped ==
  ASSUME NEW paid \in Nat, NEW comp \in Nat, NEW pending \in Int
  PROVE  /\ Row(paid, comp, pending) \in Rows
         /\ Row(paid, comp, pending).row = TRUE
         /\ Row(paid, comp, pending).paid = paid /\ Row(paid, comp, pending).comp = comp
         /\ Row(paid, comp, pending).pending = pending
BY DEF Row, Rows

\* A row holds amounts, and no row counts as an empty one.
LEMMA RowOf ==
  ASSUME Shaped, NEW u \in Users
  PROVE  /\ profile[u] \in Rows \cup {NoRow}
         /\ profile[u].row => /\ profile[u] \in Rows
                              /\ profile[u].paid \in Nat /\ profile[u].comp \in Nat
                              /\ profile[u].pending \in Int
         /\ ~profile[u].row => /\ PaidIn(profile[u]) = 0 /\ CompIn(profile[u]) = 0
                               /\ PendingIn(profile[u]) = 0
<1>1. profile[u] \in Rows \cup {NoRow}
  BY DEF Shaped
<1>2. profile[u].row => profile[u] \in Rows
  BY <1>1 DEF NoRow
<1>3. profile[u] \in Rows =>
        profile[u].paid \in Nat /\ profile[u].comp \in Nat /\ profile[u].pending \in Int
  BY DEF Rows
<1> QED BY <1>1, <1>2, <1>3 DEF PaidIn, CompIn, PendingIn

\* The pending sum changes as the payout enters or leaves it.
LEMMA Step_applyPendingToProfile ==
  ASSUME EInv, NEW j \in updates, applyPendingToProfile(j)
  PROVE  EInv'
<1> DEFINE p == j.of
           u == Owner[p]
           a == Amount[p]
           row == profile[u]
           was == j.prev \in PENDING_STATUSES
           is == j.next \in PENDING_STATUSES
           added == [row EXCEPT !.pending = IF is THEN @ + a ELSE @ - a, !.fresh = TRUE]
           R == IF was = is THEN row
                ELSE IF ~row.row THEN Row(0, 0, IF is THEN a ELSE 0) ELSE added
           next == IF was /\ ~is THEN {"clamp"} ELSE IF BecameCompleted(j) THEN {"earn"} ELSE {}
<1> USE DEF EInv
<1>1. j.step = "pending" /\ Increments(u, R) /\ Goes(j, next)
  <2>1. CASE was = is
    BY <2>1 DEF applyPendingToProfile
  <2>2. CASE was # is /\ ~row.row
    BY <2>2 DEF applyPendingToProfile
  <2>3. CASE was # is /\ row.row
    BY <2>3 DEF applyPendingToProfile
  <2> QED BY <2>1, <2>2, <2>3
<1>2. /\ j \in PayoutUpdates /\ p \in Payouts /\ p \notin Compensations /\ p \in Items
      /\ u \in Users /\ a \in Nat
  BY <1>1, PendingIsPayout, OwnerUser, AmountNat DEF Items
<1>3. PICK K : Leaves(j, K) /\ \A s : s \in next <=> \E k \in K : k.step = s
  <2>1. \/ next = {}
        \/ \E s \in {"clamp", "earn"} : next = {s} /\ (s = "earn" => BecameCompleted(j))
    OBVIOUS
  <2> HIDE DEF next
  <2> QED BY <1>1, <1>2, <2>1, GoesLeaves
<1>4. /\ tables' = tables /\ profile' = [profile EXCEPT ![u] = R] /\ profile'[u] = R
  BY <1>1, <1>2 DEF Increments, Shaped, tables
<1>5. /\ row \in Rows \cup {NoRow}
      /\ row.row => row \in Rows /\ row.paid \in Nat /\ row.comp \in Nat /\ row.pending \in Int
      /\ ~row.row => PaidIn(row) = 0 /\ CompIn(row) = 0 /\ PendingIn(row) = 0
  BY <1>2, RowOf
<1>6. row.row => /\ added \in Rows /\ added.row = TRUE /\ added.paid = row.paid
                 /\ added.comp = row.comp
                 /\ added.pending = IF is THEN row.pending + a ELSE row.pending - a
  <2> SUFFICES ASSUME row.row
               PROVE  /\ added \in Rows /\ added.row = TRUE /\ added.paid = row.paid
                      /\ added.comp = row.comp
                      /\ added.pending = IF is THEN row.pending + a ELSE row.pending - a
    OBVIOUS
  <2>1. row \in Rows /\ row.pending \in Int /\ a \in Int
    BY <1>2, <1>5
  <2> DEFINE n == IF is THEN row.pending + a ELSE row.pending - a
  <2>2. n \in Int
    BY <2>1
  <2>3. added = [row EXCEPT !.pending = n, !.fresh = TRUE]
    BY <2>1 DEF Rows
  <2> HIDE DEF n, added, row
  <2>4. added \in Rows /\ added.paid = row.paid /\ added.comp = row.comp /\ added.pending = n
    BY <2>1, <2>2, <2>3 DEF Rows
  <2>5. added.row = TRUE
    BY <2>4, Zenon DEF Rows
  <2> QED BY <2>4, <2>5 DEF n
<1> HIDE DEF added, row
<1>7. /\ (was /\ is) \/ (~was /\ ~is) => R = row
      /\ (was /\ ~is) \/ (~was /\ is) =>
           /\ ~row.row => /\ R \in Rows /\ R.row = TRUE /\ R.paid = 0 /\ R.comp = 0
                          /\ R.pending = IF is THEN a ELSE 0
           /\ row.row => R = added
  <2> DEFINE n == IF is THEN a ELSE 0
  <2>1. n \in Int
    BY <1>2
  <2> DEFINE new == Row(0, 0, n)
  <2>2. /\ new \in Rows /\ new.row = TRUE /\ new.paid = 0 /\ new.comp = 0
        /\ new.pending = n
    <3> HIDE DEF n
    <3> QED BY <2>1 DEF Row, Rows
  <2> HIDE DEF new
  <2>3. (was /\ is) \/ (~was /\ ~is) => R = row
    OBVIOUS
  <2>4. (was /\ ~is) \/ (~was /\ is) => R = IF ~row.row THEN new ELSE added
    BY DEF new
  <2> HIDE DEF R
  <2> QED BY <2>2, <2>3, <2>4
<1> HIDE DEF R
<1>71. R \in Rows \cup {NoRow}
  BY <1>5, <1>6, <1>7
<1>8. ASSUME drift[u] = "none" PROVE RowFollows(u, p)
  <2>1. ItemInStep(p) /\ Counted(u)
    BY <1>2, <1>8 DEF Books, BooksOf, InStep
  <2>2. /\ CountsPending(p) <=> was
        /\ CountsPending(p)' <=> is
        /\ CountsPaid(p) <=> j.next = "completed" /\ ~BecameCompleted(j)
        /\ CountsPaid(p)' <=> j.next = "completed" /\ (BecameCompleted(j) => K = {})
    BY <1>1, <1>2, <1>3, <1>4, <2>1, LeavesCounts
  <2>3. BecameCompleted(j) => K # {}
    BY <1>3
  <2>4. /\ p \in PendingCounted(u) <=> was
        /\ p \in PendingCounted(u)' <=> is
        /\ p \in PaidCounted(u)' <=> p \in PaidCounted(u)
        /\ p \notin CompCounted(u) /\ p \notin CompCounted(u)'
    BY <1>2, <2>2, <2>3, SetsOf
  <2>5. ~row.row /\ was => a = 0
    <3> SUFFICES ASSUME ~row.row, was PROVE a = 0
      OBVIOUS
    <3>1. Sum(PendingCounted(u)) = 0 /\ p \in PendingCounted(u)
      BY <1>5, <2>1, <2>4 DEF Counted, row
    <3>2. /\ Sum(PendingCounted(u)) = Sum(PendingCounted(u) \ {p}) + a
          /\ Sum(PendingCounted(u) \ {p}) \in Nat
      BY <3>1, AllItems, SumWithout, SumTyped
    <3> QED BY <1>2, <3>1, <3>2
  <2>6. PaidIn(R) = PaidIn(row) /\ CompIn(R) = CompIn(row)
    BY <1>5, <1>6, <1>7 DEF PaidIn, CompIn
  <2>7. PendingIn(R) = PendingIn(row) + (IF is THEN a ELSE 0) - (IF was THEN a ELSE 0)
    <3> PendingIn(row) \in Int /\ a \in Int
      BY <1>2, RowTyped DEF row
    <3>1. CASE (was /\ is) \/ (~was /\ ~is)
      BY <1>7, <3>1
    <3>2. CASE ((was /\ ~is) \/ (~was /\ is)) /\ ~row.row
      <4>1. PendingIn(R) = IF is THEN a ELSE 0
        BY <1>7, <3>2 DEF PendingIn
      <4> QED BY <1>5, <2>5, <3>2, <4>1
    <3>3. CASE ((was /\ ~is) \/ (~was /\ is)) /\ row.row
      <4>1. PendingIn(R) = IF is THEN row.pending + a ELSE row.pending - a
        BY <1>6, <1>7, <3>3 DEF PendingIn
      <4>2. PendingIn(row) = row.pending
        BY <3>3 DEF PendingIn
      <4> QED BY <1>5, <3>3, <4>1, <4>2
    <3> QED BY <3>1, <3>2, <3>3
  <2>8. /\ Gained(p \in PendingCounted(u)', p) = IF is THEN a ELSE 0
        /\ Gained(p \in PendingCounted(u), p) = IF was THEN a ELSE 0
        /\ Gained(p \in PaidCounted(u)', p) = Gained(p \in PaidCounted(u), p)
        /\ Gained(p \in PaidCounted(u), p) \in Int
        /\ Gained(p \in CompCounted(u)', p) = 0 /\ Gained(p \in CompCounted(u), p) = 0
    BY <1>2, <2>4 DEF Gained
  <2>9. PaidIn(row) \in Int /\ CompIn(row) \in Int
    BY <1>2, RowTyped DEF row
  <2>10. /\ PaidIn(R) = PaidIn(profile[u])
              + Gained(p \in PaidCounted(u)', p) - Gained(p \in PaidCounted(u), p)
         /\ CompIn(R) = CompIn(profile[u])
              + Gained(p \in CompCounted(u)', p) - Gained(p \in CompCounted(u), p)
    BY <2>6, <2>8, <2>9 DEF row
  <2>11. PendingIn(R) = PendingIn(profile[u])
           + Gained(p \in PendingCounted(u)', p) - Gained(p \in PendingCounted(u), p)
    BY <2>7, <2>8 DEF row
  <2> QED BY <1>4, <2>10, <2>11 DEF RowFollows
<1>9. ASSUME R.row, R.pending < 0
      PROVE  \/ drift[u] = "lost"
             \/ \E k \in updates' : Owner[k.of] = u /\ k.step = "clamp"
  <2>1. CASE was /\ ~is
    <3>1. \E k \in K : k.step = "clamp" /\ Owner[k.of] = u /\ k \in updates'
      BY <1>3, <2>1 DEF Leaves
    <3> QED BY <3>1
  <2>2. CASE ~(was /\ ~is)
    <3>1. row.row /\ row.pending < 0
      BY <1>2, <1>5, <1>6, <1>7, <1>9, <2>2
    <3>2. drift[u] = "lost" \/ \E k \in UpdatesOf(u) : k.step = "clamp"
      BY <1>2, <3>1 DEF PendingNotNegative, row
    <3>3. \A k \in UpdatesOf(u) : k.step = "clamp" => k \in updates' /\ Owner[k.of] = u
      BY <1>1, <1>3 DEF Leaves, UpdatesOf
    <3> QED BY <3>2, <3>3
  <2> QED BY <2>1, <2>2
<1> QED BY <1>1, <1>3, <1>71, <1>8, <1>9, IncrementStep

\* A negative sum is an account's that drifted, so that nothing is cut off.
LEMMA Step_clampPending ==
  ASSUME EInv, NEW j \in updates, clampPending(j)
  PROVE  EInv'
<1> DEFINE p == j.of
           u == Owner[p]
           row == profile[u]
           R == IF row.row /\ row.pending < 0 THEN [row EXCEPT !.pending = 0] ELSE row
           next == IF BecameCompleted(j) THEN {"earn"} ELSE {}
<1> USE DEF EInv
<1>1. j.step = "clamp" /\ Increments(u, R) /\ Goes(j, next)
  BY DEF clampPending
<1>2. /\ j \in PayoutUpdates /\ p \in Payouts /\ p \notin Compensations /\ p \in Items
      /\ u \in Users
  BY <1>1, PendingIsPayout, OwnerUser DEF Items
<1>3. PICK K : Leaves(j, K) /\ \A s : s \in next <=> \E k \in K : k.step = s
  <2>1. \/ next = {}
        \/ \E s \in {"clamp", "earn"} : next = {s} /\ (s = "earn" => BecameCompleted(j))
    OBVIOUS
  <2> HIDE DEF next
  <2> QED BY <1>1, <1>2, <2>1, GoesLeaves
<1>4. /\ tables' = tables /\ profile' = [profile EXCEPT ![u] = R] /\ profile'[u] = R
  BY <1>1, <1>2 DEF Increments, Shaped, tables
<1>5. /\ row \in Rows \cup {NoRow}
      /\ row.row => row \in Rows /\ row.pending \in Int
  BY <1>2, RowOf
<1>6. R \in Rows \cup {NoRow} /\ (R.row => ~(R.pending < 0))
  <2>1. CASE row.row /\ row.pending < 0
    <3>1. R = [row EXCEPT !.pending = 0] /\ row \in Rows
      BY <1>5, <2>1
    <3> HIDE DEF R, row
    <3>2. 0 \in Int
      OBVIOUS
    <3>3. R.pending = 0
      BY <3>1 DEF Rows
    <3>4. R \in Rows
      BY <3>1, <3>2, Zenon DEF Rows
    <3> QED BY <3>3, <3>4
  <2>2. CASE ~(row.row /\ row.pending < 0)
    <3>1. R = row
      BY <2>2
    <3> HIDE DEF R, row
    <3> QED BY <1>5, <2>2, <3>1
  <2> QED BY <2>1, <2>2
<1>7. ASSUME drift[u] = "none" PROVE RowFollows(u, p)
  <2>1. ItemInStep(p) /\ Counted(u)
    BY <1>2, <1>7 DEF Books, BooksOf, InStep
  <2>2. /\ CountsPending(p) <=> j.next \in PENDING_STATUSES
        /\ CountsPending(p)' <=> j.next \in PENDING_STATUSES
        /\ CountsPaid(p) <=> j.next = "completed" /\ ~BecameCompleted(j)
        /\ CountsPaid(p)' <=> j.next = "completed" /\ (BecameCompleted(j) => K = {})
    <3>1. j.step # "pending"
      BY <1>1
    <3> QED BY <1>2, <1>3, <1>4, <2>1, <3>1, LeavesCounts
  <2>3. BecameCompleted(j) => K # {}
    BY <1>3
  <2>4. /\ p \in PendingCounted(u)' <=> p \in PendingCounted(u)
        /\ p \in PaidCounted(u)' <=> p \in PaidCounted(u)
        /\ p \in CompCounted(u)' <=> p \in CompCounted(u)
    BY <1>2, <2>2, <2>3, SetsOf
  <2>5. row.row => ~(row.pending < 0)
    <3>1. row.row => row.pending = Sum(PendingCounted(u))
      BY <2>1 DEF Counted, PendingIn
    <3>2. Sum(PendingCounted(u)) \in Nat
      BY AllItems, SumTyped
    <3> HIDE DEF row
    <3> QED BY <3>1, <3>2
  <2>6. profile' = profile
    <3>1. R = row
      BY <2>5
    <3> HIDE DEF R
    <3> QED BY <1>2, <1>4, <3>1 DEF Shaped
  <2> QED BY <1>2, <2>4, <2>6, RowStays
<1> HIDE DEF R, row
<1> QED BY <1>1, <1>3, <1>6, <1>7, IncrementStep

\* What became earned is added once.
LEMMA Step_updateUserPaymentProfile ==
  ASSUME EInv, NEW j \in updates, updateUserPaymentProfile(j)
  PROVE  EInv'
<1> DEFINE x == j.of
           u == Owner[x]
           paid == IF x \in Payouts THEN Amount[x] ELSE 0
           comp == IF x \in Payouts THEN 0 ELSE Amount[x]
           row == profile[u]
           new == Row(paid, comp, 0)
           added == [row EXCEPT !.paid = @ + paid, !.comp = @ + comp, !.fresh = TRUE]
           R == IF ~row.row THEN new ELSE added
<1> USE DEF EInv
<1>1. j.step = "earn" /\ Increments(u, R) /\ Goes(j, {})
  <2>1. CASE ~row.row
    BY <2>1 DEF updateUserPaymentProfile
  <2>2. CASE row.row
    BY <2>2 DEF updateUserPaymentProfile
  <2> QED BY <2>1, <2>2
<1>2. /\ x \in Items /\ u \in Users /\ paid \in Nat /\ comp \in Nat
      /\ x \in Payouts <=> x \notin Compensations
  <2>1. j \in PayoutUpdates \cup CompensationUpdates
    BY DEF Shaped
  <2>2. x \in Items
    BY <2>1 DEF PayoutUpdates, CompensationUpdates, Items
  <2> QED BY <2>2, OwnerUser, AmountNat, EarningsAssumption DEF Items
<1>3. Leaves(j, {})
  BY <1>1 DEF Goes, Leaves
<1>4. /\ tables' = tables /\ profile' = [profile EXCEPT ![u] = R] /\ profile'[u] = R
  BY <1>1, <1>2 DEF Increments, Shaped, tables
<1>5. /\ row \in Rows \cup {NoRow}
      /\ row.row => row \in Rows /\ row.paid \in Nat /\ row.comp \in Nat /\ row.pending \in Int
      /\ ~row.row => PaidIn(row) = 0 /\ CompIn(row) = 0 /\ PendingIn(row) = 0
  BY <1>2, RowOf
<1>6. /\ new \in Rows /\ new.row = TRUE /\ new.paid = paid /\ new.comp = comp
      /\ new.pending = 0
  <2> HIDE DEF paid, comp
  <2> QED BY <1>2 DEF Row, Rows
<1>7. ASSUME row.row
      PROVE  /\ added \in Rows /\ added.row = TRUE /\ added.paid = row.paid + paid
             /\ added.comp = row.comp + comp /\ added.pending = row.pending
  <2> DEFINE n == row.paid + paid
             m == row.comp + comp
  <2>1. row \in Rows /\ n \in Nat /\ m \in Nat
    BY <1>2, <1>5, <1>7
  <2>2. added = [row EXCEPT !.paid = n, !.comp = m, !.fresh = TRUE]
    BY <2>1 DEF Rows
  <2> HIDE DEF n, m, added, row
  <2>3. /\ added \in Rows /\ added.paid = n /\ added.comp = m /\ added.pending = row.pending
    BY <2>1, <2>2 DEF Rows
  <2>4. added.row = TRUE
    BY <2>3, Zenon DEF Rows
  <2> QED BY <2>3, <2>4 DEF n, m
<1> HIDE DEF new, added, row
<1>8. /\ R \in Rows /\ R.row = TRUE /\ PaidIn(R) = PaidIn(row) + paid
      /\ CompIn(R) = CompIn(row) + comp /\ PendingIn(R) = PendingIn(row)
      /\ R.pending = PendingIn(row)
  <2> HIDE DEF paid, comp
  <2>1. CASE ~row.row
    <3>1. R = new
      BY <2>1
    <3> HIDE DEF R
    <3> QED BY <1>2, <1>5, <1>6, <2>1, <3>1 DEF PaidIn, CompIn, PendingIn
  <2>2. CASE row.row
    <3>1. R = added
      BY <2>2
    <3> HIDE DEF R
    <3> QED BY <1>7, <2>2, <3>1 DEF PaidIn, CompIn, PendingIn
  <2> QED BY <2>1, <2>2
<1> HIDE DEF R
<1>9. PaidIn(row) \in Nat /\ CompIn(row) \in Nat /\ PendingIn(row) \in Int
  BY <1>2, RowTyped DEF row
<1>10. ASSUME drift[u] = "none" PROVE RowFollows(u, x)
  <2>1. ItemInStep(x) /\ tables' = tables
    BY <1>2, <1>4, <1>10 DEF Books, BooksOf, InStep
  <2>2. CASE x \in Payouts
    <3>1. BecameCompleted(j) /\ j.next = "completed"
      BY <1>1, <2>2 DEF Recorded, BecameCompleted
    <3>2. /\ CountsPending(x) <=> j.next \in PENDING_STATUSES
          /\ CountsPending(x)' <=> j.next \in PENDING_STATUSES
          /\ CountsPaid(x) <=> j.next = "completed" /\ ~BecameCompleted(j)
          /\ CountsPaid(x)' <=> j.next = "completed" /\ (BecameCompleted(j) => {} = {})
      <4>1. j.step # "pending"
        BY <1>1
      <4> QED BY <1>3, <2>1, <2>2, <4>1, LeavesCounts
    <3>3. /\ x \in PendingCounted(u)' <=> x \in PendingCounted(u)
          /\ x \notin PaidCounted(u) /\ x \in PaidCounted(u)'
          /\ x \notin CompCounted(u) /\ x \notin CompCounted(u)'
      BY <1>2, <2>2, <3>1, <3>2, SetsOf
    <3>4. /\ Gained(x \in PaidCounted(u)', x) = paid /\ Gained(x \in PaidCounted(u), x) = 0
          /\ Gained(x \in CompCounted(u)', x) = comp /\ Gained(x \in CompCounted(u), x) = 0
          /\ Gained(x \in PendingCounted(u)', x) = Gained(x \in PendingCounted(u), x)
          /\ Gained(x \in PendingCounted(u), x) \in Nat
      BY <1>2, <2>2, <3>3, AmountNat DEF Gained
    <3> HIDE DEF paid, comp
    <3>5. PaidIn(profile'[u]) = PaidIn(profile[u])
            + Gained(x \in PaidCounted(u)', x) - Gained(x \in PaidCounted(u), x)
      BY <1>2, <1>4, <1>8, <1>9, <3>4 DEF row
    <3>6. CompIn(profile'[u]) = CompIn(profile[u])
            + Gained(x \in CompCounted(u)', x) - Gained(x \in CompCounted(u), x)
      BY <1>2, <1>4, <1>8, <1>9, <3>4 DEF row
    <3>7. PendingIn(profile'[u]) = PendingIn(profile[u])
            + Gained(x \in PendingCounted(u)', x) - Gained(x \in PendingCounted(u), x)
      BY <1>2, <1>4, <1>8, <1>9, <3>4 DEF row
    <3> QED BY <3>5, <3>6, <3>7 DEF RowFollows
  <2>3. CASE x \notin Payouts
    <3>1. /\ x \in Compensations /\ x \in kept /\ kept' = kept /\ j \in updates
          /\ uncounted' = uncounted /\ x \notin uncounted
      BY <1>2, <1>4, <2>1, <2>3 DEF Recorded, tables, ItemInStep
    <3>2. \A l \in updates' : l.of # x
      BY <1>3, <2>1, LeavesItem
    <3>3. /\ x \notin PendingCounted(u)' /\ x \notin PendingCounted(u)
          /\ x \notin PaidCounted(u) /\ x \notin PaidCounted(u)'
          /\ x \notin CompCounted(u) /\ x \in CompCounted(u)'
      <4>1. ~CountsComp(x)
        BY <3>1 DEF CountsComp
      <4>2. CountsComp(x)'
        BY <3>1, <3>2 DEF CountsComp
      <4> QED BY <1>2, <2>3, <3>1, <4>1, <4>2, SetsOf
    <3>4. /\ Gained(x \in PaidCounted(u)', x) = paid /\ Gained(x \in PaidCounted(u), x) = 0
          /\ Gained(x \in CompCounted(u)', x) = comp /\ Gained(x \in CompCounted(u), x) = 0
          /\ Gained(x \in PendingCounted(u)', x) = 0 /\ Gained(x \in PendingCounted(u), x) = 0
      BY <1>2, <2>3, <3>3, AmountNat DEF Gained
    <3> HIDE DEF paid, comp
    <3>5. PaidIn(profile'[u]) = PaidIn(profile[u])
            + Gained(x \in PaidCounted(u)', x) - Gained(x \in PaidCounted(u), x)
      BY <1>2, <1>4, <1>8, <1>9, <3>4 DEF row
    <3>6. CompIn(profile'[u]) = CompIn(profile[u])
            + Gained(x \in CompCounted(u)', x) - Gained(x \in CompCounted(u), x)
      BY <1>2, <1>4, <1>8, <1>9, <3>4 DEF row
    <3>7. PendingIn(profile'[u]) = PendingIn(profile[u])
            + Gained(x \in PendingCounted(u)', x) - Gained(x \in PendingCounted(u), x)
      BY <1>2, <1>4, <1>8, <1>9, <3>4 DEF row
    <3> QED BY <3>5, <3>6, <3>7 DEF RowFollows
  <2> QED BY <2>2, <2>3
<1>11. ASSUME R.row, R.pending < 0
       PROVE  \/ drift[u] = "lost"
              \/ \E k \in updates' : Owner[k.of] = u /\ k.step = "clamp"
  <2>1. row.row /\ row.pending < 0
    BY <1>5, <1>8, <1>9, <1>11 DEF PendingIn
  <2>2. drift[u] = "lost" \/ \E k \in UpdatesOf(u) : k.step = "clamp"
    BY <1>2, <2>1 DEF PendingNotNegative, row
  <2>3. \A k \in UpdatesOf(u) : k.step = "clamp" => k \in updates' /\ Owner[k.of] = u
    BY <1>1, <1>3 DEF Leaves, UpdatesOf
  <2> QED BY <2>2, <2>3
<1> QED BY <1>1, <1>3, <1>8, <1>10, <1>11, IncrementStep

\* A lost update makes its account drift, and no recalculation of it is clean.
LEMMA Step_LoseUpdate ==
  ASSUME EInv, NEW j \in updates, LoseUpdate(j)
  PROVE  EInv'
<1> DEFINE u == Owner[j.of]
<1> USE DEF EInv
<1>1. j.of \in Items /\ u \in Users
  <2>1. j \in PayoutUpdates \cup CompensationUpdates
    BY DEF Shaped
  <2>2. j.of \in Items
    BY <2>1 DEF PayoutUpdates, CompensationUpdates, Items
  <2> QED BY <2>2, OwnerUser
<1>2. /\ updates' = updates \ {j} /\ drift' = [drift EXCEPT ![u] = "lost"]
      /\ tables' = tables /\ profile' = profile /\ mover' = mover /\ moves' = moves
      /\ slot' = slot /\ reader' = reader
      /\ status' = status /\ hidden' = hidden /\ kept' = kept /\ uncounted' = uncounted
  BY DEF LoseUpdate, tables
<1>3. Leaves(j, {})
  BY <1>2 DEF Leaves
<1>4. /\ Recorded' /\ Touches(j.of) /\ updates' \subseteq PayoutUpdates \cup CompensationUpdates
  BY <1>2, <1>3, LeavesStep
<1>5. /\ drift' \in [Users -> Drift] /\ drift'[u] = "lost"
      /\ \A v \in Users : v # u => drift'[v] = drift[v]
  BY <1>1, <1>2 DEF Shaped, Drift
<1>6. Shaped'
  BY <1>2, <1>4, <1>5 DEF Shaped
<1>7. Awaited'
  BY <1>2 DEF Awaited
<1>8. AboutItem(j.of)
  <2>1. \A i \in Slots : Clean(i)' => slot'[i] = slot[i] /\ slot[i].user # u
    <3> SUFFICES ASSUME NEW i \in Slots, Clean(i) PROVE slot[i].user # u
      BY <1>2 DEF Clean
    <3>1. UpdatesOf(slot[i].user) = {}
      BY DEF CleanInv, ReadsNow
    <3> QED BY <3>1 DEF UpdatesOf
  <2> QED BY <1>1, <1>2, <1>4, <1>5, <2>1 DEF AboutItem
<1>9. PendingNotNegative'
  <2> SUFFICES ASSUME NEW v \in Users, profile[v].row, profile[v].pending < 0, v # u
               PROVE  drift'[v] = "lost" \/ \E k \in UpdatesOf(v)' : k.step = "clamp"
    BY <1>2, <1>5 DEF PendingNotNegative
  <2>1. drift[v] = "lost" \/ \E k \in UpdatesOf(v) : k.step = "clamp"
    BY DEF PendingNotNegative
  <2>2. UpdatesOf(v) \subseteq UpdatesOf(v)'
    BY <1>2 DEF UpdatesOf
  <2> QED BY <1>5, <2>1, <2>2
<1> QED BY <1>4, <1>6, <1>7, <1>8, <1>9, ItemBooks, ItemClean, ItemOverlay

-----------------------------------------------------------------------------
(* Requests and recalculations                                             *)

\* A step of a request or recalculation, as a step of the whole.
LEMMA QuietEnd ==
  ASSUME EInv, Quiet, profile' = profile, drift' = drift, moves' = moves, ReaderGoesOn,
         \A i \in Slots : Clean(i)' => ReadsNow(slot'[i]), Awaited',
         mover' \in [Movers -> Writes \cup {Idle}],
         slot' \in [Slots -> Recalculations \cup {Idle}],
         reader' \in Asked \cup Overlays \cup {Idle}
  PROVE  EInv'
<1>1. Shaped'
  BY DEF EInv, Shaped, Quiet, tables
<1>2. Recorded'
  BY DEF EInv, Recorded, Quiet, tables, BecameCompleted
<1>3. Books' /\ CleanInv' /\ OverlayInv' /\ PendingNotNegative'
  BY QuietStep DEF EInv
<1> QED BY <1>1, <1>2, <1>3 DEF EInv

\* A mover takes down a payout that exists, and its status.
LEMMA Step_ReadPayout ==
  ASSUME EInv, NEW m \in Movers, NEW p \in Payouts, ReadPayout(m, p)
  PROVE  EInv'
<1> USE DEF EInv
<1>1. /\ Quiet /\ profile' = profile /\ drift' = drift /\ moves' = moves
      /\ slot' = slot /\ reader' = reader
  BY DEF ReadPayout, Quiet, tables
<1>2. mover' \in [Movers -> Writes \cup {Idle}]
  <2>1. status[p] \in Statuses
    BY DEF ReadPayout, Exists, Shaped, Kinds
  <2>2. [step |-> "write", payout |-> p, status |-> status[p]] \in Writes
    BY <2>1 DEF Writes
  <2> QED BY <2>2 DEF ReadPayout, Shaped
<1>3. ReaderGoesOn /\ \A i \in Slots : Clean(i)' => ReadsNow(slot'[i])
  BY <1>1 DEF ReaderGoesOn, Clean, CleanInv
<1>4. Awaited'
  BY <1>1 DEF Awaited
<1> QED BY <1>1, <1>2, <1>3, <1>4, QuietEnd DEF Shaped

\* A write to a payout that was deleted does nothing.
LEMMA Step_WriteFails ==
  ASSUME EInv, NEW m \in Movers, WriteFails(m)
  PROVE  EInv'
<1> USE DEF EInv
<1>1. /\ Quiet /\ profile' = profile /\ drift' = drift /\ moves' = moves
      /\ slot' = slot /\ reader' = reader /\ mover' = [mover EXCEPT ![m] = Idle]
  BY DEF WriteFails, Quiet, tables
<1>2. mover' \in [Movers -> Writes \cup {Idle}]
  BY <1>1 DEF Shaped
<1>3. ReaderGoesOn /\ \A i \in Slots : Clean(i)' => ReadsNow(slot'[i])
  BY <1>1 DEF ReaderGoesOn, Clean, CleanInv
<1>4. Awaited'
  BY <1>1 DEF Awaited
<1> QED BY <1>1, <1>2, <1>3, <1>4, QuietEnd DEF Shaped

\* A recalculation that starts clean starts without updates, and has read nothing.
LEMMA StartsTyped ==
  ASSUME NEW u \in Users, NEW for \in {"background", "reader"}
  PROVE  LET r == Starts(u, for) IN
         /\ r \in Recalculations
         /\ r.clean => ReadsNow(r)
         /\ ForReader(r) <=> for = "reader"
<1>1. (UpdatesOf(u) = {}) \in BOOLEAN
  OBVIOUS
<1>2. Starts(u, for) \in Recalculations
  BY DEF Starts, Recalculations, Sums0
<1>3. Starts(u, for).clean => ReadsNow(Starts(u, for))
  BY DEF Starts, ReadsNow
<1>4. ForReader(Starts(u, for)) <=> for = "reader"
  BY DEF Starts, ForReader
<1> QED BY <1>2, <1>3, <1>4

\* It takes a free slot.
LEMMA SlotStarts ==
  ASSUME Shaped, CleanInv, NEW i \in Slots, slot[i] = Idle, NEW u \in Users,
         NEW for \in {"background", "reader"}, slot' = [slot EXCEPT ![i] = Starts(u, for)]
  PROVE  /\ slot' \in [Slots -> Recalculations \cup {Idle}]
         /\ \A k \in Slots : Clean(k)' => ReadsNow(slot'[k])
         /\ ForReader(slot'[i]) <=> for = "reader"
         /\ ~ForReader(slot[i])
         /\ \A k \in Slots : k # i => slot'[k] = slot[k]
<1>1. slot'[i] = Starts(u, for) /\ \A k \in Slots : k # i => slot'[k] = slot[k]
  BY DEF Shaped
<1>2. slot' \in [Slots -> Recalculations \cup {Idle}]
  BY StartsTyped DEF Shaped
<1>3. ASSUME NEW k \in Slots, Clean(k)' PROVE ReadsNow(slot'[k])
  <2>1. CASE k = i
    BY <1>1, <1>3, <2>1, StartsTyped DEF Clean
  <2>2. CASE k # i
    BY <1>1, <1>3, <2>2 DEF Clean, CleanInv
  <2> QED BY <2>1, <2>2
<1>4. ForReader(slot'[i]) <=> for = "reader"
  BY <1>1, StartsTyped
<1>5. ~ForReader(slot[i])
  BY DEF ForReader, Idle
<1> QED BY <1>1, <1>2, <1>3, <1>4, <1>5

\* A recalculation in the background keeps no request waiting.
LEMMA Schedules ==
  ASSUME Shaped, CleanInv, NEW u \in Users, slot' = slot \/ scheduleEarningsRecalc(u)
  PROVE  /\ slot' \in [Slots -> Recalculations \cup {Idle}]
         /\ \A i \in Slots : Clean(i)' => ReadsNow(slot'[i])
         /\ \A i \in Slots : ForReader(slot'[i]) <=> ForReader(slot[i])
<1>1. CASE slot' = slot
  BY <1>1 DEF Shaped, CleanInv, Clean
<1>2. ASSUME NEW i \in Slots, slot[i] = Idle, slot' = [slot EXCEPT ![i] = Starts(u, "background")]
      PROVE  /\ slot' \in [Slots -> Recalculations \cup {Idle}]
             /\ \A k \in Slots : Clean(k)' => ReadsNow(slot'[k])
             /\ \A k \in Slots : ForReader(slot'[k]) <=> ForReader(slot[k])
  <2>1. /\ slot' \in [Slots -> Recalculations \cup {Idle}]
        /\ \A k \in Slots : Clean(k)' => ReadsNow(slot'[k])
        /\ ~ForReader(slot'[i]) /\ ~ForReader(slot[i])
        /\ \A k \in Slots : k # i => slot'[k] = slot[k]
    BY <1>2, SlotStarts
  <2> QED BY <2>1
<1> QED BY <1>1, <1>2 DEF scheduleEarningsRecalc

\* What a request reads is a row in use, or nothing.
LEMMA Served ==
  ASSUME Shaped, NEW u \in Users, reader' = Serve(u)
  PROVE  /\ reader' \in Asked \cup Overlays /\ ReaderGoesOn
<1>1. CASE isUsable(profile[u])
  <2>1. profile[u].row /\ profile[u] \in Rows /\ drift[u] \in Drift
    BY <1>1, RowOf DEF isUsable, Shaped
  <2>2. reader' = [step |-> "overlay", user |-> u, row |-> profile[u], drift |-> drift[u]]
    BY <1>1 DEF Serve
  <2>3. /\ reader' \in Overlays /\ reader'.step = "overlay" /\ reader'.user = u
        /\ reader'.row = profile[u] /\ reader'.drift = drift[u]
    BY <2>1, <2>2 DEF Overlays
  <2> QED BY <2>1, <2>3 DEF ReaderGoesOn, RowRead
<1>2. CASE ~isUsable(profile[u])
  <2>1. reader' = [step |-> "live", user |-> u]
    BY <1>2 DEF Serve
  <2> QED BY <2>1 DEF Asked, ReaderGoesOn
<1> QED BY <1>1, <1>2

\* A request is served, or waits for the recalculation it starts.
LEMMA Step_getUserEarnings ==
  ASSUME EInv, NEW u \in Users, getUserEarnings(u)
  PROVE  EInv'
<1> USE DEF EInv
<1>1. /\ reader = Idle /\ Quiet /\ profile' = profile /\ drift' = drift /\ moves' = moves
      /\ mover' = mover
  BY DEF getUserEarnings, Reads, Quiet, tables
<1>2. \A i \in Slots : ~ForReader(slot[i])
  BY <1>1 DEF Awaited, Idle
<1>3. CASE reader' = Serve(u) /\ slot' = slot
  <2>1. reader' \in Asked \cup Overlays /\ ReaderGoesOn
    BY <1>3, Served
  <2>2. \A i \in Slots : Clean(i)' => ReadsNow(slot'[i])
    BY <1>3 DEF CleanInv, Clean
  <2>3. Awaited'
    BY <1>2, <1>3 DEF Awaited
  <2> QED BY <1>1, <1>3, <2>1, <2>2, <2>3, QuietEnd DEF Shaped
<1>4. ASSUME NEW i \in Slots, slot[i] = Idle, reader' = [step |-> "recalculate", user |-> u],
             slot' = [slot EXCEPT ![i] = Starts(u, "reader")]
      PROVE  EInv'
  <2>1. reader' \in Asked /\ reader'.step = "recalculate" /\ ReaderGoesOn
    BY <1>4 DEF Asked, ReaderGoesOn
  <2>2. /\ slot' \in [Slots -> Recalculations \cup {Idle}]
        /\ \A k \in Slots : Clean(k)' => ReadsNow(slot'[k])
        /\ \A k \in Slots : k # i => slot'[k] = slot[k]
    BY <1>4, SlotStarts
  <2>3. Awaited'
    BY <1>2, <2>1, <2>2 DEF Awaited
  <2> QED BY <1>1, <2>1, <2>2, <2>3, QuietEnd DEF Shaped
<1> QED BY <1>3, <1>4 DEF getUserEarnings, Reads

\* After its recalculation a request is served from the row there is.
LEMMA Step_FindAgain ==
  ASSUME EInv, FindAgain
  PROVE  EInv'
<1> USE DEF EInv
<1>1. /\ reader.step = "again" /\ Quiet /\ profile' = profile /\ drift' = drift
      /\ moves' = moves /\ mover' = mover /\ slot' = slot /\ reader' = Serve(reader.user)
  BY DEF FindAgain, Reads, Quiet, tables
<1>2. reader.user \in Users
  <2>1. reader \in Asked
    BY <1>1 DEF Shaped, Overlays, Idle
  <2> QED BY <2>1 DEF Asked
<1>3. reader' \in Asked \cup Overlays /\ ReaderGoesOn
  BY <1>1, <1>2, Served
<1>4. \A i \in Slots : Clean(i)' => ReadsNow(slot'[i])
  BY <1>1 DEF CleanInv, Clean
<1>5. Awaited'
  <2>1. \A i \in Slots : ~ForReader(slot[i])
    BY <1>1 DEF Awaited
  <2> QED BY <1>1, <2>1 DEF Awaited
<1> QED BY <1>1, <1>3, <1>4, <1>5, QuietEnd DEF Shaped

\* A request that answers, or goes on to the statistics, may start a recalculation.
LEMMA AnswersStep ==
  ASSUME EInv, reader.step \in {"overlay", "live", "stats"},
         Answers, slot' = slot \/ scheduleEarningsRecalc(reader.user)
  PROVE  EInv'
<1> USE DEF EInv
<1>1. /\ Quiet /\ profile' = profile /\ drift' = drift /\ moves' = moves /\ mover' = mover
      /\ reader' = Idle \/ reader' = [step |-> "stats", user |-> reader.user]
  BY DEF Answers, Reads, Quiet, tables
<1>2. reader.user \in Users
  <2>1. reader \in Asked \cup Overlays
    BY DEF Shaped, Idle
  <2> QED BY <2>1 DEF Asked, Overlays
<1>3. reader' \in Asked \cup Overlays \cup {Idle} /\ reader'.step # "overlay"
  BY <1>1, <1>2 DEF Asked, Idle
<1>4. /\ slot' \in [Slots -> Recalculations \cup {Idle}]
      /\ \A i \in Slots : Clean(i)' => ReadsNow(slot'[i])
      /\ \A i \in Slots : ForReader(slot'[i]) <=> ForReader(slot[i])
  BY <1>2, Schedules
<1>5. Awaited'
  <2>1. \A i \in Slots : ~ForReader(slot[i])
    BY DEF Awaited
  <2> QED BY <1>4, <2>1 DEF Awaited
<1> QED BY <1>1, <1>3, <1>4, <1>5, QuietEnd DEF Shaped, ReaderGoesOn

\* Answers leave the rows alone.
LEMMA Step_Answers ==
  ASSUME EInv, withLivePending \/ liveAggregateFallback \/ getEarningsStats
  PROVE  EInv'
<1>1. CASE withLivePending
  BY <1>1, AnswersStep DEF withLivePending
<1>2. CASE liveAggregateFallback
  BY <1>2, AnswersStep DEF liveAggregateFallback
<1>3. CASE getEarningsStats
  BY <1>3, AnswersStep DEF getEarningsStats, Answers
<1> QED BY <1>1, <1>2, <1>3

\* A sum is read of the tables as they are.
LEMMA Step_ReadSum ==
  ASSUME EInv, NEW i \in Slots, NEW f \in {"paid", "comp", "pending"}, ReadSum(i, f)
  PROVE  EInv'
<1> USE DEF EInv
<1>1. /\ Quiet /\ profile' = profile /\ drift' = drift /\ moves' = moves
      /\ mover' = mover /\ reader' = reader /\ slot[i].step = "sums"
  BY DEF ReadSum, Quiet, tables
<1>2. slot[i] \in Recalculations
  BY <1>1 DEF Shaped, Idle
<1> DEFINE u == slot[i].user
<1>3. CompletedNow(u) \in Nat /\ PendingNow(u) \in Nat /\ CompensationNow(u) \in Nat
  BY NowTyped
<1>4. PICK r : /\ slot' = [slot EXCEPT ![i] = r] /\ r \in Recalculations
               /\ r.for = slot[i].for /\ r.user = u /\ r.clean = slot[i].clean
               /\ r.step = "sums"
               /\ r.paid = slot[i].paid \/ r.paid = CompletedNow(u)
               /\ r.comp = slot[i].comp \/ r.comp = CompensationNow(u)
               /\ r.pending = slot[i].pending \/ r.pending = PendingNow(u)
  <2>1. CASE f = "paid"
    <3> DEFINE n == CompletedNow(u)
               r == [slot[i] EXCEPT !.paid = n]
    <3>1. slot' = [slot EXCEPT ![i] = r]
      BY <2>1 DEF ReadSum
    <3>2. n \in Sums0
      BY <1>3 DEF Sums0
    <3> HIDE DEF n
    <3>3. r \in Recalculations
      BY <1>2, <3>2, Zenon DEF Recalculations
    <3>4. /\ r.for = slot[i].for /\ r.user = u /\ r.step = "sums" /\ r.paid = n
          /\ r.comp = slot[i].comp /\ r.pending = slot[i].pending
      BY <1>1, <1>2 DEF Recalculations
    <3>5. r.clean = slot[i].clean
      BY <1>2, Zenon DEF Recalculations
    <3> HIDE DEF r
    <3> QED BY <3>1, <3>3, <3>4, <3>5 DEF n
  <2>2. CASE f = "comp"
    <3> DEFINE n == CompensationNow(u)
               r == [slot[i] EXCEPT !.comp = n]
    <3>1. slot' = [slot EXCEPT ![i] = r]
      BY <2>2 DEF ReadSum
    <3>2. n \in Sums0
      BY <1>3 DEF Sums0
    <3> HIDE DEF n
    <3>3. r \in Recalculations
      BY <1>2, <3>2, Zenon DEF Recalculations
    <3>4. /\ r.for = slot[i].for /\ r.user = u /\ r.step = "sums" /\ r.comp = n
          /\ r.paid = slot[i].paid /\ r.pending = slot[i].pending
      BY <1>1, <1>2 DEF Recalculations
    <3>5. r.clean = slot[i].clean
      BY <1>2, Zenon DEF Recalculations
    <3> HIDE DEF r
    <3> QED BY <3>1, <3>3, <3>4, <3>5 DEF n
  <2>3. CASE f = "pending"
    <3> DEFINE n == PendingNow(u)
               r == [slot[i] EXCEPT !.pending = n]
    <3>1. slot' = [slot EXCEPT ![i] = r]
      BY <2>3 DEF ReadSum
    <3>2. n \in Sums0
      BY <1>3 DEF Sums0
    <3> HIDE DEF n
    <3>3. r \in Recalculations
      BY <1>2, <3>2, Zenon DEF Recalculations
    <3>4. /\ r.for = slot[i].for /\ r.user = u /\ r.step = "sums" /\ r.pending = n
          /\ r.paid = slot[i].paid /\ r.comp = slot[i].comp
      BY <1>1, <1>2 DEF Recalculations
    <3>5. r.clean = slot[i].clean
      BY <1>2, Zenon DEF Recalculations
    <3> HIDE DEF r
    <3> QED BY <3>1, <3>3, <3>4, <3>5 DEF n
  <2> QED BY <2>1, <2>2, <2>3
<1>5. /\ slot' \in [Slots -> Recalculations \cup {Idle}] /\ slot'[i] = r
      /\ \A k \in Slots : k # i => slot'[k] = slot[k]
  BY <1>4 DEF Shaped
<1>6. \A k \in Slots : Clean(k)' => Clean(k) /\ slot'[k].user = slot[k].user
  BY <1>1, <1>4, <1>5 DEF Clean
<1>7. ASSUME NEW k \in Slots, Clean(k)' PROVE ReadsNow(slot'[k])
  <2>1. ReadsNow(slot[k])
    BY <1>6, <1>7 DEF CleanInv
  <2>2. CASE k = i
    <3>1. ReadsNow(r)
      BY <1>4, <2>1, <2>2 DEF ReadsNow
    <3> QED BY <1>5, <2>2, <3>1
  <2>3. CASE k # i
    BY <1>5, <2>1, <2>3
  <2> QED BY <2>2, <2>3
<1>8. Awaited'
  <2>1. \A k \in Slots : ForReader(slot'[k]) <=> ForReader(slot[k])
    BY <1>1, <1>4, <1>5 DEF ForReader
  <2> QED BY <1>1, <2>1 DEF Awaited
<1> QED BY <1>1, <1>5, <1>6, <1>7, <1>8, QuietEnd DEF Shaped, ReaderGoesOn

\* A recalculation ends, and the request that waits for it goes on.
LEMMA SlotEnds ==
  ASSUME Shaped, Awaited, NEW i \in Slots, Summed(slot[i]), slot' = [slot EXCEPT ![i] = Idle],
         NEW next \in {"again", "live"}, Resumes(i, next)
  PROVE  /\ slot' \in [Slots -> Recalculations \cup {Idle}]
         /\ \A k \in Slots : Clean(k)' => Clean(k) /\ slot'[k] = slot[k] /\ k # i
         /\ reader' \in Asked \cup Overlays \cup {Idle}
         /\ reader' = reader \/ reader'.step # "overlay"
         /\ Awaited'
         /\ slot[i] \in Recalculations
         /\ slot[i].paid \in Nat /\ slot[i].comp \in Nat /\ slot[i].pending \in Nat
<1>1. slot[i].step = "sums" /\ slot[i] \in Recalculations
  BY DEF Summed, Shaped, Idle
<1>2. slot[i].paid \in Nat /\ slot[i].comp \in Nat /\ slot[i].pending \in Nat
  BY <1>1 DEF Summed, Recalculations, Sums0
<1>3. slot'[i] = Idle /\ \A k \in Slots : k # i => slot'[k] = slot[k]
  BY DEF Shaped
<1>4. slot' \in [Slots -> Recalculations \cup {Idle}]
  BY DEF Shaped
<1>5. \A k \in Slots : Clean(k)' => Clean(k) /\ slot'[k] = slot[k] /\ k # i
  BY <1>3 DEF Clean, Idle
<1>6. \A k \in Slots : ForReader(slot'[k]) => ForReader(slot[k]) /\ k # i
  BY <1>3 DEF ForReader, Idle
<1>7. CASE slot[i].for = "reader"
  <2>1. reader.step = "recalculate" /\ ForReader(slot[i])
    BY <1>1, <1>7 DEF Awaited, ForReader
  <2>2. reader \in Asked
    BY <2>1 DEF Shaped, Overlays, Idle
  <2>3. reader' = [reader EXCEPT !.step = next]
    BY <1>7 DEF Resumes
  <2>4. reader' \in Asked /\ reader'.step = next
    BY <2>2, <2>3 DEF Asked
  <2>5. \A k \in Slots : ~ForReader(slot'[k])
    BY <1>6, <2>1 DEF Awaited
  <2>6. Awaited'
    BY <2>5 DEF Awaited
  <2> QED BY <1>1, <1>2, <1>4, <1>5, <2>4, <2>6
<1>8. CASE slot[i].for # "reader"
  <2>1. reader' = reader
    BY <1>8 DEF Resumes
  <2>2. Awaited'
    BY <1>6, <2>1 DEF Awaited
  <2> QED BY <1>1, <1>2, <1>4, <1>5, <2>1, <2>2 DEF Shaped
<1> QED BY <1>7, <1>8

\* A failed recalculation leaves the row alone.
LEMMA Step_RecalculationFails ==
  ASSUME EInv, NEW i \in Slots, RecalculationFails(i)
  PROVE  EInv'
<1> USE DEF EInv
<1>1. /\ Quiet /\ profile' = profile /\ drift' = drift /\ moves' = moves /\ mover' = mover
      /\ Summed(slot[i]) /\ slot' = [slot EXCEPT ![i] = Idle] /\ Resumes(i, "live")
  BY DEF RecalculationFails, Quiet, tables
<1>2. /\ slot' \in [Slots -> Recalculations \cup {Idle}]
      /\ \A k \in Slots : Clean(k)' => Clean(k) /\ slot'[k] = slot[k]
      /\ reader' \in Asked \cup Overlays \cup {Idle}
      /\ reader' = reader \/ reader'.step # "overlay"
      /\ Awaited'
  BY <1>1, SlotEnds
<1>3. \A k \in Slots : Clean(k)' => ReadsNow(slot'[k])
  BY <1>2 DEF CleanInv
<1> QED BY <1>1, <1>2, <1>3, QuietEnd DEF Shaped, ReaderGoesOn

\* A clean recalculation writes what the tables say; one that overlapped a change says so.
LEMMA Step_recalculateUserEarningsProfile ==
  ASSUME EInv, NEW i \in Slots, recalculateUserEarningsProfile(i)
  PROVE  EInv'
<1> DEFINE r == slot[i]
           u == r.user
           new == Row(r.paid, r.comp, r.pending)
           d == IF r.clean THEN "none" ELSE "moved"
<1> USE DEF EInv
<1>1. /\ Quiet /\ moves' = moves /\ mover' = mover /\ Summed(r)
      /\ slot' = [slot EXCEPT ![i] = Idle] /\ Resumes(i, "again")
      /\ profile' = [profile EXCEPT ![u] = new] /\ drift' = [drift EXCEPT ![u] = d]
      /\ status' = status /\ hidden' = hidden /\ kept' = kept
      /\ uncounted' = uncounted /\ updates' = updates
  BY DEF recalculateUserEarningsProfile, Quiet, tables
<1>2. /\ slot' \in [Slots -> Recalculations \cup {Idle}]
      /\ \A k \in Slots : Clean(k)' => Clean(k) /\ slot'[k] = slot[k] /\ k # i
      /\ reader' \in Asked \cup Overlays \cup {Idle}
      /\ reader' = reader \/ reader'.step # "overlay"
      /\ Awaited'
      /\ r \in Recalculations
      /\ r.paid \in Nat /\ r.comp \in Nat /\ r.pending \in Nat
  BY <1>1, SlotEnds
<1>3. u \in Users
  BY <1>2 DEF Recalculations
<1>4. /\ new \in Rows /\ new.row = TRUE /\ new.paid = r.paid /\ new.comp = r.comp
      /\ new.pending = r.pending
  <2>1. r.pending \in Int
    BY <1>2
  <2> HIDE DEF r
  <2> QED BY <1>2, <2>1 DEF Row, Rows
<1> HIDE DEF new, d
<1> SUFFICES ASSUME NEW w \in Users, w = u PROVE EInv'
  BY <1>3
<1>5. /\ profile' \in [Users -> Rows \cup {NoRow}] /\ profile'[w] = new
      /\ \A v \in Users : v # w => profile'[v] = profile[v]
  BY <1>1, <1>4 DEF Shaped
<1>6. /\ drift' \in [Users -> Drift] /\ drift'[w] = d
      /\ \A v \in Users : v # w => drift'[v] = drift[v]
  BY <1>1 DEF Shaped, Drift, d
<1>7. Shaped'
  BY <1>1, <1>2, <1>5, <1>6 DEF Shaped
<1>8. Recorded'
  BY <1>1 DEF Recorded, BecameCompleted
<1>9. Books'
  <2> SUFFICES ASSUME NEW v \in Users, drift'[v] = "none" PROVE InStep(v)' /\ Counted(v)'
    BY DEF Books, BooksOf
  <2>1. /\ PendingCounted(v)' = PendingCounted(v) /\ PaidCounted(v)' = PaidCounted(v)
        /\ CompCounted(v)' = CompCounted(v) /\ (InStep(v)' <=> InStep(v))
    BY <1>1, QuietNow
  <2>2. CASE v # w
    <3>1. InStep(v) /\ Counted(v) /\ profile'[v] = profile[v]
      BY <1>5, <1>6, <2>2 DEF Books, BooksOf
    <3> QED BY <2>1, <3>1 DEF Counted
  <2>3. CASE v = w
    <3>1. Clean(i)
      BY <1>1, <1>6, <2>3 DEF Clean, Summed, d
    <3>2. ReadsNow(r)
      BY <3>1 DEF CleanInv
    <3>3. /\ UpdatesOf(v) = {} /\ r.paid = CompletedNow(v) /\ r.comp = CompensationNow(v)
          /\ r.pending = PendingNow(v)
      BY <1>1, <2>3, <3>2 DEF ReadsNow, Summed
    <3>4. /\ InStep(v)
          /\ Sum(PaidCounted(v)) = CompletedNow(v)
          /\ Sum(CompCounted(v)) = CompensationNow(v)
          /\ Sum(PendingCounted(v)) = PendingNow(v)
      BY <3>3, Settled
    <3>5. /\ PaidIn(profile'[v]) = r.paid /\ CompIn(profile'[v]) = r.comp
          /\ PendingIn(profile'[v]) = r.pending
      BY <1>4, <1>5, <2>3 DEF PaidIn, CompIn, PendingIn
    <3>6. /\ PaidIn(profile'[v]) = Sum(PaidCounted(v)')
          /\ CompIn(profile'[v]) = Sum(CompCounted(v)')
          /\ PendingIn(profile'[v]) = Sum(PendingCounted(v)')
      BY <2>1, <3>3, <3>4, <3>5
    <3> QED BY <2>1, <3>4, <3>6 DEF Counted, PaidIn, CompIn, PendingIn
  <2> QED BY <2>2, <2>3
<1>10. CleanInv'
  <2> SUFFICES ASSUME NEW k \in Slots, Clean(k)' PROVE ReadsNow(slot[k])'
    BY DEF CleanInv
  <2>1. ReadsNow(slot[k]) /\ slot'[k] = slot[k]
    BY <1>2 DEF CleanInv
  <2>2. UpdatesOf(slot[k].user)' = UpdatesOf(slot[k].user)
    BY <1>1, <2>1 DEF UpdatesOf
  <2>3. /\ CompletedNow(slot[k].user)' = CompletedNow(slot[k].user)
        /\ PendingNow(slot[k].user)' = PendingNow(slot[k].user)
        /\ CompensationNow(slot[k].user)' = CompensationNow(slot[k].user)
    BY <1>1, <2>1 DEF CompletedNow, PendingNow, CompensationNow, partnerVisibleNowWhere, Of
  <2> QED BY <2>1, <2>2, <2>3 DEF ReadsNow
<1>11. OverlayInv'
  <2> SUFFICES ASSUME reader'.step = "overlay", reader'.drift = "none"
               PROVE  (RowBelow \/ Disturbed(reader.user))'
    BY DEF OverlayInv
  <2>1. reader' = reader /\ (RowBelow \/ Disturbed(reader.user))
    BY <1>2 DEF OverlayInv
  <2>2. RowBelow => RowBelow'
    BY <1>1, <2>1 DEF RowBelow, CompletedNow, CompensationNow, partnerVisibleNowWhere, Of
  <2>3. ASSUME Disturbed(reader.user) PROVE Disturbed(reader.user)'
    <3>1. \A k \in Slots : Clean(k)' => slot'[k].user # reader'.user
      BY <1>2, <2>1, <2>3 DEF Disturbed
    <3>2. drift'[reader.user] # "none"
      <4>1. reader.user \in Users /\ drift[reader.user] # "none"
        <5>1. reader \in Overlays
          BY <2>1 DEF Shaped, Asked, Idle
        <5> QED BY <2>3, <5>1 DEF Overlays, Disturbed
      <4>2. CASE reader.user = w
        <5>1. ~Clean(i)
          BY <2>3, <4>2 DEF Disturbed
        <5>2. ~r.clean
          BY <1>1, <5>1 DEF Clean, Summed
        <5> QED BY <1>6, <4>2, <5>2 DEF d
      <4>3. CASE reader.user # w
        BY <1>6, <4>1, <4>3
      <4> QED BY <4>2, <4>3
    <3> QED BY <2>1, <3>1, <3>2 DEF Disturbed
  <2> QED BY <2>1, <2>2, <2>3
<1>12. PendingNotNegative'
  <2> SUFFICES ASSUME NEW v \in Users, profile'[v].row, profile'[v].pending < 0
               PROVE  drift'[v] = "lost" \/ \E k \in UpdatesOf(v)' : k.step = "clamp"
    BY DEF PendingNotNegative
  <2>1. v # w
    BY <1>2, <1>4, <1>5
  <2>2. drift[v] = "lost" \/ \E k \in UpdatesOf(v) : k.step = "clamp"
    BY <1>5, <2>1 DEF PendingNotNegative
  <2> QED BY <1>1, <1>6, <2>1, <2>2 DEF UpdatesOf
<1> QED BY <1>2, <1>7, <1>8, <1>9, <1>10, <1>11, <1>12

\* Growing old leaves the amounts of a row alone.
LEMMA Step_Ages ==
  ASSUME EInv, NEW u \in Users, Ages(u)
  PROVE  EInv'
<1> DEFINE old == [profile[u] EXCEPT !.fresh = FALSE]
<1> USE DEF EInv
<1>1. /\ Quiet /\ moves' = moves /\ mover' = mover /\ slot' = slot /\ reader' = reader
      /\ drift' = drift /\ profile[u].row /\ profile' = [profile EXCEPT ![u] = old]
      /\ status' = status /\ hidden' = hidden /\ kept' = kept
      /\ uncounted' = uncounted /\ updates' = updates
  BY DEF Ages, Quiet, tables
<1>2. profile[u] \in Rows
  BY <1>1, RowOf
<1>3. /\ old \in Rows /\ old.paid = profile[u].paid /\ old.comp = profile[u].comp
      /\ old.pending = profile[u].pending
  BY <1>2 DEF Rows
<1>4. old.row = TRUE
  BY <1>3, Zenon DEF Rows
<1> HIDE DEF old
<1>5. /\ profile' \in [Users -> Rows \cup {NoRow}] /\ profile'[u] = old
      /\ \A v \in Users : v # u => profile'[v] = profile[v]
  BY <1>1, <1>3 DEF Shaped
<1>6. \A v \in Users : /\ PaidIn(profile'[v]) = PaidIn(profile[v])
                       /\ CompIn(profile'[v]) = CompIn(profile[v])
                       /\ PendingIn(profile'[v]) = PendingIn(profile[v])
  BY <1>1, <1>3, <1>4, <1>5 DEF PaidIn, CompIn, PendingIn
<1>7. Shaped' /\ Awaited' /\ Recorded'
  BY <1>1, <1>5 DEF Shaped, Awaited, Recorded, BecameCompleted
<1>8. Books'
  <2> SUFFICES ASSUME NEW v \in Users, drift'[v] = "none" PROVE InStep(v)' /\ Counted(v)'
    BY DEF Books, BooksOf
  <2>1. /\ PendingCounted(v)' = PendingCounted(v) /\ PaidCounted(v)' = PaidCounted(v)
        /\ CompCounted(v)' = CompCounted(v) /\ (InStep(v)' <=> InStep(v))
    BY <1>1, QuietNow
  <2>2. InStep(v) /\ Counted(v)
    BY <1>1 DEF Books, BooksOf
  <2>3. /\ PaidIn(profile'[v]) = Sum(PaidCounted(v)') /\ CompIn(profile'[v]) = Sum(CompCounted(v)')
        /\ PendingIn(profile'[v]) = Sum(PendingCounted(v)')
    BY <1>6, <2>1, <2>2 DEF Counted
  <2> QED BY <2>1, <2>2, <2>3 DEF Counted, PaidIn, CompIn, PendingIn
<1>9. CleanInv'
  <2> SUFFICES ASSUME NEW k \in Slots, Clean(k)' PROVE ReadsNow(slot[k])'
    BY DEF CleanInv
  <2>1. ReadsNow(slot[k]) /\ slot'[k] = slot[k]
    BY <1>1 DEF CleanInv, Clean
  <2>2. UpdatesOf(slot[k].user)' = UpdatesOf(slot[k].user)
    BY <1>1 DEF UpdatesOf
  <2>3. /\ CompletedNow(slot[k].user)' = CompletedNow(slot[k].user)
        /\ PendingNow(slot[k].user)' = PendingNow(slot[k].user)
        /\ CompensationNow(slot[k].user)' = CompensationNow(slot[k].user)
    BY <1>1 DEF CompletedNow, PendingNow, CompensationNow, partnerVisibleNowWhere, Of
  <2> QED BY <2>1, <2>2, <2>3 DEF ReadsNow
<1>10. OverlayInv'
  BY <1>1 DEF OverlayInv, RowBelow, Disturbed, Clean, CompletedNow, CompensationNow,
              partnerVisibleNowWhere, Of
<1>11. PendingNotNegative'
  <2> SUFFICES ASSUME NEW v \in Users, profile'[v].row, profile'[v].pending < 0
               PROVE  drift'[v] = "lost" \/ \E k \in UpdatesOf(v)' : k.step = "clamp"
    BY DEF PendingNotNegative
  <2>1. profile[v].row /\ profile[v].pending < 0
    BY <1>1, <1>3, <1>5
  <2> QED BY <1>1, <2>1 DEF PendingNotNegative, UpdatesOf
<1> QED BY <1>7, <1>8, <1>9, <1>10, <1>11

-----------------------------------------------------------------------------
(* The theorem                                                             *)

\* The invariant holds at first,
LEMMA InitEInv == Init => EInv
<1> SUFFICES ASSUME Init PROVE EInv
  OBVIOUS
<1>1. PICK old \in SUBSET Payouts :
        /\ status = [p \in Payouts |-> IF p \in old THEN "completed" ELSE "none"]
        /\ drift = [u \in Users |-> IF \E p \in old: Owner[p] = u THEN "moved" ELSE "none"]
        /\ hidden = BookNow \ old
  BY DEF Init
<1>2. /\ kept = {} /\ uncounted = {} /\ profile = [u \in Users |-> NoRow]
      /\ updates = {} /\ moves = 0
      /\ mover = [m \in Movers |-> Idle] /\ slot = [i \in Slots |-> Idle] /\ reader = Idle
  BY DEF Init
<1>3. Shaped
  <2>1. moves \in 0 .. MaxMoves
    BY <1>2, EarningsAssumption
  <2>2. status \in [Payouts -> Kinds] /\ drift \in [Users -> Drift]
    BY <1>1 DEF Kinds, Statuses, Drift
  <2>3. hidden \subseteq Payouts
    BY <1>1, EarningsAssumption
  <2> QED BY <1>1, <1>2, <2>1, <2>2, <2>3 DEF Shaped
<1>4. Awaited
  BY <1>2 DEF Awaited, ForReader, Idle
<1>5. Recorded
  BY <1>2 DEF Recorded
<1>6. Books
  <2> SUFFICES ASSUME NEW u \in Users, drift[u] = "none" PROVE InStep(u) /\ Counted(u)
    BY DEF Books, BooksOf
  <2>1. UpdatesOf(u) = {}
    BY <1>2 DEF UpdatesOf
  <2>2. /\ InStep(u) /\ Sum(PaidCounted(u)) = CompletedNow(u)
        /\ Sum(CompCounted(u)) = CompensationNow(u) /\ Sum(PendingCounted(u)) = PendingNow(u)
    BY <1>3, <2>1, Settled
  <2>3. \A p \in Payouts : Owner[p] = u => status[p] = "none"
    BY <1>1
  <2>4. CompletedSet(u) = {} /\ PendingSet(u) = {} /\ CompensationSet(u) = {}
    BY <1>2, <2>3 DEF CompletedSet, PendingSet, CompensationSet, PENDING_STATUSES
  <2>5. CompletedNow(u) = 0 /\ PendingNow(u) = 0 /\ CompensationNow(u) = 0
    BY <1>3, <2>4, NowSums, SumNone
  <2>6. PaidIn(profile[u]) = 0 /\ CompIn(profile[u]) = 0 /\ PendingIn(profile[u]) = 0
    BY <1>2 DEF PaidIn, CompIn, PendingIn, NoRow
  <2> QED BY <2>2, <2>5, <2>6 DEF Counted
<1>7. CleanInv
  BY <1>2 DEF CleanInv, Clean, Idle
<1>8. OverlayInv
  BY <1>2 DEF OverlayInv, Idle
<1>9. PendingNotNegative
  BY <1>2 DEF PendingNotNegative, NoRow
<1> QED BY <1>3, <1>4, <1>5, <1>6, <1>7, <1>8, <1>9 DEF EInv

\* and every step keeps it.
LEMMA NextEInv == EInv /\ [Next]_vars => EInv'
<1> SUFFICES ASSUME EInv, [Next]_vars PROVE EInv'
  OBVIOUS
<1>1. CASE TablesChange
  BY <1>1, Step_createPayout, Step_ReadPayout, Step_updatePayoutStatus, Step_Compensate,
     Step_WindowEnds DEF TablesChange
<1>2. CASE Background
  BY <1>2, Step_applyPendingToProfile, Step_clampPending, Step_updateUserPaymentProfile,
     Step_ReadSum, Step_recalculateUserEarningsProfile DEF Background
<1>3. CASE Answering
  BY <1>3, Step_FindAgain, Step_Answers DEF Answering
<1>4. CASE Disturbances
  BY <1>4, Step_LoseUpdate, Step_RecalculationFails DEF Disturbances
<1>5. CASE \E u \in Users : getUserEarnings(u)
  BY <1>5, Step_getUserEarnings
<1>6. CASE \E u \in Users : Ages(u)
  BY <1>6, Step_Ages
<1>7. CASE UNCHANGED vars
  <2>1. /\ Quiet /\ profile' = profile /\ drift' = drift /\ moves' = moves /\ mover' = mover
        /\ slot' = slot /\ reader' = reader
    BY <1>7 DEF vars, tables, Quiet
  <2>2. ReaderGoesOn /\ Awaited' /\ \A i \in Slots : Clean(i)' => ReadsNow(slot'[i])
    BY <2>1 DEF EInv, ReaderGoesOn, Awaited, Clean, CleanInv
  <2> QED BY <2>1, <2>2, QuietEnd DEF EInv, Shaped
<1>8. CASE SilentChange
  BY <1>8, Step_CompensateCancelling, Step_CompensationJoins, Step_CompensationDrops,
     Step_holdBookNowTaskPayouts, Step_holdPayout, Step_deletePayout, Step_processPayoutFails,
     Step_WriteFails, Step_ResumesHeldPayout DEF SilentChange
<1> QED BY <1>1, <1>2, <1>3, <1>4, <1>5, <1>6, <1>7, <1>8 DEF Next

\* The invariant says more than the property.
LEMMA RowInvHolds == EInv => RowInv
<1> SUFFICES ASSUME EInv PROVE RowInv
  OBVIOUS
<1> USE DEF EInv
<1>1. TypeOK
  <2>1. status \in [Payouts -> Statuses \cup {"none", "deleted"}] /\ hidden \subseteq Payouts
        /\ uncounted \subseteq kept /\ kept \subseteq Compensations /\ moves \in 0 .. MaxMoves
        /\ drift \in [Users -> {"none", "moved", "lost"}]
    BY DEF Shaped, Kinds, Drift
  <2>2. \A u \in Users : profile[u] = NoRow \/ (profile[u].paid >= 0 /\ profile[u].comp >= 0)
    <3>1. \A row \in Rows : row.paid \in Nat /\ row.comp \in Nat
      BY DEF Rows
    <3>2. \A n \in Nat : n >= 0
      OBVIOUS
    <3>3. \A u \in Users : profile[u] \in Rows \cup {NoRow}
      BY DEF Shaped
    <3> QED BY <3>1, <3>2, <3>3
  <2>3. \A j \in updates : j.step \in {"pending", "clamp", "earn"}
    BY DEF Shaped, PayoutUpdates, CompensationUpdates
  <2>4. \A i \in Slots : slot[i].step \in {"idle", "sums"}
    BY DEF Shaped, Recalculations, Idle
  <2>5. reader.step \in {"idle", "recalculate", "again", "overlay", "live", "stats"}
    BY DEF Shaped, Asked, Overlays, Idle
  <2> QED BY <2>1, <2>2, <2>3, <2>4, <2>5 DEF TypeOK
<1>2. UpdatesAgreeWithSums
  <2> SUFFICES ASSUME NEW u \in Users, profile[u].row, UpdatesOf(u) = {}, drift[u] = "none"
               PROVE  Exact(u)
    BY DEF UpdatesAgreeWithSums
  <2>1. /\ profile[u].paid = Sum(PaidCounted(u)) /\ profile[u].comp = Sum(CompCounted(u))
        /\ profile[u].pending = Sum(PendingCounted(u))
    BY DEF Books, BooksOf, Counted, PaidIn, CompIn, PendingIn
  <2> QED BY <2>1, Settled DEF Exact
<1>3. ShownOnce
  <2> DEFINE u == reader.user
             All == {p \in Of(u) : status[p] # "none"}
  <2> SUFFICES ASSUME reader.step = "overlay", reader.drift = "none", drift[u] = "none"
               PROVE  Shown(reader).earned + Shown(reader).pending
                        <= Sum(All) + CompensationNow(u)
    BY DEF ShownOnce
  <2>1. /\ reader.row.paid <= CompletedNow(u) /\ reader.row.comp <= CompensationNow(u)
    BY DEF OverlayInv, RowBelow, Disturbed
  <2>2. reader.row.paid \in Nat /\ reader.row.comp \in Nat
    <3>1. reader \in Overlays
      BY DEF Shaped, Asked, Idle
    <3>2. reader.row \in Rows
      BY <3>1 DEF Overlays
    <3> QED BY <3>2 DEF Rows
  <2>3. CompletedNow(u) + PendingNow(u) <= Sum(All)
    <3>1. /\ All \in SUBSET Items /\ CompletedSet(u) \in SUBSET All
          /\ PendingSet(u) \in SUBSET (All \ CompletedSet(u))
      BY DEF All, Of, Items, CompletedSet, PendingSet, PENDING_STATUSES
    <3>2. /\ Sum(All) = Sum(CompletedSet(u)) + Sum(All \ CompletedSet(u))
          /\ Sum(PendingSet(u)) <= Sum(All \ CompletedSet(u))
      <4> HIDE DEF All
      <4>1. All \ CompletedSet(u) \in SUBSET Items
        BY <3>1
      <4> QED BY <3>1, <4>1, SumSplit, SumGrows
    <3>3. /\ Sum(CompletedSet(u)) \in Nat /\ Sum(PendingSet(u)) \in Nat
          /\ Sum(All \ CompletedSet(u)) \in Nat
      <4> HIDE DEF All
      <4>1. All \ CompletedSet(u) \in SUBSET Items
        BY <3>1
      <4> QED BY <4>1, AllItems, SumTyped
    <3>4. CompletedNow(u) = Sum(CompletedSet(u)) /\ PendingNow(u) = Sum(PendingSet(u))
      BY NowSums
    <3> HIDE DEF All
    <3> QED BY <3>2, <3>3, <3>4
  <2>4. /\ CompletedNow(u) \in Nat /\ PendingNow(u) \in Nat /\ CompensationNow(u) \in Nat
    BY NowTyped
  <2>5. Sum(All) \in Nat
    <3>1. All \in SUBSET Items
      BY DEF All, Of, Items
    <3> HIDE DEF All
    <3> QED BY <3>1, SumTyped
  <2>6. /\ Shown(reader).earned = reader.row.paid + reader.row.comp
        /\ Shown(reader).pending = PendingNow(u)
    BY DEF Shown
  <2> HIDE DEF All, u
  <2> QED BY <2>1, <2>2, <2>3, <2>4, <2>5, <2>6 DEF u
<1> QED BY <1>1, <1>2, <1>3 DEF RowInv

\* Once the updates of an account have run its row is what the tables add up to,
\* unless since its last undisturbed recalculation one was lost, misreported or met
\* another, a hidden payout was counted, a recalculation overlapped a change, or a
\* change was silent (userPaymentProfileService's incremental updates against
\* recalculateUserEarningsProfile); what the overview shows from a row counts
\* no payout as earned and as pending; pending is negative only before its clamp.
THEOREM RowRight == Spec => []RowInv
<1>1. Init => EInv
  BY InitEInv
<1>2. EInv /\ [Next]_vars => EInv'
  BY NextEInv
<1>3. EInv => RowInv
  BY RowInvHolds
<1> QED BY <1>1, <1>2, <1>3, PTL DEF Spec

-----------------------------------------------------------------------------
(***************************************************************************)
(* The other account of a helper's money: the history of transactions.  It *)
(* has tables of its own, and what is proved of it holds of any request    *)
(* while any tables change, for any number of escrows, payouts and         *)
(* refunds.                                                                *)
(***************************************************************************)
-----------------------------------------------------------------------------
(* The tables                                                              *)

EscrowStates == [status : {"pending", "held", "released", "refunded", "cancelled"}, at : Nat, paid : Nat]
PayoutStates == [status : {"processing", "completed", "held"}, at : Nat, done : Nat]
RefundStates == [status : {"completed", "failed"}, of : Escrows, whole : BOOLEAN, at : Nat,
                 fee : Nat, amount : Nat]

\* Each row is of its type, and nothing happened later than now.
ClockSound == clock \in 0 .. MaxTime /\ owed \in 0 .. clock /\ unseen \subseteq HelperPayouts
EscrowSound ==
  /\ escrow \in [Escrows -> EscrowStates \cup {None}]
  /\ \A e \in Escrows : IsMade(escrow[e]) =>
       escrow[e].at \in 1 .. clock /\ escrow[e].paid \in 0 .. clock
PayoutSound ==
  /\ payout \in [HelperPayouts -> PayoutStates \cup {None}]
  /\ \A p \in HelperPayouts : IsMade(payout[p]) =>
       payout[p].at \in 1 .. clock /\ payout[p].done \in 0 .. clock
RefundSound ==
  /\ refund \in [Refunds -> RefundStates \cup {None}]
  /\ \A r \in Refunds : IsMade(refund[r]) => refund[r].at \in 1 .. clock
TablesSound == ClockSound /\ EscrowSound /\ PayoutSound /\ RefundSound

LEMMA NoneIs ==
  /\ None.status = "none"
  /\ None \notin EscrowStates /\ None \notin PayoutStates /\ None \notin RefundStates
BY DEF None, EscrowStates, PayoutStates, RefundStates

\* A row with a status is one that was made.
LEMMA EscrowTyped ==
  ASSUME EscrowSound, NEW e \in Escrows, escrow[e].status # "none"
  PROVE  /\ escrow[e] \in EscrowStates /\ IsMade(escrow[e])
         /\ escrow[e].at \in 1 .. clock /\ escrow[e].paid \in 0 .. clock
BY NoneIs DEF EscrowSound, IsMade
LEMMA PayoutTyped ==
  ASSUME PayoutSound, NEW p \in HelperPayouts, IsMade(payout[p])
  PROVE  payout[p] \in PayoutStates /\ payout[p].at \in 1 .. clock /\ payout[p].done \in 0 .. clock
BY DEF PayoutSound, IsMade
LEMMA RefundTyped ==
  ASSUME RefundSound, NEW r \in Refunds, refund[r].status # "none"
  PROVE  refund[r] \in RefundStates /\ IsMade(refund[r]) /\ refund[r].at \in 1 .. clock
BY NoneIs DEF RefundSound, IsMade

\* Time passes; what a change leaves alone is as sound as before.
LEMMA Ticks ==
  ASSUME TablesSound, Tick
  PROVE  /\ clock' = clock + 1 /\ clock \in Nat /\ clock' \in Nat /\ clock' \in 0 .. MaxTime
         /\ clock' \in 1 .. clock'
         /\ \A n \in 0 .. clock : n \in 0 .. clock'
         /\ \A n \in 1 .. clock : n \in 1 .. clock'
BY InputsTyped DEF TablesSound, ClockSound, Tick

LEMMA ClockKept ==
  ASSUME TablesSound, Tick, unseen' \subseteq HelperPayouts, owed' \in {0, owed, clock'}
  PROVE  ClockSound'
<1>1. /\ clock' \in 0 .. MaxTime /\ clock' \in Nat
      /\ \A n \in 0 .. clock : n \in 0 .. clock'
  BY Ticks
<1>2. owed \in 0 .. clock'
  BY <1>1 DEF TablesSound, ClockSound
<1>3. owed' \in 0 .. clock'
  BY <1>1, <1>2
<1> QED BY <1>1, <1>3 DEF ClockSound

LEMMA EscrowKept == ASSUME TablesSound, Tick, escrow' = escrow PROVE EscrowSound'
BY Ticks DEF TablesSound, EscrowSound
LEMMA PayoutKept == ASSUME TablesSound, Tick, payout' = payout PROVE PayoutSound'
BY Ticks DEF TablesSound, PayoutSound
LEMMA RefundKept == ASSUME TablesSound, Tick, refund' = refund PROVE RefundSound'
BY Ticks DEF TablesSound, RefundSound

\* A sound row is written.
LEMMA EscrowWrite ==
  ASSUME TablesSound, Tick, NEW e \in Escrows, NEW row \in EscrowStates,
         escrow' = [escrow EXCEPT ![e] = row], row.at \in 1 .. clock', row.paid \in 0 .. clock'
  PROVE  EscrowSound'
<1>1. escrow' \in [Escrows -> EscrowStates \cup {None}]
  BY DEF TablesSound, EscrowSound
<1>2. ASSUME NEW f \in Escrows, IsMade(escrow'[f])
      PROVE  escrow'[f].at \in 1 .. clock' /\ escrow'[f].paid \in 0 .. clock'
  <2>1. CASE f = e
    BY <2>1 DEF TablesSound, EscrowSound
  <2>2. CASE f # e
    <3>1. escrow'[f] = escrow[f]
      BY <2>2 DEF TablesSound, EscrowSound
    <3>2. escrow[f].at \in 1 .. clock /\ escrow[f].paid \in 0 .. clock
      BY <1>2, <3>1 DEF TablesSound, EscrowSound
    <3> QED BY <3>1, <3>2, Ticks
  <2> QED BY <2>1, <2>2
<1> QED BY <1>1, <1>2 DEF EscrowSound

LEMMA PayoutWrite ==
  ASSUME TablesSound, Tick, NEW p \in HelperPayouts, NEW row \in PayoutStates,
         payout' = [payout EXCEPT ![p] = row], row.at \in 1 .. clock', row.done \in 0 .. clock'
  PROVE  PayoutSound'
<1>1. payout' \in [HelperPayouts -> PayoutStates \cup {None}]
  BY DEF TablesSound, PayoutSound
<1>2. ASSUME NEW f \in HelperPayouts, IsMade(payout'[f])
      PROVE  payout'[f].at \in 1 .. clock' /\ payout'[f].done \in 0 .. clock'
  <2>1. CASE f = p
    BY <2>1 DEF TablesSound, PayoutSound
  <2>2. CASE f # p
    <3>1. payout'[f] = payout[f]
      BY <2>2 DEF TablesSound, PayoutSound
    <3>2. payout[f].at \in 1 .. clock /\ payout[f].done \in 0 .. clock
      BY <1>2, <3>1 DEF TablesSound, PayoutSound
    <3> QED BY <3>1, <3>2, Ticks
  <2> QED BY <2>1, <2>2
<1> QED BY <1>1, <1>2 DEF PayoutSound

LEMMA RefundWrite ==
  ASSUME TablesSound, Tick, NEW r \in Refunds, NEW row \in RefundStates,
         refund' = [refund EXCEPT ![r] = row], row.at \in 1 .. clock'
  PROVE  RefundSound'
<1>1. refund' \in [Refunds -> RefundStates \cup {None}]
  BY DEF TablesSound, RefundSound
<1>2. ASSUME NEW f \in Refunds, IsMade(refund'[f])
      PROVE  refund'[f].at \in 1 .. clock'
  <2>1. CASE f = r
    BY <2>1 DEF TablesSound, RefundSound
  <2>2. CASE f # r
    <3>1. refund'[f] = refund[f]
      BY <2>2 DEF TablesSound, RefundSound
    <3>2. refund[f].at \in 1 .. clock
      BY <1>2, <3>1 DEF TablesSound, RefundSound
    <3> QED BY <3>1, <3>2, Ticks
  <2> QED BY <2>1, <2>2
<1> QED BY <1>1, <1>2 DEF RefundSound

\* The status of an escrow row changes.
LEMMA EscrowMoves ==
  ASSUME TablesSound, Tick, NEW e \in Escrows, escrow[e].status # "none",
         NEW s \in {"held", "released", "refunded", "cancelled"},
         escrow' = [escrow EXCEPT ![e].status = s]
  PROVE  EscrowSound'
<1> DEFINE row == [escrow[e] EXCEPT !.status = s]
<1>1. /\ escrow[e] \in EscrowStates
      /\ escrow[e].at \in 1 .. clock /\ escrow[e].paid \in 0 .. clock
  BY EscrowTyped DEF TablesSound
<1>2. row \in EscrowStates /\ row.at = escrow[e].at /\ row.paid = escrow[e].paid
  BY <1>1 DEF EscrowStates
<1>3. escrow' = [escrow EXCEPT ![e] = row]
  OBVIOUS
<1>4. row.at \in 1 .. clock' /\ row.paid \in 0 .. clock'
  BY <1>1, <1>2, Ticks
<1> HIDE DEF row
<1> QED BY <1>2, <1>3, <1>4, EscrowWrite

LEMMA OrderSound == ASSUME TablesSound, NEW e \in Escrows, Order(e) PROVE TablesSound'
<1> DEFINE row == [status |-> "pending", at |-> clock', paid |-> 0]
<1>1. Tick /\ escrow' = [escrow EXCEPT ![e] = row] /\ UNCHANGED <<payout, refund, unseen, owed>>
  BY DEF Order
<1>2. clock' \in 1 .. clock' /\ clock' \in Nat /\ 0 \in 0 .. clock'
  BY <1>1, Ticks
<1>3. row \in EscrowStates /\ row.at \in 1 .. clock' /\ row.paid \in 0 .. clock'
  BY <1>2 DEF EscrowStates
<1>4. unseen' \subseteq HelperPayouts /\ owed' \in {0, owed, clock'}
  BY <1>1 DEF TablesSound, ClockSound
<1> HIDE DEF row
<1> QED BY <1>1, <1>3, <1>4, ClockKept, EscrowWrite, PayoutKept, RefundKept DEF TablesSound

LEMMA CaptureSound == ASSUME TablesSound, NEW e \in Escrows, Capture(e) PROVE TablesSound'
<1> DEFINE row == [escrow[e] EXCEPT !.status = "held", !.paid = clock']
<1>1. Tick /\ escrow' = [escrow EXCEPT ![e] = row] /\ UNCHANGED <<payout, refund, unseen, owed>>
  BY DEF Capture
<1>2. clock' \in 0 .. clock' /\ clock' \in Nat
  BY <1>1, Ticks
<1>3. escrow[e] \in EscrowStates /\ escrow[e].at \in 1 .. clock'
  BY <1>1, EscrowTyped, Ticks DEF Capture, TablesSound
<1>4. row \in EscrowStates /\ row.at \in 1 .. clock' /\ row.paid \in 0 .. clock'
  BY <1>2, <1>3 DEF EscrowStates
<1>5. unseen' \subseteq HelperPayouts /\ owed' \in {0, owed, clock'}
  BY <1>1 DEF TablesSound, ClockSound
<1> HIDE DEF row
<1> QED BY <1>1, <1>4, <1>5, ClockKept, EscrowWrite, PayoutKept, RefundKept DEF TablesSound

LEMMA CancelSound == ASSUME TablesSound, NEW e \in Escrows, Cancel(e) PROVE TablesSound'
<1>1. /\ Tick /\ escrow[e].status # "none" /\ escrow' = [escrow EXCEPT ![e].status = "cancelled"]
      /\ UNCHANGED <<payout, refund, unseen, owed>>
  BY DEF Cancel
<1>2. unseen' \subseteq HelperPayouts /\ owed' \in {0, owed, clock'}
  BY <1>1 DEF TablesSound, ClockSound
<1> QED BY <1>1, <1>2, ClockKept, EscrowMoves, PayoutKept, RefundKept DEF TablesSound

\* A refund returns what is left of the amount after the fee.
LEMMA RefundRowSound ==
  ASSUME TablesSound, Tick, NEW e \in Escrows, NEW whole \in BOOLEAN, NEW fee \in {0, Fee},
         whole \/ Lines[e] > 0
  PROVE  RefundRow(e, whole, fee) \in RefundStates /\ RefundRow(e, whole, fee).at = clock'
<1>1. /\ EscrowAmount[e] \in Nat /\ Lines[e] \in Nat /\ Fee \in Nat
      /\ Fee <= EscrowAmount[e] /\ (Lines[e] > 0 => Fee <= EscrowAmount[e] \div Lines[e])
  BY InputsTyped
<1>2. fee \in Nat /\ fee <= EscrowAmount[e] /\ (Lines[e] > 0 => fee <= EscrowAmount[e] \div Lines[e])
  <2>1. ASSUME Lines[e] > 0 PROVE EscrowAmount[e] \div Lines[e] \in Nat
    BY <1>1, <2>1
  <2> QED BY <1>1, <2>1
<1>3. ASSUME NEW n \in Int, fee <= n PROVE n - fee \in Nat
  BY <1>2, <1>3
<1>4. (IF whole THEN EscrowAmount[e] ELSE LineAmount(e)) - fee \in Nat
  <2>1. CASE whole
    BY <1>1, <1>2, <1>3, <2>1
  <2>2. CASE ~whole
    <3>1. Lines[e] > 0 /\ LineAmount(e) = EscrowAmount[e] \div Lines[e]
      BY <1>1, <2>2 DEF LineAmount
    <3>2. EscrowAmount[e] \div Lines[e] \in Int
      BY <1>1, <3>1
    <3> QED BY <1>2, <1>3, <2>2, <3>1, <3>2
  <2> QED BY <2>1, <2>2
<1>5. PICK amount : amount = (IF whole THEN EscrowAmount[e] ELSE LineAmount(e)) - fee
  OBVIOUS
<1>6. RefundRow(e, whole, fee) = [status |-> "completed", of |-> e, whole |-> whole, at |-> clock',
                                  fee |-> fee, amount |-> amount]
  BY <1>5 DEF RefundRow
<1>7. clock' \in Nat
  BY Ticks
<1> QED BY <1>2, <1>4, <1>5, <1>6, <1>7 DEF RefundStates

\* The lines refunded so far are counted.
LEMMA LinesCounted == ASSUME NEW e \in Escrows PROVE Cardinality(LineRefundsOf(e)) \in Nat
<1>1. LineRefundsOf(e) \in SUBSET Refunds
  BY DEF LineRefundsOf, RefundsOf
<1>2. IsFiniteSet(LineRefundsOf(e))
  BY <1>1, FS_Subset, IdsApart
<1> QED BY <1>2, FS_CardinalityType

LEMMA RefundSteps ==
  ASSUME TablesSound, NEW r \in Refunds, NEW e \in Escrows, NEW fee \in {0, Fee},
         RefundWhole(r, e, fee) \/ RefundLine(r, e, fee)
  PROVE  TablesSound'
<1> DEFINE whole == RefundWhole(r, e, fee)
<1>1. /\ Tick /\ escrow[e].status = "held" /\ UNCHANGED <<payout, unseen, owed>>
      /\ escrow' = escrow \/ escrow' = [escrow EXCEPT ![e].status = "refunded"]
  BY DEF RefundWhole, RefundLine
<1>2. \E w \in BOOLEAN : (w \/ Lines[e] > 0) /\ refund' = [refund EXCEPT ![r] = RefundRow(e, w, fee)]
  <2>1. CASE RefundWhole(r, e, fee)
    BY <2>1 DEF RefundWhole
  <2>2. CASE RefundLine(r, e, fee)
    <3>1. Lines[e] > 0
      BY <2>2, LinesCounted, InputsTyped DEF RefundLine
    <3> QED BY <2>2, <3>1 DEF RefundLine
  <2> QED BY <2>1, <2>2
<1>3. RefundSound'
  <2>1. PICK w \in BOOLEAN : /\ w \/ Lines[e] > 0
                             /\ refund' = [refund EXCEPT ![r] = RefundRow(e, w, fee)]
    BY <1>2
  <2>2. PICK row : row = RefundRow(e, w, fee)
    OBVIOUS
  <2>3. row \in RefundStates /\ row.at \in 1 .. clock'
    BY <1>1, <2>1, <2>2, RefundRowSound, Ticks
  <2> QED BY <1>1, <2>1, <2>2, <2>3, RefundWrite
<1>4. EscrowSound'
  BY <1>1, EscrowKept, EscrowMoves
<1>5. unseen' \subseteq HelperPayouts /\ owed' \in {0, owed, clock'}
  BY <1>1 DEF TablesSound, ClockSound
<1> QED BY <1>1, <1>3, <1>4, <1>5, ClockKept, PayoutKept DEF TablesSound

LEMMA RefundFailsSound == ASSUME TablesSound, NEW r \in Refunds, RefundFails(r) PROVE TablesSound'
<1> DEFINE row == [refund[r] EXCEPT !.status = "failed"]
<1>1. /\ Tick /\ refund[r].status # "none" /\ refund' = [refund EXCEPT ![r] = row]
      /\ UNCHANGED <<escrow, payout, unseen, owed>>
  BY DEF RefundFails
<1>2. refund[r] \in RefundStates /\ refund[r].at \in 1 .. clock
  BY <1>1, RefundTyped DEF TablesSound
<1>3. row \in RefundStates /\ row.at \in 1 .. clock'
  BY <1>1, <1>2, Ticks DEF RefundStates
<1>4. unseen' \subseteq HelperPayouts /\ owed' \in {0, owed, clock'}
  BY <1>1 DEF TablesSound, ClockSound
<1> HIDE DEF row
<1> QED BY <1>1, <1>3, <1>4, ClockKept, RefundWrite, EscrowKept, PayoutKept DEF TablesSound

LEMMA PaySound ==
  ASSUME TablesSound, NEW p \in HelperPayouts, NEW s \in {"processing", "completed"}, Pay(p, s)
  PROVE  TablesSound'
<1> DEFINE row == [status |-> s, at |-> clock', done |-> IF s = "completed" THEN clock' ELSE 0]
<1>1. /\ Tick /\ payout' = [payout EXCEPT ![p] = row] /\ owed' = 0 /\ refund' = refund
      /\ unseen' \in {unseen, unseen \cup {p}}
  BY DEF Pay
<1>2. row \in PayoutStates /\ row.at \in 1 .. clock' /\ row.done \in 0 .. clock'
  <2>1. clock' \in Nat /\ clock' \in 1 .. clock' /\ clock' \in 0 .. clock' /\ 0 \in 0 .. clock'
    BY <1>1, Ticks
  <2>2. CASE s = "completed"
    BY <2>1, <2>2 DEF PayoutStates
  <2>3. CASE s # "completed"
    BY <2>1, <2>3 DEF PayoutStates
  <2> QED BY <2>2, <2>3
<1>3. EscrowSound'
  <2>1. CASE EscrowOf[p] = "none"
    BY <1>1, <2>1, EscrowKept DEF Pay
  <2>2. CASE EscrowOf[p] # "none"
    <3>1. PICK e : e = EscrowOf[p]
      OBVIOUS
    <3>2. /\ e \in Escrows /\ escrow[e].status # "none"
          /\ escrow' = [escrow EXCEPT ![e].status = "released"]
      BY <2>2, <3>1, InputsTyped DEF Pay
    <3> QED BY <1>1, <3>2, EscrowMoves
  <2> QED BY <2>1, <2>2
<1>4. unseen' \subseteq HelperPayouts /\ owed' \in {0, owed, clock'}
  BY <1>1 DEF TablesSound, ClockSound
<1> HIDE DEF row
<1> QED BY <1>1, <1>2, <1>3, <1>4, ClockKept, PayoutWrite, RefundKept DEF TablesSound

LEMMA PayoutStatusSound ==
  ASSUME TablesSound, NEW p \in HelperPayouts, NEW s \in {"processing", "completed", "held"},
         MovesPayout(p, s)
  PROVE  TablesSound'
<1>1. PICK d : d = IF s = "completed" /\ payout[p].done = 0 THEN clock' ELSE payout[p].done
  OBVIOUS
<1> DEFINE row == [payout[p] EXCEPT !.status = s, !.done = d]
<1>2. /\ Tick /\ IsMade(payout[p]) /\ UNCHANGED <<escrow, refund, owed>>
      /\ payout' = [payout EXCEPT ![p] = row]
      /\ unseen' \in {unseen, unseen \cup {p}, unseen \ {p}}
  BY <1>1 DEF MovesPayout
<1>3. /\ payout[p] \in PayoutStates /\ payout[p].at \in 1 .. clock' /\ payout[p].done \in 0 .. clock'
      /\ clock' \in Nat /\ clock' \in 0 .. clock'
  BY <1>2, PayoutTyped, Ticks DEF TablesSound
<1>4. d \in Nat /\ d \in 0 .. clock'
  BY <1>1, <1>3
<1>5. row \in PayoutStates /\ row.at \in 1 .. clock' /\ row.done \in 0 .. clock'
  BY <1>3, <1>4 DEF PayoutStates
<1>6. unseen' \subseteq HelperPayouts /\ owed' \in {0, owed, clock'}
  BY <1>2 DEF TablesSound, ClockSound
<1> HIDE DEF row
<1> QED BY <1>2, <1>5, <1>6, ClockKept, PayoutWrite, RefundKept, EscrowKept DEF TablesSound

LEMMA BecomesVisibleSound ==
  ASSUME TablesSound, NEW p \in HelperPayouts, BecomesVisible(p)
  PROVE  TablesSound'
<1>1. Tick /\ unseen' \subseteq HelperPayouts /\ UNCHANGED <<escrow, payout, refund, owed>>
  BY DEF BecomesVisible, TablesSound, ClockSound
<1> QED BY <1>1, ClockKept, EscrowKept, PayoutKept, RefundKept DEF TablesSound

LEMMA PenalizeSound == ASSUME TablesSound, Penalize PROVE TablesSound'
<1>1. Tick /\ unseen' \subseteq HelperPayouts /\ owed' = clock' /\ UNCHANGED <<escrow, payout, refund>>
  BY DEF Penalize, TablesSound, ClockSound
<1> QED BY <1>1, ClockKept, EscrowKept, PayoutKept, RefundKept DEF TablesSound

\* The steps that change the tables, and those of a request.
TableStep ==
  \/ \E e \in Escrows : Order(e) \/ Capture(e) \/ Cancel(e)
  \/ \E r \in Refunds, e \in Escrows, fee \in {0, Fee} : RefundWhole(r, e, fee) \/ RefundLine(r, e, fee)
  \/ \E r \in Refunds : RefundFails(r)
  \/ \E p \in HelperPayouts, s \in {"processing", "completed"} : Pay(p, s)
  \/ \E p \in HelperPayouts, s \in {"processing", "completed", "held"} : MovesPayout(p, s)
  \/ \E p \in HelperPayouts : BecomesVisible(p)
  \/ Penalize
RequestStep ==
  \/ \E q \in Requests : BeginTransactions(q)
  \/ ReadPerformerPayouts \/ ReadPosterRefunds \/ SkipPosterRefunds
  \/ AnswerTransactions \/ Received

LEMMA NextIs == HistoryNext <=> TableStep \/ RequestStep
BY DEF HistoryNext, TableStep, RequestStep

LEMMA RequestsOnlyRead == ASSUME RequestStep PROVE UNCHANGED historyTables
BY DEF RequestStep, BeginTransactions, ReadPerformerPayouts, ReadPosterRefunds, SkipPosterRefunds,
       AnswerTransactions, Received

LEMMA TablesKept == ASSUME TablesSound, UNCHANGED historyTables PROVE TablesSound'
BY DEF historyTables, TablesSound, ClockSound, EscrowSound, PayoutSound, RefundSound

LEMMA TableSteps == ASSUME TablesSound, TableStep PROVE TablesSound'
<1>1. CASE \E e \in Escrows : Order(e) \/ Capture(e) \/ Cancel(e)
  BY <1>1, OrderSound, CaptureSound, CancelSound
<1>2. CASE \E r \in Refunds, e \in Escrows, fee \in {0, Fee} :
             RefundWhole(r, e, fee) \/ RefundLine(r, e, fee)
  BY <1>2, RefundSteps
<1>3. CASE \E r \in Refunds : RefundFails(r)
  BY <1>3, RefundFailsSound
<1>4. CASE \E p \in HelperPayouts, s \in {"processing", "completed"} : Pay(p, s)
  BY <1>4, PaySound
<1>5. CASE \E p \in HelperPayouts, s \in {"processing", "completed", "held"} : MovesPayout(p, s)
  BY <1>5, PayoutStatusSound
<1>6. CASE \E p \in HelperPayouts : BecomesVisible(p)
  BY <1>6, BecomesVisibleSound
<1>7. CASE Penalize
  BY <1>7, PenalizeSound
<1> QED BY <1>1, <1>2, <1>3, <1>4, <1>5, <1>6, <1>7 DEF TableStep

LEMMA TablesStart == ASSUME HistoryInit PROVE TablesSound
<1>1. /\ Len(Prepaid) \in Nat /\ Len(Prepaid) <= MaxTime /\ MaxTime \in Nat
      /\ DOMAIN Prepaid = 1 .. Len(Prepaid) /\ clock = Len(Prepaid)
  BY InputsTyped DEF HistoryInit
<1>2. ClockSound
  BY <1>1 DEF HistoryInit, ClockSound
<1>3. PayoutSound
  BY DEF HistoryInit, PayoutSound, IsMade
<1>4. RefundSound
  BY DEF HistoryInit, RefundSound, IsMade
<1> DEFINE paid(e) == \E i \in DOMAIN Prepaid : Prepaid[i] = e
           at(e) == CHOOSE i \in DOMAIN Prepaid : Prepaid[i] = e
<1>5. ASSUME NEW e \in Escrows
      PROVE  /\ escrow[e] \in EscrowStates \cup {None}
             /\ IsMade(escrow[e]) => escrow[e].at \in 1 .. clock /\ escrow[e].paid \in 0 .. clock
  <2>1. CASE ~paid(e)
    BY <2>1 DEF HistoryInit, IsMade
  <2>2. CASE paid(e)
    <3>1. at(e) \in DOMAIN Prepaid
      BY <2>2
    <3>2. escrow[e] = [status |-> "held", at |-> at(e), paid |-> at(e)]
      BY <2>2 DEF HistoryInit
    <3>3. PICK n : n = at(e)
      OBVIOUS
    <3>4. n \in 1 .. clock /\ n \in 0 .. clock /\ n \in Nat
      BY <1>1, <3>1, <3>3
    <3> QED BY <3>2, <3>3, <3>4 DEF EscrowStates
  <2> QED BY <2>1, <2>2
<1>6. EscrowSound
  <2>1. \E f : escrow = [e \in Escrows |-> f[e]]
    <3> DEFINE g == [e \in Escrows |->
                 IF \E i \in DOMAIN Prepaid: Prepaid[i] = e
                 THEN LET a == CHOOSE i \in DOMAIN Prepaid: Prepaid[i] = e
                      IN [status |-> "held", at |-> a, paid |-> a]
                 ELSE None]
    <3>1. escrow = g
      BY DEF HistoryInit
    <3>2. g = [e \in Escrows |-> g[e]]
      OBVIOUS
    <3> HIDE DEF g
    <3> QED BY <3>1, <3>2
  <2> HIDE DEF paid, at
  <2> QED BY <1>5, <2>1 DEF EscrowSound
<1> QED BY <1>2, <1>3, <1>4, <1>6 DEF TablesSound

-----------------------------------------------------------------------------
(* What is collected                                                       *)

Types == {"escrow", "refund", "payout", "compensation", "cancellation_penalty"}
Ids == Escrows \cup HelperPayouts \cup Refunds \cup {"penalty"}
RowSound(x) ==
  /\ x.type \in Types /\ x.amount \in Nat /\ x.date \in 1 .. clock
  /\ x.type = "escrow" => x.id \in Escrows
  /\ x.type = "payout" => x.id \in HelperPayouts /\ x.category = "earnings"
  /\ x.type \in {"refund", "compensation"} => x.id \in Refunds
  /\ x.type = "cancellation_penalty" => x.id = "penalty"

\* A poster is shown payments and refunds, a helper payouts and compensations.
OnSide(q, x) == x.type \in IF q.user = "poster" THEN {"escrow", "refund"} ELSE {"payout", "compensation"}
\* The payout of a row is what the row says, unless it changed.
Truthful(x) ==
  x.type = "payout" /\ x.id \notin changed => IsMade(payout[x.id]) /\ x.status = payout[x.id].status
Single(rows) == \A x, y \in rows : x.id = y.id => x = y
RowsSound(q, rows) ==
  /\ \A x \in rows : RowSound(x) /\ OnSide(q, x) /\ Truthful(x)
  /\ Single(rows)

LEMMA UserIs == ASSUME NEW q \in Requests PROVE q.user \in {"poster", "helper"}
BY InputsTyped

LEMMA PaymentRowIs ==
  ASSUME TablesSound, NEW q, NEW e \in Escrows, IsMade(escrow[e]), NEW x, x = PosterPaymentRow(q, e)
  PROVE  RowSound(x) /\ x.type = "escrow" /\ x.id = e
<1>1. escrow[e].at \in 1 .. clock /\ escrow[e].paid \in 0 .. clock /\ EscrowAmount[e] \in Nat
  BY InputsTyped DEF TablesSound, EscrowSound
<1>2. PICK date : date = IF escrow[e].paid > 0 THEN escrow[e].paid ELSE escrow[e].at
  OBVIOUS
<1>3. date \in 1 .. clock
  BY <1>1, <1>2 DEF TablesSound, ClockSound
<1>4. PICK back : back = RefundedAmount(q, e)
  OBVIOUS
<1>5. x.type = "escrow" /\ x.id = e /\ x.amount = EscrowAmount[e] /\ x.date = date
  BY <1>2, <1>4 DEF PosterPaymentRow
<1> QED BY <1>1, <1>3, <1>5 DEF RowSound, Types

LEMMA PayoutRowIs ==
  ASSUME TablesSound, NEW p \in HelperPayouts, IsMade(payout[p]), NEW via, NEW date,
         date \in 1 .. clock,
         NEW x, x = PayoutRow(p, date, via)
  PROVE  RowSound(x) /\ x.type = "payout" /\ x.id = p /\ x.status = payout[p].status
<1>1. x.type = "payout" /\ x.id = p /\ x.amount = 1 /\ x.date = date /\ x.category = "earnings"
      /\ x.status = payout[p].status
  BY DEF PayoutRow
<1> QED BY <1>1 DEF RowSound, Types

LEMMA PayoutDates ==
  ASSUME TablesSound, NEW p \in HelperPayouts, IsMade(payout[p])
  PROVE  DoneOr(p) \in 1 .. clock /\ payout[p].at \in 1 .. clock
<1>1. payout[p].at \in 1 .. clock /\ payout[p].done \in 0 .. clock
  BY PayoutTyped DEF TablesSound
<1> QED BY <1>1 DEF DoneOr, TablesSound, ClockSound

LEMMA RefundRowIs ==
  ASSUME TablesSound, NEW r \in Refunds, IsMade(refund[r]), NEW via, NEW x, x = RefundRowFor(r, via)
  PROVE  RowSound(x) /\ x.type = "refund" /\ x.id = r
<1>1. refund[r].at \in 1 .. clock /\ refund[r].amount \in Nat
  BY DEF TablesSound, RefundSound, RefundStates, IsMade
<1>2. x.type = "refund" /\ x.id = r /\ x.amount = refund[r].amount /\ x.date = refund[r].at
  BY DEF RefundRowFor
<1> QED BY <1>1, <1>2 DEF RowSound, Types

LEMMA CompensationRowIs ==
  ASSUME TablesSound, NEW r \in Refunds, IsMade(refund[r]), NEW x, x = CompensationRow(r)
  PROVE  RowSound(x) /\ x.type = "compensation" /\ x.id = r
<1>1. refund[r].at \in 1 .. clock /\ refund[r].fee \in Nat
  BY DEF TablesSound, RefundSound, RefundStates, IsMade
<1>2. x.type = "compensation" /\ x.id = r /\ x.amount = refund[r].fee /\ x.date = refund[r].at
  BY DEF CompensationRow
<1> QED BY <1>1, <1>2 DEF RowSound, Types

\* What the first query yields, for either side.
LEMMA PosterEscrowRows ==
  ASSUME NEW q, q.user = "poster", NEW x \in EscrowRows(q)
  PROVE  \/ \E e \in Escrows : IsMade(escrow[e]) /\ x = PosterPaymentRow(q, e)
         \/ \E r \in Refunds : IsMade(refund[r]) /\ x = RefundRowFor(r, "escrow")
<1>1. \A e \in Fetched(q) : e \in Escrows /\ IsMade(escrow[e])
  BY DEF Fetched, Newest, Matching
<1> QED BY <1>1 DEF EscrowRows

LEMMA HelperEscrowRows ==
  ASSUME NEW q, q.user = "helper", NEW x \in EscrowRows(q)
  PROVE  \/ \E p \in HelperPayouts : IsMade(payout[p]) /\ x = PayoutRow(p, DoneOr(p), "escrow")
         \/ \E r \in Refunds : IsMade(refund[r]) /\ x = CompensationRow(r)
<1>1. "helper" # "poster"
  OBVIOUS
<1> QED BY <1>1 DEF EscrowRows

LEMMA EscrowRowsSound == ASSUME TablesSound, NEW q \in Requests PROVE RowsSound(q, EscrowRows(q))
<1>1. CASE q.user = "poster"
  <2>1. ASSUME NEW x \in EscrowRows(q)
        PROVE  /\ RowSound(x) /\ x.type \in {"escrow", "refund"}
               /\ x.type = "escrow" => x.id \in Escrows /\ x = PosterPaymentRow(q, x.id)
               /\ x.type = "refund" => x.id \in Refunds /\ x = RefundRowFor(x.id, "escrow")
    BY <1>1, <2>1, PosterEscrowRows, PaymentRowIs, RefundRowIs
  <2>2. Single(EscrowRows(q))
    BY <2>1, IdsApart DEF Single
  <2> QED BY <1>1, <2>1, <2>2 DEF RowsSound, OnSide, Truthful
<1>2. CASE q.user = "helper"
  <2>1. ASSUME NEW x \in EscrowRows(q)
        PROVE  /\ RowSound(x) /\ x.type \in {"payout", "compensation"}
               /\ x.type = "payout" =>
                    /\ x.id \in HelperPayouts /\ x = PayoutRow(x.id, DoneOr(x.id), "escrow")
                                       /\ IsMade(payout[x.id]) /\ x.status = payout[x.id].status
               /\ x.type = "compensation" => x.id \in Refunds /\ x = CompensationRow(x.id)
    <3>1. CASE \E p \in HelperPayouts : IsMade(payout[p]) /\ x = PayoutRow(p, DoneOr(p), "escrow")
      <4>1. PICK p \in HelperPayouts : IsMade(payout[p]) /\ x = PayoutRow(p, DoneOr(p), "escrow")
        BY <3>1
      <4>2. PICK date : date = DoneOr(p)
        OBVIOUS
      <4>3. RowSound(x) /\ x.type = "payout" /\ x.id = p /\ x.status = payout[p].status
        BY <4>1, <4>2, PayoutDates, PayoutRowIs
      <4> QED BY <4>1, <4>3
    <3>2. CASE \E r \in Refunds : IsMade(refund[r]) /\ x = CompensationRow(r)
      BY <3>2, CompensationRowIs
    <3> QED BY <1>2, <2>1, <3>1, <3>2, HelperEscrowRows
  <2>2. Single(EscrowRows(q))
    BY <2>1, IdsApart DEF Single
  <2>3. \A x \in EscrowRows(q) : OnSide(q, x) /\ Truthful(x)
    BY <1>2, <2>1 DEF OnSide, Truthful
  <2> QED BY <2>1, <2>2, <2>3 DEF RowsSound
<1> QED BY <1>1, <1>2, UserIs

-----------------------------------------------------------------------------
(* The other queries                                                       *)

\* A set without one of its elements is smaller.
LEMMA Fewer ==
  ASSUME NEW S, IsFiniteSet(S), NEW x \in S, NEW T, T \subseteq S \ {x}
  PROVE  Cardinality(T) \in Nat /\ Cardinality(S) \in Nat /\ Cardinality(T) < Cardinality(S)
<1>1. IsFiniteSet(S \ {x}) /\ Cardinality(S \ {x}) = Cardinality(S) - 1
  BY FS_RemoveElement
<1>2. T \in SUBSET (S \ {x})
  OBVIOUS
<1>3. IsFiniteSet(T) /\ Cardinality(T) <= Cardinality(S \ {x})
  BY <1>1, <1>2, FS_Subset
<1>4. Cardinality(T) \in Nat /\ Cardinality(S) \in Nat
  BY <1>3, FS_CardinalityType
<1> QED BY <1>1, <1>3, <1>4

Made == {p \in HelperPayouts : IsMade(payout[p])}
MadeMatching(q) == {p \in HelperPayouts : IsMade(payout[p]) /\ HasStatus(q, payout[p].status)}

LEMMA LimitIs ==
  ASSUME NEW q \in Requests
  PROVE  fetchLimit(q) \in Nat /\ q.limit \in Nat /\ q.offset \in Nat
<1>1. q.limit \in 1 .. 100 /\ q.offset \in Nat
  BY InputsTyped
<1>2. PICK n : n = q.limit
  OBVIOUS
<1>3. fetchLimit(q) = IF n > 30 THEN n + 20 ELSE 50
  BY <1>2 DEF fetchLimit
<1>4. n \in Nat
  BY <1>1, <1>2
<1> QED BY <1>1, <1>2, <1>3, <1>4

LEMMA NewestIn ==
  ASSUME NEW S, NEW table, NEW skip, NEW take
  PROVE  Newest(S, table, skip, take) \subseteq S
BY DEF Newest

\* A query takes all rows when there are no more than it takes.
LEMMA NewestAll ==
  ASSUME NEW S, IsFiniteSet(S), NEW table, \A x \in S : table[x].at \in Nat,
         NEW n \in Nat, Cardinality(S) <= n
  PROVE  Newest(S, table, 0, n) = S
<1>1. ASSUME NEW x \in S PROVE Cardinality({y \in S : table[y].at > table[x].at}) \in 0 .. (0 + n - 1)
  <2> DEFINE later == {y \in S : table[y].at > table[x].at}
  <2>1. later \subseteq S \ {x}
    <3>1. ~(table[x].at > table[x].at)
      OBVIOUS
    <3> QED BY <3>1
  <2> HIDE DEF later
  <2>2. Cardinality(later) \in Nat /\ Cardinality(S) \in Nat /\ Cardinality(later) < Cardinality(S)
    BY <2>1, Fewer
  <2>3. Cardinality(later) \in 0 .. (0 + n - 1)
    BY <2>2
  <2> QED BY <2>3 DEF later
<1> QED BY <1>1 DEF Newest

\* One query takes all payouts when there are no more than it takes.
LEMMA NewestIsAll ==
  ASSUME NEW q \in Requests, AllFetched(q), TablesSound, NEW p \in MadeMatching(q)
  PROVE  p \in Newest(MadeMatching(q), payout, 0, fetchLimit(q))
<1>1. IsFiniteSet(Made) /\ MadeMatching(q) \in SUBSET Made
  BY FS_Subset, IdsApart DEF Made, MadeMatching
<1>2. /\ IsFiniteSet(MadeMatching(q)) /\ Cardinality(MadeMatching(q)) <= Cardinality(Made)
      /\ Cardinality(MadeMatching(q)) \in Nat /\ Cardinality(Made) \in Nat
  BY <1>1, FS_Subset, FS_CardinalityType
<1>3. Cardinality(Made) <= fetchLimit(q) /\ fetchLimit(q) \in Nat
  BY LimitIs DEF AllFetched, Made
<1>4. \A x \in MadeMatching(q) : payout[x].at \in Nat
  BY PayoutTyped DEF TablesSound, MadeMatching
<1>5. Newest(MadeMatching(q), payout, 0, fetchLimit(q)) = MadeMatching(q)
  BY <1>2, <1>3, <1>4, NewestAll
<1> QED BY <1>5

Helped(q) == q.user = "helper" /\ q.type \in {"any", "payout"}
\* The second query has every payout that can be asked for.
HasPayouts(q, more) ==
  Helped(q) /\ AllFetched(q) =>
    \A p \in HelperPayouts \ changed :
      IsMade(payout[p]) /\ HasStatus(q, payout[p].status) => \E x \in more : x.id = p
MoreSound(q, more) ==
  /\ RowsSound(q, more) /\ HasPayouts(q, more)
  /\ \A x \in more : x.type = "payout"

LEMMA PayoutRowsAre ==
  ASSUME NEW q \in Requests, NEW x \in PerformerPayoutRows(q)
  PROVE  q.user = "helper" /\ \E p \in HelperPayouts :
                                IsMade(payout[p]) /\ x = PayoutRow(p, payout[p].at, "payouts")
<1> DEFINE all == Newest(MadeMatching(q), payout, 0, fetchLimit(q))
<1>1. all \subseteq MadeMatching(q)
  BY NewestIn
<1>2. q.user # "poster" /\ x \in {PayoutRow(p, payout[p].at, "payouts") : p \in all}
  BY DEF PerformerPayoutRows, MadeMatching
<1> HIDE DEF all
<1>3. \E p \in all : x = PayoutRow(p, payout[p].at, "payouts")
  BY <1>2
<1> QED BY <1>1, <1>2, <1>3, UserIs DEF MadeMatching

LEMMA PayoutRowsSound ==
  ASSUME TablesSound, NEW q \in Requests
  PROVE  MoreSound(q, PerformerPayoutRows(q))
<1> DEFINE more == PerformerPayoutRows(q)
<1>1. ASSUME NEW x \in more
      PROVE  /\ q.user = "helper" /\ RowSound(x) /\ x.type = "payout"
             /\ x.id \in HelperPayouts /\ x = PayoutRow(x.id, payout[x.id].at, "payouts")
             /\ IsMade(payout[x.id]) /\ x.status = payout[x.id].status
  <2>1. PICK p \in HelperPayouts : IsMade(payout[p]) /\ x = PayoutRow(p, payout[p].at, "payouts")
    BY PayoutRowsAre
  <2>2. PICK date : date = payout[p].at
    OBVIOUS
  <2>3. RowSound(x) /\ x.type = "payout" /\ x.id = p /\ x.status = payout[p].status
    BY <2>1, <2>2, PayoutDates, PayoutRowIs
  <2> QED BY <2>1, <2>3, PayoutRowsAre
<1>2. Single(more)
  BY <1>1 DEF Single
<1>3. RowsSound(q, more)
  <2>1. \A x \in more : OnSide(q, x) /\ Truthful(x)
    BY <1>1 DEF OnSide, Truthful
  <2> HIDE DEF more
  <2> QED BY <1>1, <1>2, <2>1 DEF RowsSound
<1>4. HasPayouts(q, more)
  <2> SUFFICES ASSUME Helped(q), AllFetched(q), NEW p \in MadeMatching(q)
               PROVE  \E x \in more : x.id = p
    BY DEF HasPayouts, MadeMatching
  <2>1. p \in Newest(MadeMatching(q), payout, 0, fetchLimit(q))
    BY NewestIsAll
  <2>2. q.user # "poster" /\ Wants(q, {"payout"})
    BY DEF Helped, Wants
  <2>3. PayoutRow(p, payout[p].at, "payouts") \in more
    BY <2>1, <2>2 DEF PerformerPayoutRows, MadeMatching
  <2>4. PayoutRow(p, payout[p].at, "payouts").id = p
    BY DEF PayoutRow
  <2> HIDE DEF more
  <2> QED BY <2>3, <2>4
<1> HIDE DEF more
<1>5. \A x \in more : x.type = "payout"
  BY <1>1
<1>6. MoreSound(q, more)
  BY <1>3, <1>4, <1>5 DEF MoreSound
<1> QED BY <1>6 DEF more

\* What is visible of sound rows is sound, and shows no payout held back.
NoneHeld(rows) ==
  \A x \in rows : x.type = "payout" /\ x.id \notin changed =>
    payout[x.id].status # "held" /\ x.id \notin unseen

LEMMA FewerRows ==
  ASSUME NEW q, NEW rows, RowsSound(q, rows), NEW some, some \subseteq rows
  PROVE  RowsSound(q, some)
BY DEF RowsSound, Single

LEMMA VisibleSound ==
  ASSUME NEW q, NEW rows, RowsSound(q, rows)
  PROVE  RowsSound(q, Visible(rows)) /\ NoneHeld(Visible(rows))
<1>1. Visible(rows) \subseteq rows
  BY DEF Visible
<1>2. RowsSound(q, Visible(rows))
  <2>1. PICK some : some = Visible(rows)
    OBVIOUS
  <2> QED BY <1>1, <2>1, FewerRows
<1>3. NoneHeld(Visible(rows))
  BY DEF Visible, NoneHeld, RowsSound, Truthful
<1> QED BY <1>2, <1>3

\* Refunds of their own are added when no row has them.
LEMMA RefundRowsAre ==
  ASSUME NEW q \in Requests, NEW rows, NEW x \in PosterRefundRows(q, rows)
  PROVE  /\ q.user = "poster"
         /\ \E r \in Refunds : /\ IsMade(refund[r]) /\ x = RefundRowFor(r, "refunds")
                               /\ \A row \in rows : row.type = "refund" => row.id # r
<1> DEFINE all == {y \in Refunds: IsMade(refund[y]) /\ HasStatus(q, refund[y].status)}
<1>1. Newest(all, refund, 0, fetchLimit(q)) \subseteq all
  BY NewestIn
<1> QED BY <1>1, UserIs DEF PosterRefundRows

LEMMA RefundsAdded ==
  ASSUME TablesSound, NEW q \in Requests, NEW rows, RowsSound(q, rows), NoneHeld(rows)
  PROVE  /\ RowsSound(q, rows \cup PosterRefundRows(q, rows))
         /\ NoneHeld(rows \cup PosterRefundRows(q, rows))
<1> DEFINE new == PosterRefundRows(q, rows)
<1>1. ASSUME NEW x \in new
      PROVE  /\ q.user = "poster" /\ RowSound(x) /\ x.type = "refund" /\ x.id \in Refunds
             /\ x = RefundRowFor(x.id, "refunds")
             /\ \A row \in rows : row.type = "refund" => row.id # x.id
  <2>1. PICK r \in Refunds : /\ IsMade(refund[r]) /\ x = RefundRowFor(r, "refunds")
                             /\ \A row \in rows : row.type = "refund" => row.id # r
    BY RefundRowsAre
  <2>2. PICK via : via = "refunds"
    OBVIOUS
  <2>3. RowSound(x) /\ x.type = "refund" /\ x.id = r
    BY <2>1, <2>2, RefundRowIs
  <2> QED BY <2>1, <2>3, RefundRowsAre
<1>2. ASSUME NEW x \in new, NEW row \in rows PROVE row.id # x.id
  <2>1. RowSound(row) /\ row.type \in {"escrow", "refund"}
    BY <1>1, <1>2 DEF RowsSound, OnSide
  <2> QED BY <1>1, <1>2, <2>1, IdsApart DEF RowSound
<1> HIDE DEF new
<1>3. Single(rows \cup new)
  BY <1>1, <1>2 DEF RowsSound, Single
<1>4. \A x \in new : OnSide(q, x) /\ Truthful(x)
  BY <1>1 DEF OnSide, Truthful
<1>5. RowsSound(q, rows \cup new)
  BY <1>1, <1>3, <1>4 DEF RowsSound
<1>6. NoneHeld(rows \cup new)
  BY <1>1 DEF NoneHeld
<1> QED BY <1>5, <1>6 DEF new

-----------------------------------------------------------------------------
(* The answer                                                              *)

LEMMA PenaltyRowIs ==
  ASSUME TablesSound, NEW q \in Requests, NEW x \in PenaltyRows(q)
  PROVE  q.user = "helper" /\ RowSound(x) /\ x.type = "cancellation_penalty" /\ x.id = "penalty"
<1>1. q.user = "helper" /\ owed \in 1 .. clock
  BY UserIs DEF PenaltyRows, TablesSound, ClockSound
<1>2. x.type = "cancellation_penalty" /\ x.id = "penalty" /\ x.amount = 1 /\ x.date = owed
  BY DEF PenaltyRows
<1> QED BY <1>1, <1>2 DEF RowSound, Types

LEMMA PenaltyOnce == ASSUME NEW q, NEW x \in PenaltyRows(q), NEW y \in PenaltyRows(q) PROVE x = y
BY DEF PenaltyRows

AllRows(q, rows, more) == rows \cup PenaltyRows(q) \cup GapFill(rows, more)
Tells(rows) ==
  /\ \A x \in rows : RowSound(x) /\ Truthful(x)
  /\ Single(rows) /\ NoneHeld(rows)

\* A payout in both queries is listed once.
LEMMA AllRowsTell ==
  ASSUME TablesSound, NEW q \in Requests, NEW rows, NEW more,
         RowsSound(q, rows), NoneHeld(rows), MoreSound(q, more)
  PROVE  Tells(AllRows(q, rows, more))
<1> DEFINE fine == PenaltyRows(q)
           fill == GapFill(rows, more)
<1>1. /\ fill \subseteq Visible(more)
      /\ \A x \in fill : \A row \in rows : row.type = "payout" => row.id # x.id
  BY DEF GapFill
<1>2. RowsSound(q, Visible(more)) /\ NoneHeld(Visible(more)) /\ Visible(more) \subseteq more
  BY VisibleSound DEF MoreSound, Visible
<1>3. \A x \in fill : RowSound(x) /\ Truthful(x) /\ x.type = "payout" /\ x.id \in HelperPayouts
  BY <1>1, <1>2 DEF RowsSound, MoreSound, RowSound
<1>4. Single(fill) /\ NoneHeld(fill)
  <2> HIDE DEF fill
  <2> QED BY <1>1, <1>2 DEF RowsSound, Single, NoneHeld
<1>5. \A x \in fine : RowSound(x) /\ x.type = "cancellation_penalty" /\ x.id = "penalty"
  BY PenaltyRowIs
<1>6. Single(fine)
  BY PenaltyOnce DEF Single
<1> HIDE DEF fine, fill
<1>7. \A x \in fine : Truthful(x)
  BY <1>5 DEF Truthful
<1>8. NoneHeld(fine)
  BY <1>5 DEF NoneHeld
<1>9. \A x \in rows : RowSound(x) /\ Truthful(x) /\
        x.type \in {"escrow", "refund", "payout", "compensation"}
  BY UserIs DEF RowsSound, OnSide
<1>10. \A x \in rows : x.id \in Escrows \cup HelperPayouts \cup Refunds
  BY <1>9 DEF RowSound
<1>11. \A x \in rows, y \in fill : x.id # y.id
  BY <1>1, <1>3, <1>9, IdsApart DEF RowSound
<1>12. \A x \in rows \cup fill, y \in fine : x.id # y.id
  BY <1>3, <1>5, <1>10, IdsApart
<1>13. Single(rows \cup fine \cup fill)
  BY <1>4, <1>6, <1>11, <1>12 DEF Single, RowsSound
<1>14. NoneHeld(rows \cup fine \cup fill)
  BY <1>4, <1>8 DEF NoneHeld
<1>15. Tells(rows \cup fine \cup fill)
  BY <1>3, <1>5, <1>7, <1>9, <1>13, <1>14 DEF Tells
<1> QED BY <1>15 DEF AllRows, fine, fill

\* The payouts a helper's answer must have, when it is all on one page.
Due(q, p) ==
  IsMade(payout[p]) /\ payout[p].status # "held" /\ p \notin unseen /\ HasStatus(q, payout[p].status)
Has(q, rows) ==
  Helped(q) /\ AllFetched(q) =>
    \A p \in HelperPayouts \ changed : Due(q, p) =>
      \E x \in rows : x.id = p /\ x.type = "payout"

LEMMA AllRowsHave ==
  ASSUME NEW q \in Requests, NEW rows, NEW more, RowsSound(q, rows), MoreSound(q, more)
  PROVE  Has(q, AllRows(q, rows, more))
<1> SUFFICES ASSUME Helped(q), AllFetched(q), NEW p \in HelperPayouts \ changed, Due(q, p)
             PROVE  \E x \in AllRows(q, rows, more) : x.id = p /\ x.type = "payout"
  BY DEF Has
<1>1. PICK x \in more : x.id = p /\ x.type = "payout"
  BY DEF MoreSound, HasPayouts, Due
<1>2. x.status = payout[p].status
  BY <1>1 DEF MoreSound, RowsSound, Truthful
<1>3. x \in Visible(more)
  BY <1>1, <1>2 DEF Visible, Due
<1>4. CASE \E row \in rows : row.type = "payout" /\ row.id = x.id
  BY <1>1, <1>4 DEF AllRows
<1>5. CASE ~\E row \in rows : row.type = "payout" /\ row.id = x.id
  BY <1>1, <1>3, <1>5 DEF AllRows, GapFill
<1> QED BY <1>4, <1>5

\* Payouts are neither taken for another payment of their task nor filtered out.
Kept(q, rows) == Filtered(q, dedupePosterEscrowPaymentRows(rows))

LEMMA KeptHas ==
  ASSUME NEW q \in Requests, NEW rows, Tells(rows), Has(q, rows), q.category \in {"all", "earnings"}
  PROVE  Has(q, Kept(q, rows))
<1> SUFFICES ASSUME Helped(q), AllFetched(q), NEW p \in HelperPayouts \ changed, Due(q, p)
             PROVE  \E x \in Kept(q, rows) : x.id = p /\ x.type = "payout"
  BY DEF Has
<1>1. PICK x \in rows : x.id = p /\ x.type = "payout"
  BY DEF Has
<1>2. x.category = "earnings" /\ x.status = payout[p].status
  BY <1>1 DEF Tells, RowSound, Truthful
<1>3. x \in dedupePosterEscrowPaymentRows(rows)
  BY <1>1 DEF dedupePosterEscrowPaymentRows
<1>4. x \in Kept(q, rows)
  BY <1>1, <1>2, <1>3 DEF Kept, Filtered, Helped, Due
<1> QED BY <1>1, <1>4

LEMMA KeptTells ==
  ASSUME NEW rows, Tells(rows), NEW some, some \subseteq rows
  PROVE  Tells(some)
BY DEF Tells, Single, NoneHeld

\* As many rows as there are ids at most.
LEMMA RowsFinite == ASSUME NEW rows, Tells(rows) PROVE IsFiniteSet(rows)
<1> DEFINE f == [x \in rows |-> x.id]
<1>1. IsFiniteSet(Ids)
  BY IdsApart, FS_Union, FS_Singleton DEF Ids
<1>2. \A x \in rows : x.id \in Ids
  BY DEF Tells, RowSound, Types, Ids
<1>3. f \in Injection(rows, Ids)
  BY <1>2 DEF Injection, IsInjective, Tells, Single
<1> HIDE DEF f
<1> QED BY <1>1, <1>3, FS_Injection

\* A first page with room for all rows has them all.
LEMMA OnePageIsAll ==
  ASSUME NEW q \in Requests, NEW rows, Tells(rows), q.offset = 0, Cardinality(rows) <= q.limit,
         NEW x \in rows
  PROVE  x \in Page(q, rows)
<1> DEFINE later == {y \in rows : y.date > x.date}
<1>1. IsFiniteSet(rows)
  BY RowsFinite
<1>2. x.date \in Int
  BY DEF Tells, RowSound
<1>3. later \subseteq rows \ {x}
  <2>1. ~(x.date > x.date)
    BY <1>2
  <2> QED BY <2>1
<1>4. Cardinality(later) \in Nat /\ Cardinality(rows) \in Nat /\ Cardinality(later) < Cardinality(rows)
  <2> HIDE DEF later
  <2> QED BY <1>1, <1>3, Fewer
<1>5. Cardinality(later) \in q.offset .. (q.offset + q.limit - 1)
  <2>1. PICK n : n = q.limit
    OBVIOUS
  <2>2. n \in Nat /\ Cardinality(rows) <= n
    BY <2>1, LimitIs
  <2> HIDE DEF later
  <2>3. Cardinality(later) \in 0 .. (0 + n - 1)
    BY <1>4, <2>2
  <2> QED BY <2>1, <2>3
<1> QED BY <1>5 DEF Page

\* What holds of an answer from the moment it is given.
AnswerSound(q, page, total) ==
  /\ \A x \in page : x.amount >= 0 /\ x.date \in 1 .. clock
  /\ Single(page)
  /\ \A p \in HelperPayouts \ changed :
       IsMade(payout[p]) /\ (payout[p].status = "held" \/ p \in unseen) => \A x \in page : x.id # p
  /\ (q.category \in {"all", "earnings"} /\ q.offset = 0 /\ total <= q.limit) => Has(q, page)

LEMMA AnswerIsSound ==
  ASSUME TablesSound, NEW q \in Requests, NEW rows, NEW more,
         RowsSound(q, rows), NoneHeld(rows), MoreSound(q, more)
  PROVE  LET list == Kept(q, AllRows(q, rows, more))
         IN AnswerSound(q, Page(q, list), Cardinality(list))
<1>1. PICK all : all = AllRows(q, rows, more)
  OBVIOUS
<1>2. PICK list : list = Kept(q, all)
  OBVIOUS
<1>3. PICK page : page = Page(q, list)
  OBVIOUS
<1>4. Tells(all) /\ Has(q, all)
  BY <1>1, AllRowsTell, AllRowsHave
<1>5. list \subseteq all /\ page \subseteq list
  BY <1>2, <1>3 DEF Kept, Filtered, dedupePosterEscrowPaymentRows, Page
<1>6. Tells(list) /\ Tells(page)
  BY <1>4, <1>5, KeptTells
<1>7. \A x \in page : x.amount >= 0 /\ x.date \in 1 .. clock
  BY <1>6 DEF Tells, RowSound
<1>8. ASSUME NEW p \in HelperPayouts \ changed, IsMade(payout[p]),
             payout[p].status = "held" \/ p \in unseen,
             NEW x \in page, x.id = p
      PROVE  FALSE
  <2>1. x.type = "payout"
    BY <1>6, <1>8, IdsApart DEF Tells, RowSound, Types
  <2> QED BY <1>6, <1>8, <2>1 DEF Tells, NoneHeld
<1>9. ASSUME q.category \in {"all", "earnings"}, q.offset = 0, Cardinality(list) <= q.limit
      PROVE  Has(q, page)
  <2>1. Has(q, list)
    BY <1>2, <1>4, <1>9, KeptHas
  <2>2. list \subseteq page
    BY <1>3, <1>6, <1>9, OnePageIsAll
  <2> QED BY <2>1, <2>2 DEF Has
<1>10. AnswerSound(q, page, Cardinality(list))
  BY <1>6, <1>7, <1>8, <1>9 DEF AnswerSound, Tells
<1> QED BY <1>1, <1>2, <1>3, <1>10

-----------------------------------------------------------------------------
(* A request while the tables change                                       *)

\* The invariant: what each step of a request holds, of everything that has
\* not changed since it began.
ReqInv ==
  /\ req.step \in {"idle", "payouts", "refunds", "penalties", "answered"}
  /\ req.step = "idle" => req = NoRequest /\ changed = {}
  /\ req.step # "idle" => req.q \in Requests
  /\ req.step \in {"payouts", "refunds", "penalties"} => RowsSound(req.q, req.rows)
  /\ req.step \in {"refunds", "penalties"} => NoneHeld(req.rows) /\ MoreSound(req.q, req.more)
  /\ req.step = "answered" => AnswerSound(req.q, req.page, req.total)
HistoryIInv == TablesSound /\ ReqInv

\* What is under way sees time pass, and payouts change that are noted.
Follows ==
  /\ clock \in Nat /\ clock' \in Nat /\ clock <= clock' /\ changed \subseteq changed'
  /\ \A p \in HelperPayouts \ changed' : payout'[p] = payout[p] /\ (p \in unseen' <=> p \in unseen)
  /\ \A p \in HelperPayouts : IsMade(payout[p]) => IsMade(payout'[p])

LEMMA TruthKept ==
  ASSUME Follows, NEW x, RowSound(x), Truthful(x) PROVE RowSound(x)' /\ Truthful(x)'
<1>1. RowSound(x)'
  BY DEF Follows, RowSound
<1>2. ASSUME x.type = "payout", x.id \notin changed'
      PROVE  IsMade(payout'[x.id]) /\ x.status = payout'[x.id].status
  <2>1. x.id \in HelperPayouts \ changed' /\ x.id \notin changed
    BY <1>2 DEF RowSound, Follows
  <2> QED BY <1>2, <2>1 DEF Truthful, Follows
<1> QED BY <1>1, <1>2 DEF Truthful

LEMMA RowsStay ==
  ASSUME Follows, NEW q, NEW rows, RowsSound(q, rows) PROVE RowsSound(q, rows)'
BY TruthKept DEF RowsSound, OnSide, Single

LEMMA NoneHeldKept ==
  ASSUME Follows, NEW q, NEW rows, RowsSound(q, rows), NoneHeld(rows) PROVE NoneHeld(rows)'
<1> SUFFICES ASSUME NEW x \in rows, x.type = "payout", x.id \notin changed'
             PROVE  payout'[x.id].status # "held" /\ x.id \notin unseen'
  BY DEF NoneHeld
<1>1. x.id \in HelperPayouts \ changed' /\ x.id \notin changed
  BY DEF RowsSound, RowSound, Follows
<1> QED BY <1>1 DEF NoneHeld, Follows

\* Payouts are never unmade, so that one query takes all only if it took all.
LEMMA AllFetchedKept ==
  ASSUME Follows, NEW q \in Requests, AllFetched(q)' PROVE AllFetched(q)
<1> DEFINE now == {p \in HelperPayouts : IsMade(payout[p])}
           then == {p \in HelperPayouts : IsMade(payout'[p])}
<1>1. now \in SUBSET then
  BY DEF Follows
<1>2. then \in SUBSET HelperPayouts
  OBVIOUS
<1>3. Cardinality(then) <= fetchLimit(q)
  BY DEF AllFetched, fetchLimit
<1> HIDE DEF now, then
<1>4. IsFiniteSet(then)
  BY <1>2, FS_Subset, IdsApart
<1>5. Cardinality(now) <= Cardinality(then) /\ Cardinality(now) \in Nat /\ Cardinality(then) \in Nat
  BY <1>1, <1>4, FS_Subset, FS_CardinalityType
<1>6. Cardinality(now) <= fetchLimit(q)
  BY <1>3, <1>5, LimitIs
<1> QED BY <1>6 DEF AllFetched, now

LEMMA MoreKept ==
  ASSUME Follows, NEW q \in Requests, NEW more, MoreSound(q, more) PROVE MoreSound(q, more)'
<1>1. RowsSound(q, more)'
  BY RowsStay DEF MoreSound
<1>2. ASSUME Helped(q), AllFetched(q)', NEW p \in HelperPayouts \ changed',
             IsMade(payout'[p]), HasStatus(q, payout'[p].status)
      PROVE  \E x \in more : x.id = p
  <2>1. AllFetched(q)
    BY <1>2, AllFetchedKept
  <2>2. p \in HelperPayouts \ changed /\ payout'[p] = payout[p]
    BY <1>2 DEF Follows
  <2> QED BY <1>2, <2>1, <2>2 DEF MoreSound, HasPayouts
<1>3. HasPayouts(q, more)'
  BY <1>2 DEF HasPayouts, Helped, HasStatus
<1> QED BY <1>1, <1>3 DEF MoreSound

LEMMA AnswerKept ==
  ASSUME Follows, NEW q \in Requests, NEW page, NEW total, AnswerSound(q, page, total)
  PROVE  AnswerSound(q, page, total)'
<1>1. \A x \in page : x.amount >= 0 /\ x.date \in 1 .. clock'
  BY DEF AnswerSound, Follows
<1>2. \A p \in HelperPayouts \ changed' :
        IsMade(payout'[p]) /\ (payout'[p].status = "held" \/ p \in unseen') => \A x \in page : x.id # p
  BY DEF AnswerSound, Follows
<1>3. ASSUME Has(q, page) PROVE Has(q, page)'
  <2>1. ASSUME Helped(q), AllFetched(q)', NEW p \in HelperPayouts \ changed', Due(q, p)'
        PROVE  \E x \in page : x.id = p /\ x.type = "payout"
    <3>1. AllFetched(q)
      BY <2>1, AllFetchedKept
    <3>2. p \in HelperPayouts \ changed /\ Due(q, p)
      BY <2>1 DEF Follows, Due, HasStatus
    <3> QED BY <1>3, <2>1, <3>1, <3>2 DEF Has
  <2> QED BY <2>1 DEF Has, Helped
<1> QED BY <1>1, <1>2, <1>3 DEF AnswerSound, Single

LEMMA RequestUnderWay ==
  ASSUME ReqInv, Follows, req' = req, req.step # "idle" PROVE ReqInv'
<1>1. PICK q \in Requests : q = req.q
  BY DEF ReqInv
<1>2. PICK rows : rows = req.rows
  OBVIOUS
<1>3. PICK more : more = req.more
  OBVIOUS
<1>4. PICK page : page = req.page
  OBVIOUS
<1>5. PICK total : total = req.total
  OBVIOUS
<1>6. req.step \in {"payouts", "refunds", "penalties"} => RowsSound(q, rows) /\ RowsSound(q, rows)'
  BY <1>1, <1>2, RowsStay DEF ReqInv
<1>7. req.step \in {"refunds", "penalties"} => NoneHeld(rows)' /\ MoreSound(q, more)'
  BY <1>1, <1>2, <1>3, <1>6, NoneHeldKept, MoreKept DEF ReqInv
<1>8. req.step = "answered" => AnswerSound(q, page, total)'
  BY <1>1, <1>4, <1>5, AnswerKept DEF ReqInv
<1>9. q = req'.q /\ rows = req'.rows /\ more = req'.more /\ page = req'.page /\ total = req'.total
  BY <1>1, <1>2, <1>3, <1>4, <1>5
<1> QED BY <1>6, <1>7, <1>8, <1>9 DEF ReqInv

-----------------------------------------------------------------------------
(* Every step                                                              *)

\* What a change of the tables writes is noted.
Writing(ps) ==
  /\ clock' = clock + 1
  /\ \A p \in HelperPayouts \ ps : payout'[p] = payout[p] /\ (p \in unseen' <=> p \in unseen)
  /\ \A p \in HelperPayouts : IsMade(payout[p]) => IsMade(payout'[p])

LEMMA WritesNone ==
  ASSUME TablesSound, Tick, payout' = payout, unseen' = unseen PROVE Writing({})
BY DEF Writing, Tick

LEMMA WritesOne ==
  ASSUME TablesSound, Tick, NEW p \in HelperPayouts, NEW row, row # None,
         payout' = [payout EXCEPT ![p] = row] \/ payout' = payout,
         unseen' \in {unseen, unseen \cup {p}, unseen \ {p}}
  PROVE  Writing({p})
<1>1. \A f \in HelperPayouts \ {p} : payout'[f] = payout[f] /\ (f \in unseen' <=> f \in unseen)
  BY DEF TablesSound, PayoutSound
<1>2. \A f \in HelperPayouts : IsMade(payout[f]) => IsMade(payout'[f])
  BY DEF TablesSound, PayoutSound, IsMade
<1> QED BY <1>1, <1>2 DEF Writing, Tick

LEMMA TableWrites ==
  ASSUME TablesSound, TableStep
  PROVE  \E ids, ps : ps \subseteq ids /\ Notes(ids) /\ Writing(ps)
<1>1. CASE \E e \in Escrows : Order(e) \/ Capture(e) \/ Cancel(e)
  <2>1. PICK e \in Escrows : Order(e) \/ Capture(e) \/ Cancel(e)
    BY <1>1
  <2>2. Notes({e}) /\ Tick /\ payout' = payout /\ unseen' = unseen
    BY <2>1 DEF Order, Capture, Cancel
  <2> QED BY <2>2, WritesNone
<1>2. CASE \E r \in Refunds, e \in Escrows, fee \in {0, Fee} :
             RefundWhole(r, e, fee) \/ RefundLine(r, e, fee)
  <2>1. PICK r \in Refunds, e \in Escrows, fee \in {0, Fee} :
          RefundWhole(r, e, fee) \/ RefundLine(r, e, fee)
    BY <1>2
  <2>2. Notes({r, e}) /\ Tick /\ payout' = payout /\ unseen' = unseen
    BY <2>1 DEF RefundWhole, RefundLine
  <2> QED BY <2>2, WritesNone
<1>3. CASE \E r \in Refunds : RefundFails(r)
  <2>1. PICK r \in Refunds : RefundFails(r)
    BY <1>3
  <2>2. Notes({r}) /\ Tick /\ payout' = payout /\ unseen' = unseen
    BY <2>1 DEF RefundFails
  <2> QED BY <2>2, WritesNone
<1>4. CASE \E p \in HelperPayouts, s \in {"processing", "completed"} : Pay(p, s)
  <2>1. PICK p \in HelperPayouts, s \in {"processing", "completed"} : Pay(p, s)
    BY <1>4
  <2> DEFINE row == [status |-> s, at |-> clock', done |-> IF s = "completed" THEN clock' ELSE 0]
  <2>2. /\ Notes({p, EscrowOf[p], "penalty"}) /\ Tick /\ payout' = [payout EXCEPT ![p] = row]
        /\ unseen' \in {unseen, unseen \cup {p}, unseen \ {p}}
    BY <2>1 DEF Pay
  <2>3. row.status = s /\ s # "none"
    OBVIOUS
  <2> HIDE DEF row
  <2>4. row # None
    BY <2>3, NoneIs
  <2>5. Writing({p})
    BY <2>2, <2>4, WritesOne
  <2>6. {p} \subseteq {p, EscrowOf[p], "penalty"}
    OBVIOUS
  <2> QED BY <2>2, <2>5, <2>6
<1>5. CASE \E p \in HelperPayouts, s \in {"processing", "completed", "held"} : MovesPayout(p, s)
  <2>1. PICK p \in HelperPayouts, s \in {"processing", "completed", "held"} : MovesPayout(p, s)
    BY <1>5
  <2>2. PICK d : d = IF s = "completed" /\ payout[p].done = 0 THEN clock' ELSE payout[p].done
    OBVIOUS
  <2> DEFINE row == [payout[p] EXCEPT !.status = s, !.done = d]
  <2>3. /\ Notes({p}) /\ Tick /\ IsMade(payout[p]) /\ payout' = [payout EXCEPT ![p] = row]
        /\ unseen' \in {unseen, unseen \cup {p}, unseen \ {p}}
    BY <2>1, <2>2 DEF MovesPayout
  <2>4. payout[p] \in PayoutStates
    BY <2>3, PayoutTyped DEF TablesSound
  <2>5. row.status = s /\ s # "none"
    BY <2>4 DEF PayoutStates
  <2> HIDE DEF row
  <2>6. row # None
    BY <2>5, NoneIs
  <2>7. Writing({p})
    BY <2>3, <2>6, WritesOne
  <2> QED BY <2>3, <2>7
<1>6. CASE \E p \in HelperPayouts : BecomesVisible(p)
  <2>1. PICK p \in HelperPayouts : BecomesVisible(p)
    BY <1>6
  <2>2. Notes({p}) /\ Tick /\ payout' = payout /\ unseen' = unseen \ {p}
    BY <2>1 DEF BecomesVisible
  <2>3. PICK row : row # None
    <3> DEFINE some == [status |-> "held"]
    <3>1. some.status = "held"
      OBVIOUS
    <3> HIDE DEF some
    <3> QED BY <3>1, NoneIs
  <2>4. Writing({p})
    BY <2>2, <2>3, WritesOne
  <2> QED BY <2>2, <2>4
<1>7. CASE Penalize
  <2>1. Notes({"penalty"}) /\ Tick /\ payout' = payout /\ unseen' = unseen
    BY <1>7 DEF Penalize
  <2> QED BY <2>1, WritesNone
<1> QED BY <1>1, <1>2, <1>3, <1>4, <1>5, <1>6, <1>7 DEF TableStep

LEMMA TableStepKeeps == ASSUME TablesSound, ReqInv, TableStep PROVE ReqInv'
<1>1. PICK ids, ps : ps \subseteq ids /\ Notes(ids) /\ Writing(ps)
  BY TableWrites
<1>2. CASE req.step = "idle"
  <2>1. req = NoRequest /\ req' = NoRequest /\ changed' = {}
    BY <1>1, <1>2 DEF ReqInv, Notes
  <2> QED BY <2>1 DEF ReqInv, NoRequest
<1>3. CASE req.step # "idle"
  <2>1. req # NoRequest
    BY <1>3 DEF NoRequest
  <2>2. req' = req /\ changed' = changed \cup ids
    BY <1>1, <2>1 DEF Notes
  <2>3. Follows
    BY <1>1, <2>2 DEF Writing, Follows, TablesSound, ClockSound
  <2> QED BY <1>3, <2>2, <2>3, RequestUnderWay
<1> QED BY <1>2, <1>3

LEMMA RequestFollows ==
  ASSUME TablesSound, UNCHANGED historyTables, changed' = changed PROVE Follows
BY DEF Follows, historyTables, TablesSound, ClockSound

LEMMA Begins ==
  ASSUME TablesSound, ReqInv, NEW q \in Requests, BeginTransactions(q) PROVE ReqInv'
<1>1. PICK rows : rows = EscrowRows(q)
  OBVIOUS
<1>2. req = NoRequest /\ changed = {} /\ changed' = {} /\ UNCHANGED historyTables
  BY DEF BeginTransactions, ReqInv, NoRequest
<1>3. req' = [step |-> "payouts", q |-> q, rows |-> rows]
  BY <1>1 DEF BeginTransactions
<1>4. RowsSound(q, rows)
  BY <1>1, EscrowRowsSound
<1>5. RowsSound(q, rows)'
  BY <1>2, <1>4, RequestFollows, RowsStay
<1>6. req'.step = "payouts" /\ req'.q = q /\ req'.rows = rows
  BY <1>3
<1> QED BY <1>5, <1>6 DEF ReqInv

LEMMA ReadsPayouts ==
  ASSUME TablesSound, ReqInv, ReadPerformerPayouts PROVE ReqInv'
<1>1. PICK q \in Requests : q = req.q
  BY DEF ReadPerformerPayouts, ReqInv
<1>2. PICK old : old = req.rows
  OBVIOUS
<1>3. PICK rows : rows = Visible(old)
  OBVIOUS
<1>4. PICK more : more = PerformerPayoutRows(q)
  OBVIOUS
<1>5. req' = [step |-> "refunds", q |-> q, rows |-> rows, more |-> more]
  BY <1>1, <1>2, <1>3, <1>4 DEF ReadPerformerPayouts
<1>6. RowsSound(q, old)
  BY <1>1, <1>2 DEF ReqInv, ReadPerformerPayouts
<1>7. RowsSound(q, rows) /\ NoneHeld(rows)
  BY <1>3, <1>6, VisibleSound
<1>8. MoreSound(q, more)
  BY <1>4, PayoutRowsSound
<1>9. Follows
  BY RequestFollows DEF ReadPerformerPayouts
<1>10. RowsSound(q, rows)' /\ NoneHeld(rows)' /\ MoreSound(q, more)'
  BY <1>7, <1>8, <1>9, RowsStay, NoneHeldKept, MoreKept
<1>11. req'.step = "refunds" /\ req'.q = q /\ req'.rows = rows /\ req'.more = more
  BY <1>5
<1> QED BY <1>10, <1>11 DEF ReqInv

LEMMA ReadsRefunds ==
  ASSUME TablesSound, ReqInv, ReadPosterRefunds \/ SkipPosterRefunds PROVE ReqInv'
<1>1. PICK q \in Requests : q = req.q
  BY DEF ReadPosterRefunds, SkipPosterRefunds, ReqInv
<1>2. PICK old : old = req.rows
  OBVIOUS
<1>3. PICK more : more = req.more
  OBVIOUS
<1>4. PICK rows : /\ rows = old \cup PosterRefundRows(q, old) \/ rows = old
                  /\ req' = [step |-> "penalties", q |-> q, more |-> more, rows |-> rows]
  BY <1>1, <1>2, <1>3 DEF ReadPosterRefunds, SkipPosterRefunds
<1>5. RowsSound(q, old) /\ NoneHeld(old) /\ MoreSound(q, more)
  BY <1>1, <1>2, <1>3 DEF ReqInv, ReadPosterRefunds, SkipPosterRefunds
<1>6. RowsSound(q, rows) /\ NoneHeld(rows)
  BY <1>4, <1>5, RefundsAdded
<1>7. Follows
  BY RequestFollows DEF ReadPosterRefunds, SkipPosterRefunds
<1>8. RowsSound(q, rows)' /\ NoneHeld(rows)' /\ MoreSound(q, more)'
  BY <1>5, <1>6, <1>7, RowsStay, NoneHeldKept, MoreKept
<1>9. req'.step = "penalties" /\ req'.q = q /\ req'.rows = rows /\ req'.more = more
  BY <1>4
<1> QED BY <1>8, <1>9 DEF ReqInv

LEMMA AnswersSound ==
  ASSUME TablesSound, ReqInv, AnswerTransactions PROVE ReqInv'
<1>1. PICK q \in Requests : q = req.q
  BY DEF AnswerTransactions, ReqInv
<1>2. PICK rows : rows = req.rows
  OBVIOUS
<1>3. PICK more : more = req.more
  OBVIOUS
<1>4. PICK list : list = Kept(q, AllRows(q, rows, more))
  OBVIOUS
<1>5. PICK page : page = Page(q, list)
  OBVIOUS
<1>6. PICK total : total = Cardinality(list)
  OBVIOUS
<1>7. req' = [step |-> "answered", q |-> q, page |-> page, total |-> total]
  BY <1>1, <1>2, <1>3, <1>4, <1>5, <1>6 DEF AnswerTransactions, Kept, AllRows
<1>8. RowsSound(q, rows) /\ NoneHeld(rows) /\ MoreSound(q, more)
  BY <1>1, <1>2, <1>3 DEF ReqInv, AnswerTransactions
<1>9. AnswerSound(q, page, total)
  BY <1>4, <1>5, <1>6, <1>8, AnswerIsSound
<1>10. Follows
  BY RequestFollows DEF AnswerTransactions
<1>11. AnswerSound(q, page, total)'
  BY <1>9, <1>10, AnswerKept
<1>12. req'.step = "answered" /\ req'.q = q /\ req'.page = page /\ req'.total = total
  BY <1>7
<1> QED BY <1>11, <1>12 DEF ReqInv

LEMMA RequestSteps == ASSUME TablesSound, ReqInv, RequestStep PROVE ReqInv'
<1>1. CASE \E q \in Requests : BeginTransactions(q)
  BY <1>1, Begins
<1>2. CASE ReadPerformerPayouts
  BY <1>2, ReadsPayouts
<1>3. CASE ReadPosterRefunds \/ SkipPosterRefunds
  BY <1>3, ReadsRefunds
<1>4. CASE AnswerTransactions
  BY <1>4, AnswersSound
<1>5. CASE Received
  BY <1>5 DEF Received, ReqInv, NoRequest
<1> QED BY <1>1, <1>2, <1>3, <1>4, <1>5 DEF RequestStep

LEMMA HistoryHolds == HistorySpec => []HistoryIInv
<1>1. ASSUME HistoryInit PROVE HistoryIInv
  BY <1>1, TablesStart DEF HistoryIInv, ReqInv, HistoryInit, NoRequest
<1>2. ASSUME HistoryIInv, [HistoryNext]_historyVars PROVE HistoryIInv'
  <2>1. TablesSound'
    <3>1. CASE TableStep
      BY <1>2, <3>1, TableSteps DEF HistoryIInv
    <3>2. CASE RequestStep \/ UNCHANGED historyVars
      BY <1>2, <3>2, RequestsOnlyRead, TablesKept DEF HistoryIInv, historyVars, historyTables
    <3> QED BY <1>2, <3>1, <3>2, NextIs
  <2>2. ReqInv'
    <3>1. CASE TableStep
      BY <1>2, <3>1, TableStepKeeps DEF HistoryIInv
    <3>2. CASE RequestStep
      BY <1>2, <3>2, RequestSteps DEF HistoryIInv
    <3>3. CASE UNCHANGED historyVars
      <4>1. req' = req /\ UNCHANGED historyTables /\ changed' = changed
        BY <3>3 DEF historyVars, historyTables
      <4>2. Follows
        BY <1>2, <4>1, RequestFollows DEF HistoryIInv
      <4>3. CASE req.step = "idle"
        BY <1>2, <4>1, <4>3 DEF HistoryIInv, ReqInv
      <4>4. CASE req.step # "idle"
        BY <1>2, <4>1, <4>2, <4>4, RequestUnderWay DEF HistoryIInv
      <4> QED BY <4>3, <4>4
    <3> QED BY <1>2, <3>1, <3>2, <3>3, NextIs
  <2> QED BY <2>1, <2>2 DEF HistoryIInv
<1> QED BY <1>1, <1>2, PTL DEF HistorySpec

\* Every answer is a list of well-formed rows, none of them twice, whatever
\* moved between its queries (getTransactions).
THEOREM HistorySound == HistorySpec => []HistoryInv
<1>1. ASSUME HistoryIInv PROVE HistoryTypeOK
  <2>1. clock \in 0 .. MaxTime /\ owed \in 0 .. MaxTime /\ unseen \subseteq HelperPayouts
    BY <1>1, InputsTyped DEF HistoryIInv, TablesSound, ClockSound
  <2>2. \A e \in Escrows : IsMade(escrow[e]) =>
          escrow[e].status \in {"pending", "held", "released", "refunded", "cancelled"}
    BY <1>1 DEF HistoryIInv, TablesSound, EscrowSound, EscrowStates, IsMade
  <2>3. \A p \in HelperPayouts : IsMade(payout[p]) =>
          payout[p].status \in {"processing", "completed", "held"}
    BY <1>1 DEF HistoryIInv, TablesSound, PayoutSound, PayoutStates, IsMade
  <2>4. \A r \in Refunds : IsMade(refund[r]) =>
          refund[r].status \in {"completed", "failed"} /\ refund[r].amount >= 0
    BY <1>1 DEF HistoryIInv, TablesSound, RefundSound, RefundStates, IsMade
  <2>5. Answered => \A x \in req.page : x.amount >= 0 /\ x.date \in 1 .. clock
    BY <1>1 DEF HistoryIInv, ReqInv, AnswerSound, Answered
  <2> QED BY <2>1, <2>2, <2>3, <2>4, <2>5 DEF HistoryTypeOK
<1>2. ASSUME HistoryIInv PROVE NoRowTwice
  BY <1>2 DEF HistoryIInv, ReqInv, AnswerSound, Single, NoRowTwice, Answered
<1>3. ASSUME HistoryIInv PROVE HistoryInv
  BY <1>1, <1>2, <1>3 DEF HistoryInv
<1> QED BY <1>3, HistoryHolds, PTL

\* A helper's answer shows no payout that is held back, and has each other one
\* that is fit for the request, when the answer is one page of all payouts.
THEOREM HistoryShowsPayouts == HistorySpec => []PayoutsShown
<1>1. ASSUME HistoryIInv PROVE HeldBackNotShown
  BY <1>1 DEF HistoryIInv, ReqInv, AnswerSound, HeldBackNotShown, Answered
<1>2. ASSUME HistoryIInv PROVE PayoutsNotMissed
  <2> SUFFICES ASSUME Answered, req.q.user = "helper", req.q.type \in {"any", "payout"},
                      req.q.category \in {"all", "earnings"}, OnePage, AllFetched(req.q),
                      NEW p \in HelperPayouts \ changed, Due(req.q, p)
               PROVE  \E x \in req.page : x.id = p
    BY DEF PayoutsNotMissed, Due
  <2>1. Has(req.q, req.page)
    BY <1>2 DEF HistoryIInv, ReqInv, AnswerSound, OnePage, Answered
  <2> QED BY <2>1 DEF Has, Helped
<1>3. ASSUME HistoryIInv PROVE PayoutsShown
  BY <1>1, <1>2, <1>3 DEF PayoutsShown
<1> QED BY <1>3, HistoryHolds, PTL

-----------------------------------------------------------------------------
(* The summary                                                             *)

\* What is returned of a payment.  No refund is more than what it is of; a refund of
\* a whole payment leaves no other, and lines are refunded once each.
ReturnFits(r, e) ==
  /\ escrow[e].status \in SUCCESSFUL_ESCROW_PAYMENT_STATUSES
  /\ refund[r].amount <= IF refund[r].whole THEN EscrowAmount[e] ELSE LineAmount(e)
  /\ refund[r].whole =>
       /\ escrow[e].status = "refunded"
       /\ \A x \in RefundsOf(e) \ {r} : refund[x].status = "failed"
ReturnsFit == \A r \in Refunds : IsMade(refund[r]) => ReturnFits(r, refund[r].of)
LinesOnce == \A e \in Escrows : Cardinality(LineRefundsOf(e)) <= Lines[e]
ReturnInv == ReturnsFit /\ LinesOnce

\* A payment that has refunds moves on without them changing.
LEMMA ReturnsStay ==
  ASSUME ReturnInv, TablesSound, refund' = refund,
         \A e \in Escrows : \/ escrow'[e].status = escrow[e].status
                            \/ escrow[e].status \in {"none", "pending"}
                            \/ escrow[e].status = "held" /\ escrow'[e].status = "released"
  PROVE  ReturnInv'
<1>1. LinesOnce'
  BY DEF ReturnInv, LinesOnce, LineRefundsOf, RefundsOf
<1>2. ASSUME NEW r \in Refunds, NEW e \in Escrows, IsMade(refund[r]), refund[r].of = e
      PROVE  ReturnFits(r, e)'
  <2>1. ReturnFits(r, e)
    BY <1>2 DEF ReturnInv, ReturnsFit
  <2>2. escrow[e].status \in {"held", "released", "refunded"}
    BY <2>1 DEF ReturnFits, SUCCESSFUL_ESCROW_PAYMENT_STATUSES
  <2>3. /\ escrow'[e].status \in SUCCESSFUL_ESCROW_PAYMENT_STATUSES
        /\ escrow[e].status = "refunded" => escrow'[e].status = "refunded"
    BY <2>1, <2>2 DEF ReturnFits, SUCCESSFUL_ESCROW_PAYMENT_STATUSES
  <2>4. RefundsOf(e)' = RefundsOf(e) /\ LineAmount(e)' = LineAmount(e)
    BY DEF RefundsOf, LineAmount
  <2> QED BY <2>1, <2>3, <2>4 DEF ReturnFits
<1>3. ReturnsFit'
  <2>1. \A r \in Refunds : IsMade(refund[r]) => refund[r].of \in Escrows
    BY DEF TablesSound, RefundSound, IsMade, RefundStates
  <2> QED BY <1>2, <2>1 DEF ReturnsFit
<1> QED BY <1>1, <1>3 DEF ReturnInv

\* A refund is made.
LEMMA ReturnsMade ==
  ASSUME ReturnInv, TablesSound, TablesSound', NEW r \in Refunds, NEW e \in Escrows,
         NEW whole \in BOOLEAN, NEW fee \in {0, Fee},
         refund[r] = None, escrow[e].status = "held",
         refund' = [refund EXCEPT ![r] = RefundRow(e, whole, fee)],
         \A f \in Escrows \ {e} : escrow'[f] = escrow[f],
         escrow'[e].status \in {"held", "refunded"},
         whole => /\ escrow'[e].status = "refunded"
                  /\ \A x \in RefundsOf(e) : refund[x].status = "failed",
         ~whole => Cardinality(LineRefundsOf(e)) < Lines[e]
  PROVE  ReturnInv'
<1>1. /\ refund'[r] = RefundRow(e, whole, fee)
      /\ \A x \in Refunds \ {r} : refund'[x] = refund[x]
  BY DEF TablesSound, RefundSound
<1>2. IsMade(refund'[r]) /\ refund'[r].of = e /\ refund'[r].whole = whole
  <2>1. refund'[r].status = "completed" /\ refund'[r].of = e /\ refund'[r].whole = whole
    BY <1>1 DEF RefundRow
  <2> QED BY <2>1, NoneIs DEF IsMade
<1>3. ~IsMade(refund[r])
  BY DEF IsMade
<1>4. ASSUME NEW f PROVE RefundsOf(f)' = IF f = e THEN RefundsOf(f) \cup {r} ELSE RefundsOf(f)
  <2>1. \A x \in Refunds \ {r} :
          IsMade(refund'[x]) /\ refund'[x].of = f <=> IsMade(refund[x]) /\ refund[x].of = f
    BY <1>1
  <2>2. r \in RefundsOf(f)' <=> f = e
    BY <1>2 DEF RefundsOf
  <2>3. r \notin RefundsOf(f)
    BY <1>3 DEF RefundsOf
  <2> QED BY <2>1, <2>2, <2>3 DEF RefundsOf
<1>5. LinesOnce'
  <2> SUFFICES ASSUME NEW f \in Escrows PROVE Cardinality(LineRefundsOf(f)') <= Lines[f]
    BY DEF LinesOnce
  <2>1. LineRefundsOf(f)' =
          IF f = e /\ ~whole THEN LineRefundsOf(f) \cup {r} ELSE LineRefundsOf(f)
    <3>1. r \notin RefundsOf(f)
      BY <1>3 DEF RefundsOf
    <3> QED BY <1>1, <1>2, <1>4, <3>1 DEF LineRefundsOf, RefundsOf
  <2>2. CASE f = e /\ ~whole
    <3>1. r \notin LineRefundsOf(f)
      BY <1>3 DEF LineRefundsOf, RefundsOf
    <3>2. IsFiniteSet(LineRefundsOf(f))
      <4>1. LineRefundsOf(f) \in SUBSET Refunds
        BY DEF LineRefundsOf, RefundsOf
      <4> QED BY <4>1, IdsApart, FS_Subset
    <3>3. Cardinality(LineRefundsOf(f)') = Cardinality(LineRefundsOf(f)) + 1
      BY <2>1, <2>2, <3>1, <3>2, FS_AddElement
    <3> QED BY <2>2, <3>3, LinesCounted, InputsTyped
  <2>3. CASE ~(f = e /\ ~whole)
    BY <2>1, <2>3 DEF ReturnInv, LinesOnce
  <2> QED BY <2>2, <2>3
<1>6. refund'[r].amount <= IF whole THEN EscrowAmount[e] ELSE LineAmount(e)
  <2>1. fee \in Nat /\ EscrowAmount[e] \in Nat /\ Lines[e] \in Nat
    BY InputsTyped
  <2>2. LineAmount(e) \in Int
    <3>1. CASE Lines[e] = 0
      BY <2>1, <3>1 DEF LineAmount
    <3>2. CASE Lines[e] # 0
      BY <2>1, <3>2 DEF LineAmount
    <3> QED BY <3>1, <3>2
  <2>3. refund'[r].amount = (IF whole THEN EscrowAmount[e] ELSE LineAmount(e)) - fee
    BY <1>1 DEF RefundRow
  <2> QED BY <2>1, <2>2, <2>3
<1>7. \A x \in RefundsOf(e) : ~refund[x].whole
  BY DEF ReturnInv, ReturnsFit, ReturnFits, RefundsOf
<1>8. \A f : LineAmount(f)' = LineAmount(f)
  BY DEF LineAmount
<1>9. ASSUME NEW x \in Refunds \ {r}, NEW f \in Escrows, IsMade(refund[x]), refund[x].of = f
      PROVE  ReturnFits(x, f)'
  <2>1. refund'[x] = refund[x] /\ ReturnFits(x, f)
    BY <1>1, <1>9 DEF ReturnInv, ReturnsFit
  <2>2. CASE f = e
    <3>1. ~refund[x].whole
      BY <1>7, <1>9, <2>2 DEF RefundsOf
    <3>2. escrow'[f].status \in SUCCESSFUL_ESCROW_PAYMENT_STATUSES
      BY <2>2 DEF SUCCESSFUL_ESCROW_PAYMENT_STATUSES
    <3> QED BY <1>8, <2>1, <3>1, <3>2 DEF ReturnFits
  <2>3. CASE f # e
    <3>1. escrow'[f] = escrow[f] /\ RefundsOf(f)' = RefundsOf(f)
      BY <1>4, <2>3
    <3>2. \A y \in RefundsOf(f) : y \in Refunds \ {r}
      BY <1>3 DEF RefundsOf
    <3>3. \A y \in RefundsOf(f) : refund'[y] = refund[y]
      BY <1>1, <3>2
    <3> QED BY <1>8, <2>1, <3>1, <3>3 DEF ReturnFits
  <2> QED BY <2>2, <2>3
<1>10. ReturnFits(r, e)'
  <2>1. \A y \in RefundsOf(e)' \ {r} : y \in RefundsOf(e) /\ y \in Refunds \ {r}
    BY <1>4 DEF RefundsOf
  <2>2. \A y \in RefundsOf(e)' \ {r} : y \in RefundsOf(e) /\ refund'[y] = refund[y]
    BY <1>1, <2>1
  <2>3. escrow'[e].status \in SUCCESSFUL_ESCROW_PAYMENT_STATUSES
    BY DEF SUCCESSFUL_ESCROW_PAYMENT_STATUSES
  <2>4. whole => \A y \in RefundsOf(e)' \ {r} : refund'[y].status = "failed"
    BY <2>2
  <2> QED BY <1>2, <1>6, <1>8, <2>3, <2>4 DEF ReturnFits
<1>11. ReturnsFit'
  <2>1. ASSUME NEW x \in Refunds, IsMade(refund'[x]), NEW f, f = refund'[x].of PROVE ReturnFits(x, f)'
    <3>1. CASE x = r
      BY <1>2, <1>10, <2>1, <3>1
    <3>2. CASE x # r
      <4>1. x \in Refunds \ {r} /\ refund'[x] = refund[x]
        BY <1>1, <3>2
      <4>2. IsMade(refund[x]) /\ refund[x].of = f /\ f \in Escrows
        BY <2>1, <4>1 DEF TablesSound, RefundSound, IsMade, RefundStates
      <4> QED BY <1>9, <4>1, <4>2
    <3> QED BY <3>1, <3>2
  <2> QED BY <2>1 DEF ReturnsFit, ReturnFits
<1> QED BY <1>5, <1>11 DEF ReturnInv

LEMMA ReturnsFail ==
  ASSUME ReturnInv, TablesSound, NEW r \in Refunds, RefundFails(r) PROVE ReturnInv'
<1>1. refund[r] \in RefundStates /\ IsMade(refund[r])
  BY RefundTyped DEF RefundFails, TablesSound
<1>2. /\ refund'[r].status = "failed" /\ refund'[r].of = refund[r].of
      /\ refund'[r].whole = refund[r].whole /\ refund'[r].amount = refund[r].amount
      /\ \A x \in Refunds \ {r} : refund'[x] = refund[x]
      /\ escrow' = escrow
  BY <1>1 DEF RefundFails, TablesSound, RefundSound, RefundStates
<1>3. IsMade(refund'[r])
  BY <1>2, NoneIs DEF IsMade
<1>4. \A x \in Refunds : /\ IsMade(refund'[x]) <=> IsMade(refund[x])
                         /\ refund'[x].of = refund[x].of /\ refund'[x].whole = refund[x].whole
                         /\ refund'[x].amount = refund[x].amount
                         /\ refund[x].status = "failed" => refund'[x].status = "failed"
  BY <1>1, <1>2, <1>3
<1>5. \A e : RefundsOf(e)' = RefundsOf(e) /\ LineRefundsOf(e)' = LineRefundsOf(e)
             /\ LineAmount(e)' = LineAmount(e)
  BY <1>4 DEF RefundsOf, LineRefundsOf, LineAmount
<1>6. \A e : RefundsOf(e) \subseteq Refunds
  BY DEF RefundsOf
<1>7. ReturnsFit'
  BY <1>2, <1>4, <1>5, <1>6 DEF ReturnInv, ReturnsFit, ReturnFits
<1>8. LinesOnce'
  BY <1>5 DEF ReturnInv, LinesOnce
<1> QED BY <1>7, <1>8 DEF ReturnInv

LEMMA ReturnSteps ==
  ASSUME ReturnInv, TablesSound, TablesSound', TableStep PROVE ReturnInv'
<1>1. CASE \E e \in Escrows : Order(e) \/ Capture(e) \/ Cancel(e)
  <2>1. PICK e \in Escrows : Order(e) \/ Capture(e) \/ Cancel(e)
    BY <1>1
  <2>2. escrow[e].status \in {"none", "pending"} /\ refund' = refund
    BY <2>1, NoneIs DEF Order, Capture, Cancel
  <2>3. \A f \in Escrows \ {e} : escrow'[f] = escrow[f]
    BY <2>1 DEF Order, Capture, Cancel, TablesSound, EscrowSound
  <2> QED BY <2>2, <2>3, ReturnsStay
<1>2. CASE \E r \in Refunds, e \in Escrows, fee \in {0, Fee} : RefundWhole(r, e, fee)
  <2>1. PICK r \in Refunds, e \in Escrows, fee \in {0, Fee} : RefundWhole(r, e, fee)
    BY <1>2
  <2>2. /\ refund[r] = None /\ escrow[e].status = "held"
        /\ refund' = [refund EXCEPT ![r] = RefundRow(e, TRUE, fee)]
        /\ escrow' = [escrow EXCEPT ![e].status = "refunded"]
        /\ \A x \in RefundsOf(e) : refund[x].status = "failed"
    BY <2>1 DEF RefundWhole
  <2>3. escrow[e] \in EscrowStates
    BY <2>2, EscrowTyped DEF TablesSound
  <2>4. \A f \in Escrows \ {e} : escrow'[f] = escrow[f]
    BY <2>2 DEF TablesSound, EscrowSound
  <2>5. escrow'[e].status = "refunded"
    BY <2>2, <2>3 DEF TablesSound, EscrowSound, EscrowStates
  <2> QED BY <2>2, <2>4, <2>5, ReturnsMade
<1>3. CASE \E r \in Refunds, e \in Escrows, fee \in {0, Fee} : RefundLine(r, e, fee)
  <2>1. PICK r \in Refunds, e \in Escrows, fee \in {0, Fee} : RefundLine(r, e, fee)
    BY <1>3
  <2>2. /\ refund[r] = None /\ escrow[e].status = "held"
        /\ refund' = [refund EXCEPT ![r] = RefundRow(e, FALSE, fee)]
        /\ escrow' \in {escrow, [escrow EXCEPT ![e].status = "refunded"]}
        /\ Cardinality(LineRefundsOf(e)) < Lines[e]
    BY <2>1 DEF RefundLine
  <2>3. escrow[e] \in EscrowStates
    BY <2>2, EscrowTyped DEF TablesSound
  <2>4. \A f \in Escrows \ {e} : escrow'[f] = escrow[f]
    BY <2>2 DEF TablesSound, EscrowSound
  <2>5. escrow'[e].status \in {"held", "refunded"}
    BY <2>2, <2>3 DEF TablesSound, EscrowSound, EscrowStates
  <2> QED BY <2>2, <2>4, <2>5, ReturnsMade
<1>4. CASE \E r \in Refunds : RefundFails(r)
  BY <1>4, ReturnsFail
<1>5. CASE \E p \in HelperPayouts, s \in {"processing", "completed"} : Pay(p, s)
  <2>1. PICK p \in HelperPayouts, s \in {"processing", "completed"} : Pay(p, s)
    BY <1>5
  <2>2. refund' = refund
    BY <2>1 DEF Pay
  <2>3. PICK e : e = EscrowOf[p]
    OBVIOUS
  <2>4. CASE e = "none"
    <3>1. escrow' = escrow
      BY <2>1, <2>3, <2>4 DEF Pay
    <3> QED BY <2>2, <3>1, ReturnsStay
  <2>5. CASE e # "none"
    <3>1. e \in Escrows
      BY <2>3, <2>5, InputsTyped
    <3>2. escrow[e].status = "held" /\ escrow' = [escrow EXCEPT ![e].status = "released"]
      BY <2>1, <2>3, <2>5 DEF Pay
    <3>3. escrow[e] \in EscrowStates
      BY <3>1, <3>2, EscrowTyped DEF TablesSound
    <3>4. \A f \in Escrows \ {e} : escrow'[f] = escrow[f]
      BY <3>2 DEF TablesSound, EscrowSound
    <3>5. escrow'[e].status = "released"
      BY <3>1, <3>2, <3>3 DEF TablesSound, EscrowSound, EscrowStates
    <3> QED BY <2>2, <3>2, <3>4, <3>5, ReturnsStay
  <2> QED BY <2>4, <2>5
<1>6. CASE \E p \in HelperPayouts, s \in {"processing", "completed", "held"} : MovesPayout(p, s)
  <2>1. escrow' = escrow /\ refund' = refund
    BY <1>6 DEF MovesPayout
  <2> QED BY <2>1, ReturnsStay
<1>7. CASE (\E p \in HelperPayouts : BecomesVisible(p)) \/ Penalize
  <2>1. escrow' = escrow /\ refund' = refund
    BY <1>7 DEF BecomesVisible, Penalize
  <2> QED BY <2>1, ReturnsStay
<1> QED BY <1>1, <1>2, <1>3, <1>4, <1>5, <1>6, <1>7 DEF TableStep

\* No refund at first, and none by looking.
LEMMA ReturnsStart == ASSUME HistoryInit PROVE ReturnInv
<1>1. \A r \in Refunds : ~IsMade(refund[r])
  BY DEF HistoryInit, IsMade
<1>2. \A e \in Escrows : LineRefundsOf(e) = {}
  BY <1>1 DEF LineRefundsOf, RefundsOf
<1>3. \A e \in Escrows : Cardinality(LineRefundsOf(e)) <= Lines[e]
  <2> SUFFICES ASSUME NEW e \in Escrows PROVE Cardinality(LineRefundsOf(e)) <= Lines[e]
    OBVIOUS
  <2>1. LineRefundsOf(e) = {}
    BY <1>2
  <2>2. Lines[e] \in Nat
    BY InputsTyped
  <2>3. Cardinality(LineRefundsOf(e)) = 0
    BY <2>1, FS_EmptySet, Zenon
  <2> QED BY <2>2, <2>3
<1> QED BY <1>1, <1>3 DEF ReturnInv, ReturnsFit, LinesOnce

LEMMA ReturnsKept == ASSUME ReturnInv, UNCHANGED historyTables PROVE ReturnInv'
<1>1. refund' = refund /\ escrow' = escrow
  BY DEF historyTables
<1> QED BY <1>1 DEF ReturnInv, ReturnsFit, ReturnFits, LinesOnce, LineRefundsOf, RefundsOf, LineAmount

AmountOf == [r \in Refunds |-> refund[r].amount]

LEMMA SumAmountIs ==
  ASSUME NEW S \in SUBSET Refunds PROVE SumAmount(S) = SumOver(AmountOf, S)
<1> DEFINE f == [r \in S |-> refund[r].amount]
<1>1. IsFiniteSet(S) /\ DOMAIN f = S
  BY IdsApart, FS_Subset
<1>2. SumFunction(f) = SumOver(f, S)
  BY <1>1, FunctionSum
<1>3. SumOver(f, S) = SumOver(AmountOf, S)
  <2>1. \A r \in S : f[r] = AmountOf[r]
    BY DEF AmountOf
  <2> HIDE DEF f
  <2> QED BY <1>1, <2>1, SumSame
<1> QED BY <1>2, <1>3 DEF SumAmount

\* The completed refunds of an escrow.
ReturnedOf(e) == {r \in CompletedRefunds : refund[r].of = e}

LEMMA CompletedIs ==
  ASSUME TablesSound, NEW r \in CompletedRefunds
  PROVE  /\ r \in Refunds /\ IsMade(refund[r]) /\ refund[r] \in RefundStates
         /\ refund[r].of \in Escrows /\ AmountOf[r] \in Nat /\ AmountOf[r] = refund[r].amount
         /\ refund[r].fee \in Nat
<1>1. r \in Refunds /\ refund[r].status = "completed"
  BY DEF CompletedRefunds
<1>2. IsMade(refund[r]) /\ refund[r] \in RefundStates
  BY <1>1, RefundTyped DEF TablesSound
<1> QED BY <1>1, <1>2 DEF RefundStates, AmountOf

\* Lines are parts of their payment.
LEMMA LinesWithin ==
  ASSUME NEW e \in Escrows, Lines[e] > 0, NEW n \in Nat, n <= Lines[e]
  PROVE  LineAmount(e) \in Nat /\ LineAmount(e) * n <= EscrowAmount[e]
<1> DEFINE a == EscrowAmount[e]
           k == Lines[e]
           d == a \div k
<1>1. a \in Nat /\ k \in Nat /\ k > 0
  BY InputsTyped
<1> HIDE DEF a, k
<1>2. d \in Nat /\ d * k <= a
  BY <1>1
<1>3. LineAmount(e) = d
  BY DEF LineAmount, a, k
<1>4. \A b \in Nat : b * n <= b * k
  BY <1>1 DEF k
<1> HIDE DEF d
<1>5. d * n <= d * k /\ d * n \in Nat /\ d * k \in Nat
  BY <1>1, <1>2, <1>4
<1> QED BY <1>1, <1>2, <1>3, <1>5 DEF a

LEMMA ReturnedWithin ==
  ASSUME TablesSound, ReturnInv, NEW e \in Escrows
  PROVE  /\ SumOver(AmountOf, ReturnedOf(e)) \in Nat
         /\ SumOver(AmountOf, ReturnedOf(e)) <= EscrowAmount[e]
<1>1. ReturnedOf(e) \in SUBSET Refunds /\ IsFiniteSet(ReturnedOf(e))
  <2>1. ReturnedOf(e) \in SUBSET Refunds
    BY DEF ReturnedOf, CompletedRefunds
  <2> QED BY <2>1, IdsApart, FS_Subset
<1>2. \A r \in ReturnedOf(e) : /\ IsMade(refund[r]) /\ refund[r].of = e /\ r \in RefundsOf(e)
                               /\ AmountOf[r] \in Nat /\ AmountOf[r] = refund[r].amount
                               /\ refund[r].status = "completed" /\ refund[r].whole \in BOOLEAN
  BY CompletedIs DEF ReturnedOf, RefundsOf, CompletedRefunds, RefundStates
<1>3. \A r \in ReturnedOf(e) : ReturnFits(r, e)
  BY <1>1, <1>2 DEF ReturnInv, ReturnsFit
<1>4. SumOver(AmountOf, ReturnedOf(e)) \in Nat
  BY <1>1, <1>2, SumNat
<1>5. EscrowAmount[e] \in Nat /\ Lines[e] \in Nat
  BY InputsTyped
<1>6. CASE \E r \in ReturnedOf(e) : refund[r].whole
  <2>1. PICK r \in ReturnedOf(e) : refund[r].whole
    BY <1>6
  <2>2. \A x \in ReturnedOf(e) \ {r} : FALSE
    BY <1>2, <1>3, <2>1 DEF ReturnFits
  <2>3. AmountOf[r] <= EscrowAmount[e] /\ AmountOf[r] \in Int
    BY <1>2, <1>3, <2>1 DEF ReturnFits
  <2>4. SumOver(AmountOf, ReturnedOf(e)) = AmountOf[r]
    BY <1>1, <2>1, <2>2, <2>3, SumOne
  <2> QED BY <1>4, <2>3, <2>4
<1>7. CASE \A r \in ReturnedOf(e) : ~refund[r].whole
  <2> DEFINE C == ReturnedOf(e)
  <2>1. C \in SUBSET LineRefundsOf(e) /\ IsFiniteSet(LineRefundsOf(e))
    <3>1. LineRefundsOf(e) \in SUBSET Refunds
      BY DEF LineRefundsOf, RefundsOf
    <3>2. C \in SUBSET LineRefundsOf(e)
      BY <1>2, <1>7 DEF LineRefundsOf
    <3> QED BY <3>1, <3>2, IdsApart, FS_Subset
  <2>2. Cardinality(C) <= Cardinality(LineRefundsOf(e)) /\ Cardinality(C) \in Nat
    <3> HIDE DEF C
    <3> QED BY <2>1, FS_Subset, FS_CardinalityType
  <2>3. Cardinality(LineRefundsOf(e)) <= Lines[e] /\ Cardinality(LineRefundsOf(e)) \in Nat
    BY LinesCounted DEF ReturnInv, LinesOnce
  <2>4. PICK n \in Nat : n = Cardinality(C) /\ n <= Lines[e]
    <3> HIDE DEF C
    <3> QED BY <1>5, <2>2, <2>3
  <2>5. CASE n = 0
    <3>1. C = {}
      <4> HIDE DEF C
      <4> QED BY <1>1, <2>4, <2>5, FS_EmptySet DEF C
    <3>2. SumOver(AmountOf, C) = 0
      <4> HIDE DEF C
      <4> QED BY <3>1, SumEmpty
    <3> QED BY <1>5, <3>2, <1>4
  <2>6. CASE n # 0
    <3>1. LineAmount(e) \in Nat /\ LineAmount(e) * n <= EscrowAmount[e]
      BY <1>5, <2>4, <2>6, LinesWithin
    <3>2. PICK a \in Nat : a = LineAmount(e)
      BY <3>1
    <3>3. \A r \in C : AmountOf[r] \in Int /\ AmountOf[r] <= a
      BY <1>2, <1>3, <1>7, <3>2 DEF ReturnFits
    <3>4. SumOver(AmountOf, C) <= a * n
      <4> HIDE DEF C
      <4> QED BY <1>1, <2>4, <3>3, SumBounded DEF C
    <3>5. a * n <= EscrowAmount[e] /\ a * n \in Nat
      BY <3>1, <3>2
    <3> QED BY <1>4, <1>5, <3>4, <3>5
  <2> QED BY <2>5, <2>6
<1> QED BY <1>4, <1>6, <1>7

\* Adding up rows, one for each of some things, adds up the things.
LEMMA RowsAddUp ==
  ASSUME NEW T, IsFiniteSet(T), NEW g, \A z \in T : g[z] \in Int,
         NEW v, \A x \in DOMAIN v : x.id \in T /\ v[x] = g[x.id],
         Single(DOMAIN v), \A z \in T : \E x \in DOMAIN v : x.id = z
  PROVE  SumFunction(v) = SumOver(g, T)
<1> DEFINE rows == DOMAIN v
           h == [x \in rows |-> x.id]
<1>1. h \in Injection(rows, T)
  BY DEF Injection, IsInjective, Single
<1>2. /\ \A x \in rows : h[x] \in T /\ g[h[x]] = v[x] /\ v[x] \in Int
      /\ \A x, y \in rows : h[x] = h[y] => x = y
      /\ \A z \in T : \E x \in rows : h[x] = z
  BY DEF Single
<1> HIDE DEF h
<1>3. IsFiniteSet(rows)
  <2> HIDE DEF rows
  <2> QED BY <1>1, FS_Injection
<1>4. SumFunction(v) = SumOver(v, rows)
  BY <1>3, FunctionSum
<1>5. SumOver(v, rows) = SumOver(g, T)
  <2> HIDE DEF rows
  <2>1. \A x \in rows : v[x] \in Int
    BY <1>2
  <2>2. \A x \in rows : h[x] \in T /\ g[h[x]] = v[x]
    BY <1>2
  <2>3. \A x, y \in rows : h[x] = h[y] => x = y
    BY <1>2
  <2>4. \A z \in T : \E x \in rows : h[x] = z
    BY <1>2
  <2> QED BY <1>3, <2>1, <2>2, <2>3, <2>4, SumNamed
<1> QED BY <1>4, <1>5

-----------------------------------------------------------------------------
(* Lists of everything                                                     *)

LEMMA FullIs ==
  ASSUME NEW user
  PROVE  /\ FullRequest(user).user = user /\ FullRequest(user).offset = 0
         /\ FullRequest(user).status = "any"
         /\ fetchLimit(FullRequest(user)) = 120
         /\ \A types : Wants(FullRequest(user), types)
         /\ \A s : HasStatus(FullRequest(user), s)
BY DEF FullRequest, fetchLimit, Wants, HasStatus

MadeEscrows == {e \in Escrows : IsMade(escrow[e])}

LEMMA AllListed ==
  ASSUME TablesSound, ListsAll, NEW user \in {"poster", "helper"}
  PROVE  /\ Fetched(FullRequest(user)) = MadeEscrows
         /\ Newest(Made, payout, 0, 120) = Made
<1> DEFINE q == FullRequest(user)
<1>1. fetchLimit(q) = 120 /\ q.offset = 0 /\ \A s : HasStatus(q, s)
  BY FullIs
<1>2. Matching(q) = MadeEscrows
  BY <1>1 DEF Matching, MadeEscrows
<1>3. Cardinality(MadeEscrows) <= 120 /\ Cardinality(Made) <= 120
  <2>1. AllFetched(q) /\ Cardinality(Matching(q)) <= fetchLimit(q)
    BY DEF ListsAll
  <2> HIDE DEF q
  <2> QED BY <1>1, <1>2, <2>1 DEF AllFetched, Made
<1>4. IsFiniteSet(MadeEscrows) /\ IsFiniteSet(Made)
  <2>1. MadeEscrows \in SUBSET Escrows /\ Made \in SUBSET HelperPayouts
    BY DEF MadeEscrows, Made
  <2> QED BY <2>1, IdsApart, FS_Subset
<1>5. \A e \in MadeEscrows : escrow[e].at \in Nat
  BY DEF MadeEscrows, TablesSound, EscrowSound
<1>6. \A p \in Made : payout[p].at \in Nat
  BY DEF Made, TablesSound, PayoutSound
<1>7. Newest(MadeEscrows, escrow, 0, 120) = MadeEscrows
  BY <1>3, <1>4, <1>5, NewestAll
<1>8. Newest(Made, payout, 0, 120) = Made
  BY <1>3, <1>4, <1>6, NewestAll
<1> HIDE DEF q
<1>9. Fetched(q) = MadeEscrows
  BY <1>1, <1>2, <1>7 DEF Fetched
<1> QED BY <1>8, <1>9 DEF q

-----------------------------------------------------------------------------
(* What a poster is listed                                                 *)

PaymentRow(e) == PosterPaymentRow(FullRequest("poster"), e)
Alone(r) == IsMade(refund[r]) /\ shouldEmitPosterRefundAsStandalone(r)
PosterRows ==
  {PaymentRow(e) : e \in Paid} \cup {RefundRowFor(r, "escrow") : r \in {x \in Refunds : Alone(x)}}

LEMMA RefundMade ==
  ASSUME TablesSound, ReturnInv, NEW r \in Refunds, IsMade(refund[r])
  PROVE  refund[r].of \in Paid /\ refund[r].of \in MadeEscrows
<1>1. refund[r].of \in Escrows
  BY DEF TablesSound, RefundSound, RefundStates, IsMade
<1>2. escrow[refund[r].of].status \in SUCCESSFUL_ESCROW_PAYMENT_STATUSES
  BY DEF ReturnInv, ReturnsFit, ReturnFits
<1>3. IsMade(escrow[refund[r].of])
  BY <1>2, NoneIs DEF SUCCESSFUL_ESCROW_PAYMENT_STATUSES, IsMade
<1> QED BY <1>1, <1>2, <1>3 DEF Paid, MadeEscrows

LEMMA PosterListed ==
  ASSUME TablesSound, ReturnInv, ListsAll
  PROVE  FullList("poster") = dedupePosterEscrowPaymentRows(PosterRows)
<1> DEFINE q == FullRequest("poster")
           rows == EscrowRows(q)
<1>1. /\ q.user = "poster" /\ q.status = "any" /\ Fetched(q) = MadeEscrows
      /\ \A s : HasStatus(q, s)
      /\ \A types : Wants(q, types)
  BY FullIs, AllListed
<1>2. Paid = {e \in MadeEscrows : escrow[e].status \in SUCCESSFUL_ESCROW_PAYMENT_STATUSES}
  BY NoneIs DEF Paid, MadeEscrows, SUCCESSFUL_ESCROW_PAYMENT_STATUSES, IsMade
<1>3. rows = PosterRows
  <2>1. {e \in MadeEscrows : q.status # "any" \/ escrow[e].status \in SUCCESSFUL_ESCROW_PAYMENT_STATUSES}
          = Paid
    BY <1>1, <1>2
  <2>2. \A x \in Refunds :
          IsMade(refund[x]) /\ refund[x].of \in MadeEscrows <=> IsMade(refund[x])
    BY RefundMade
  <2> HIDE DEF q
  <2>3. rows = {PosterPaymentRow(q, e) : e \in Paid}
                 \cup {RefundRowFor(r, "escrow") : r \in {x \in Refunds : Alone(x)}}
    BY <1>1, <2>1, <2>2 DEF EscrowRows, Alone
  <2> QED BY <2>3 DEF PosterRows, PaymentRow, q
<1>4. Visible(rows) = PosterRows
  <2>1. \A x \in PosterRows : x.type # "payout"
    BY DEF PosterRows, PaymentRow, PosterPaymentRow, RefundRowFor
  <2> QED BY <1>3, <2>1 DEF Visible
<1>5. PosterRefundRows(q, PosterRows) = {}
  <2> SUFFICES ASSUME NEW x \in PosterRefundRows(q, PosterRows) PROVE FALSE
    OBVIOUS
  <2> HIDE DEF q
  <2>1. PICK r \in Refunds : /\ Alone(r)
                             /\ \A row \in PosterRows : row.type = "refund" => row.id # r
    BY <1>1 DEF PosterRefundRows, Newest, Alone
  <2>2. RefundRowFor(r, "escrow") \in PosterRows
    BY <2>1 DEF PosterRows
  <2>3. RefundRowFor(r, "escrow").type = "refund" /\ RefundRowFor(r, "escrow").id = r
    BY DEF RefundRowFor
  <2> QED BY <2>1, <2>2, <2>3
<1>6. \A all : GapFill(all, PerformerPayoutRows(q)) = {}
  <2> HIDE DEF q
  <2> QED BY <1>1 DEF GapFill, Visible, PerformerPayoutRows
<1> HIDE DEF q
<1>7. \A all : all = PosterRows => 
        dedupePosterEscrowPaymentRows((all \cup PosterRefundRows(q, all))
           \cup GapFill(all \cup PosterRefundRows(q, all), PerformerPayoutRows(q)))
          = dedupePosterEscrowPaymentRows(PosterRows)
  BY <1>5, <1>6
<1> QED BY <1>4, <1>7 DEF FullList, q

LEMMA PaymentRowFields ==
  ASSUME NEW e
  PROVE  /\ PaymentRow(e).id = e /\ PaymentRow(e).type = "escrow"
         /\ PaymentRow(e).amount = EscrowAmount[e]
         /\ PaymentRow(e).refunded = RefundedAmount(FullRequest("poster"), e)
         /\ PaymentRow(e).status = escrow[e].status
         /\ PaymentRow(e).date = IF escrow[e].paid > 0 THEN escrow[e].paid ELSE escrow[e].at
<1> DEFINE back == RefundedAmount(FullRequest("poster"), e)
<1>1. PaymentRow(e) = [id |-> e, type |-> "escrow", status |-> escrow[e].status,
        category |-> "payments", amount |-> EscrowAmount[e], refunded |-> back, via |-> "escrow",
        date |-> IF escrow[e].paid > 0 THEN escrow[e].paid ELSE escrow[e].at]
  BY DEF PaymentRow, PosterPaymentRow
<1> HIDE DEF back
<1>2. PaymentRow(e).refunded = back
  BY <1>1
<1> QED BY <1>1, <1>2 DEF back

\* What a payment shows as returned.
LEMMA ShownReturned ==
  ASSUME TablesSound, NEW e \in Escrows
  PROVE  RefundedAmount(FullRequest("poster"), e) = SumOver(AmountOf, ReturnedOf(e))
<1>1. {r \in RefundsOf(e) : refund[r].status = "completed" /\ HasStatus(FullRequest("poster"), "completed")}
        = ReturnedOf(e)
  <2>1. HasStatus(FullRequest("poster"), "completed")
    BY FullIs
  <2> QED BY <2>1, CompletedIs DEF RefundsOf, ReturnedOf, CompletedRefunds
<1>2. ReturnedOf(e) \in SUBSET Refunds
  BY DEF ReturnedOf, CompletedRefunds
<1> QED BY <1>1, <1>2, SumAmountIs DEF RefundedAmount

\* A payment is listed when its task has no other.
LEMMA PaymentKept ==
  ASSUME TablesSound, ReturnInv, ListsAll, NEW e \in Paid,
         \A f \in Paid : Task[f] = Task[e] => f = e
  PROVE  PaymentRow(e) \in FullList("poster")
<1>1. PaymentRow(e) \in PosterRows
  BY DEF PosterRows
<1>2. e \in Escrows /\ escrow[e].status # "none"
  BY DEF Paid, SUCCESSFUL_ESCROW_PAYMENT_STATUSES
<1>3. escrow[e].at \in Int /\ escrow[e].paid \in Int
  BY <1>2, EscrowTyped DEF TablesSound, EscrowStates
<1>4. ~Precedes(PaymentRow(e), PaymentRow(e))
  <2>1. PICK rank : rank = rankStatus(PaymentRow(e).status)
    OBVIOUS
  <2>2. PICK date : date = PaymentRow(e).date
    OBVIOUS
  <2>3. rank \in Int
    BY <2>1 DEF rankStatus
  <2>4. date \in Int
    BY <1>3, <2>2, PaymentRowFields
  <2> QED BY <2>1, <2>2, <2>3, <2>4 DEF Precedes
<1>5. ASSUME NEW y \in PosterRows, y.type = "escrow", Task[y.id] = Task[PaymentRow(e).id]
      PROVE  y = PaymentRow(e)
  <2>1. PICK f \in Paid : y = PaymentRow(f)
    <3>1. \A r : RefundRowFor(r, "escrow").type # "escrow"
      BY DEF RefundRowFor
    <3> QED BY <1>5, <3>1 DEF PosterRows
  <2>2. f = e
    BY <1>5, <2>1, PaymentRowFields
  <2> QED BY <2>1, <2>2
<1>6. PaymentRow(e) \in dedupePosterEscrowPaymentRows(PosterRows)
  BY <1>1, <1>4, <1>5 DEF dedupePosterEscrowPaymentRows
<1> QED BY <1>6, PosterListed

\* What the poster is listed, and what of it.
LEMMA PosterListIs ==
  ASSUME TablesSound, ReturnInv, ListsAll
  PROVE  /\ \A x \in FullList("poster") : x.type = "escrow" => \E e \in Paid : x = PaymentRow(e)
         /\ \A r \in Refunds : Alone(r) =>
              \E x \in FullList("poster") : x.type = "refund" /\ x.id = r
<1>1. \A x \in PosterRows : x.type = "escrow" => \E e \in Paid : x = PaymentRow(e)
  <2>1. \A r : RefundRowFor(r, "escrow").type # "escrow"
    BY DEF RefundRowFor
  <2> QED BY <2>1 DEF PosterRows
<1>2. FullList("poster") \subseteq PosterRows
  BY PosterListed DEF dedupePosterEscrowPaymentRows
<1>3. ASSUME NEW r \in Refunds, Alone(r)
      PROVE  \E x \in FullList("poster") : x.type = "refund" /\ x.id = r
  <2>1. PICK x : x = RefundRowFor(r, "escrow")
    OBVIOUS
  <2>2. x \in PosterRows
    BY <1>3, <2>1 DEF PosterRows
  <2>3. x.type = "refund" /\ x.id = r
    BY <2>1 DEF RefundRowFor
  <2>4. x \in dedupePosterEscrowPaymentRows(PosterRows)
    BY <2>2, <2>3 DEF dedupePosterEscrowPaymentRows
  <2> QED BY <2>3, <2>4, PosterListed
<1> QED BY <1>1, <1>2, <1>3

-----------------------------------------------------------------------------
(* Completed refunds are seen                                              *)

LEMMA RefundsAreVisible == ASSUME TablesSound, ReturnInv PROVE RefundsVisible
<1> DEFINE poster == FullList("poster")
           alone == {x.id : x \in {y \in poster : y.type = "refund"}}
           Rest(e) == {r \in CompletedRefunds \ alone : refund[r].of = e}
<1>1. ASSUME ListsAll, NEW e \in Escrows, Rest(e) # {}
      PROVE  \E x \in poster : x.type = "escrow" /\ x.id = e /\ x.refunded >= SumAmount(Rest(e))
  <2>1. PICK r \in CompletedRefunds : r \notin alone /\ refund[r].of = e
    BY <1>1
  <2>2. r \in Refunds /\ IsMade(refund[r])
    BY <2>1, CompletedIs
  <2>3. ~Alone(r)
    <3>1. ASSUME Alone(r) PROVE FALSE
      <4>1. \E x \in poster : x.type = "refund" /\ x.id = r
        BY <1>1, <2>2, <3>1, PosterListIs
      <4> HIDE DEF poster
      <4> QED BY <2>1, <4>1
    <3> QED BY <3>1
  <2>4. isLineItem(r) /\ Lines[e] > 0
    BY <2>1, <2>2, <2>3 DEF Alone, shouldEmitPosterRefundAsStandalone, isLineItem
  <2>5. e \in Paid
    BY <2>1, <2>2, RefundMade
  <2>6. PaymentRow(e) \in poster
    <3>1. \A f \in Paid : Task[f] = Task[e] => f = e
      BY <1>1, <2>4, BookingsAlone DEF Paid
    <3> QED BY <1>1, <2>5, <3>1, PaymentKept
  <2>7. PaymentRow(e).refunded = SumOver(AmountOf, ReturnedOf(e))
    BY <1>1, PaymentRowFields, ShownReturned
  <2>8. SumAmount(Rest(e)) = SumOver(AmountOf, Rest(e))
    <3>1. Rest(e) \in SUBSET Refunds
      BY DEF CompletedRefunds
    <3> HIDE DEF Rest
    <3> QED BY <3>1, SumAmountIs
  <2>9. Rest(e) \in SUBSET ReturnedOf(e)
    BY DEF ReturnedOf
  <2>10. IsFiniteSet(ReturnedOf(e)) /\ \A x \in ReturnedOf(e) : AmountOf[x] \in Nat
    <3>1. ReturnedOf(e) \in SUBSET Refunds
      BY DEF ReturnedOf, CompletedRefunds
    <3> QED BY <3>1, IdsApart, FS_Subset, CompletedIs DEF ReturnedOf
  <2> HIDE DEF Rest, poster
  <2>11. SumOver(AmountOf, Rest(e)) <= SumOver(AmountOf, ReturnedOf(e))
    BY <2>9, <2>10, SumPart
  <2>12. SumOver(AmountOf, Rest(e)) \in Nat /\ SumOver(AmountOf, ReturnedOf(e)) \in Nat
    <3>1. IsFiniteSet(Rest(e)) /\ \A x \in Rest(e) : AmountOf[x] \in Nat
      BY <2>9, <2>10, FS_Subset
    <3> QED BY <2>10, <3>1, SumNat
  <2>13. PaymentRow(e).refunded >= SumAmount(Rest(e))
    BY <2>7, <2>8, <2>11, <2>12
  <2> QED BY <2>6, <2>13, PaymentRowFields
<1> QED BY <1>1 DEF RefundsVisible

\* What the poster paid, got back and spent.
LEMMA PosterTotals ==
  ASSUME TablesSound, ReturnInv, ListsAll, OnePaymentPerTask,
         NEW payments, payments = {x \in FullList("poster") : x.type = "escrow"}
  PROVE  /\ totalPayments = Total(payments)
         /\ totalRefunds = SumFunction([x \in payments |-> x.refunded])
         /\ totalSpent = totalPayments - totalRefunds
<1> DEFINE Returned == [e \in Paid |-> SumOver(AmountOf, ReturnedOf(e))]
<1>1. Paid \in SUBSET Escrows /\ IsFiniteSet(Paid) /\ \A e \in Paid : EscrowAmount[e] \in Nat
  <2>1. Paid \in SUBSET Escrows
    BY DEF Paid
  <2> QED BY <2>1, IdsApart, FS_Subset, InputsTyped
<1>2. /\ \A x \in payments : \E e \in Paid : x = PaymentRow(e)
      /\ \A e \in Paid : PaymentRow(e) \in payments
  <2>1. \A e \in Paid : PaymentRow(e) \in FullList("poster")
    BY PaymentKept DEF OnePaymentPerTask
  <2> QED BY <2>1, PosterListIs, PaymentRowFields
<1>3. Single(payments) /\ \A e \in Paid : \E x \in payments : x.id = e
  BY <1>2, PaymentRowFields DEF Single
<1>4. totalPayments = SumOver(EscrowAmount, Paid)
  <2> DEFINE v == [e \in Paid |-> EscrowAmount[e]]
  <2>1. {e \in Paid : \A f \in Paid : Task[f] = Task[e] => escrow[f].at <= escrow[e].at} = Paid
    <3>1. \A e \in Paid : escrow[e].at \in Int
      BY <1>1, EscrowTyped DEF Paid, TablesSound, EscrowStates, SUCCESSFUL_ESCROW_PAYMENT_STATUSES
    <3> QED BY <3>1 DEF OnePaymentPerTask
  <2>2. totalPayments = SumFunction(v)
    BY <2>1 DEF totalPayments
  <2>3. DOMAIN v = Paid /\ \A e \in Paid : v[e] = EscrowAmount[e]
    OBVIOUS
  <2> HIDE DEF v
  <2>4. SumFunction(v) = SumOver(v, Paid)
    BY <1>1, <2>3, FunctionSum
  <2>5. SumOver(v, Paid) = SumOver(EscrowAmount, Paid)
    BY <1>1, <2>3, SumSame
  <2> QED BY <2>2, <2>4, <2>5
<1>5. Total(payments) = SumOver(EscrowAmount, Paid)
  <2> DEFINE v == [x \in payments |-> x.amount]
  <2>1. DOMAIN v = payments /\ \A x \in payments : x.id \in Paid /\ v[x] = EscrowAmount[x.id]
    BY <1>2, PaymentRowFields
  <2>2. \A e \in Paid : EscrowAmount[e] \in Int
    BY <1>1
  <2> HIDE DEF v
  <2>3. SumFunction(v) = SumOver(EscrowAmount, Paid)
    BY <1>1, <1>3, <2>1, <2>2, RowsAddUp
  <2> QED BY <2>3 DEF Total, v
<1>6. \A e \in Paid : Returned[e] \in Nat /\ Returned[e] \in Int /\ Returned[e] <= EscrowAmount[e]
  BY <1>1, ReturnedWithin
<1>7. SumFunction([x \in payments |-> x.refunded]) = SumOver(Returned, Paid)
  <2> DEFINE v == [x \in payments |-> x.refunded]
  <2>1. DOMAIN v = payments /\ \A x \in payments : x.id \in Paid /\ v[x] = Returned[x.id]
    BY <1>1, <1>2, PaymentRowFields, ShownReturned
  <2> HIDE DEF v, Returned
  <2>2. SumFunction(v) = SumOver(Returned, Paid)
    BY <1>1, <1>3, <1>6, <2>1, RowsAddUp
  <2> QED BY <2>2 DEF v
<1>8. totalRefunds = SumOver(Returned, Paid)
  <2> DEFINE of == [r \in CompletedRefunds |-> refund[r].of]
  <2>1. CompletedRefunds \in SUBSET Refunds /\ IsFiniteSet(CompletedRefunds)
    <3>1. CompletedRefunds \in SUBSET Refunds
      BY DEF CompletedRefunds
    <3> QED BY <3>1, IdsApart, FS_Subset
  <2>2. \A r \in CompletedRefunds : AmountOf[r] \in Int /\ of[r] \in Paid
    BY CompletedIs, RefundMade
  <2>3. Returned = [e \in Paid |-> SumOver(AmountOf, {r \in CompletedRefunds : of[r] = e})]
    <3>1. \A e : {r \in CompletedRefunds : of[r] = e} = ReturnedOf(e)
      BY DEF ReturnedOf
    <3> QED BY <3>1
  <2>4. totalRefunds = SumOver(AmountOf, CompletedRefunds)
    BY <2>1, SumAmountIs DEF totalRefunds
  <2> HIDE DEF of, Returned
  <2>5. SumOver(AmountOf, CompletedRefunds)
          = SumOver([e \in Paid |-> SumOver(AmountOf, {r \in CompletedRefunds : of[r] = e})], Paid)
    BY <1>1, <2>1, <2>2, SumGroups
  <2> QED BY <2>3, <2>4, <2>5
<1>9. totalSpent = totalPayments - totalRefunds
  <2> HIDE DEF Returned
  <2>1. SumOver(Returned, Paid) <= SumOver(EscrowAmount, Paid)
    BY <1>1, <1>6, SumLeq
  <2>2. SumOver(Returned, Paid) \in Int /\ SumOver(EscrowAmount, Paid) \in Int
    BY <1>1, <1>6, SumInt
  <2>3. totalRefunds <= totalPayments /\ totalRefunds \in Int /\ totalPayments \in Int
    BY <1>4, <1>8, <2>1, <2>2
  <2> QED BY <2>3 DEF totalSpent
<1> QED BY <1>4, <1>5, <1>7, <1>8, <1>9

-----------------------------------------------------------------------------
(* What a helper is listed                                                 *)

\* Payouts found through their escrow, compensations, and the payouts on their own.
HelperRows ==
  {PayoutRow(p, DoneOr(p), "escrow") : p \in {x \in Made : EscrowOf[x] \in MadeEscrows}}
    \cup {CompensationRow(r) : r \in {x \in Refunds : IsMade(refund[x]) /\ refund[x].fee > 0}}
MoreRows == {PayoutRow(p, payout[p].at, "payouts") : p \in Made}

LEMMA HelperRowFields ==
  /\ \A p, date, via :
       LET x == PayoutRow(p, date, via)
       IN x.id = p /\ x.type = "payout" /\ x.status = payout[p].status /\ x.amount = 1
  /\ \A r : LET x == CompensationRow(r)
            IN /\ x.id = r /\ x.type = "compensation" /\ x.status = refund[r].status
               /\ x.amount = refund[r].fee
BY DEF PayoutRow, CompensationRow

LEMMA HelperListed ==
  ASSUME TablesSound, ReturnInv, ListsAll
  PROVE  FullList("helper") = Visible(HelperRows) \cup GapFill(Visible(HelperRows), MoreRows)
<1> DEFINE q == FullRequest("helper")
<1>1. /\ q.user = "helper" /\ Fetched(q) = MadeEscrows /\ fetchLimit(q) = 120
      /\ \A s : HasStatus(q, s)
      /\ \A types : Wants(q, types)
  BY FullIs, AllListed
<1>2. EscrowRows(q) = HelperRows
  <2>1. \A x \in Refunds :
          IsMade(refund[x]) /\ refund[x].of \in MadeEscrows <=> IsMade(refund[x])
    BY RefundMade
  <2>2. "helper" # "poster"
    OBVIOUS
  <2> HIDE DEF q
  <2> QED BY <1>1, <2>1, <2>2 DEF EscrowRows, HelperRows, Made
<1>3. PerformerPayoutRows(q) = MoreRows
  <2>1. {x \in HelperPayouts : IsMade(payout[x]) /\ HasStatus(q, payout[x].status)} = Made
    BY <1>1 DEF Made
  <2>2. Newest(Made, payout, 0, fetchLimit(q)) = Made
    BY <1>1, AllListed
  <2>3. q.user # "poster" /\ Wants(q, {"payout"})
    BY <1>1
  <2> HIDE DEF q
  <2> QED BY <2>1, <2>2, <2>3 DEF PerformerPayoutRows, MoreRows
<1>4. \A rows : PosterRefundRows(q, rows) = {}
  <2> HIDE DEF q
  <2> QED BY <1>1 DEF PosterRefundRows
<1>5. \A x \in HelperRows \cup MoreRows : x.type # "escrow"
  BY HelperRowFields DEF HelperRows, MoreRows
<1>6. \A rows : (\A x \in rows : x.type # "escrow") => dedupePosterEscrowPaymentRows(rows) = rows
  BY DEF dedupePosterEscrowPaymentRows
<1> HIDE DEF q
<1> DEFINE rows == Visible(HelperRows)
<1>7. FullList("helper") = dedupePosterEscrowPaymentRows(rows \cup GapFill(rows, MoreRows))
  BY <1>2, <1>3, <1>4 DEF FullList, q
<1>8. rows \subseteq HelperRows /\ GapFill(rows, MoreRows) \subseteq MoreRows
  BY DEF Visible, GapFill
<1> HIDE DEF rows
<1>9. FullList("helper") = rows \cup GapFill(rows, MoreRows)
  BY <1>5, <1>6, <1>7, <1>8
<1> QED BY <1>9 DEF rows

\* Each payout that may be shown has one row, each fee one.
LEMMA HelperListIs ==
  ASSUME TablesSound, ReturnInv, ListsAll
  PROVE  /\ \A x \in FullList("helper") : x.type = "payout" =>
              x.id \in Made /\ x.status = payout[x.id].status /\ x.amount = 1 /\ x.id \notin unseen
         /\ \A x, y \in FullList("helper") :
              x.type = "payout" /\ y.type = "payout" /\ x.id = y.id => x = y
         /\ \A p \in Made : payout[p].status # "held" /\ p \notin unseen =>
              \E x \in FullList("helper") : x.type = "payout" /\ x.id = p
         /\ \A x : x \in FullList("helper") /\ x.type = "compensation" <=>
                     \E r \in Refunds : /\ IsMade(refund[r]) /\ refund[r].fee > 0
                                        /\ x = CompensationRow(r)
<1> DEFINE rows == Visible(HelperRows)
           more == GapFill(rows, MoreRows)
<1>1. FullList("helper") = rows \cup more
  BY HelperListed
<1>2. \A x \in rows : x \in HelperRows /\ (x.type = "payout" => x.status # "held" /\ x.id \notin unseen)
  BY DEF Visible
<1>3. \A x \in more : /\ x \in MoreRows /\ (x.type = "payout" => x.id \notin unseen)
                      /\ \A row \in rows : row.type = "payout" => row.id # x.id
  BY DEF GapFill, Visible
<1>4. \A x \in HelperRows : x.type = "payout" => x.id \in Made /\ x = PayoutRow(x.id, DoneOr(x.id), "escrow")
  BY HelperRowFields DEF HelperRows
<1>5. \A x \in MoreRows : x.type = "payout" /\ x.id \in Made /\ x = PayoutRow(x.id, payout[x.id].at, "payouts")
  BY HelperRowFields DEF MoreRows
<1>6. ASSUME NEW p \in Made, payout[p].status # "held", p \notin unseen
      PROVE  \E x \in rows \cup more : x.type = "payout" /\ x.id = p
  <2>1. PICK x : x = PayoutRow(p, payout[p].at, "payouts")
    OBVIOUS
  <2>2. x.type = "payout" /\ x.id = p /\ x \in MoreRows /\ x.status # "held"
    BY <1>6, <2>1, HelperRowFields DEF MoreRows
  <2>3. x \in Visible(MoreRows)
    BY <1>6, <2>2 DEF Visible
  <2>4. x \in more \/ \E row \in rows : row.type = "payout" /\ row.id = p
    BY <2>2, <2>3 DEF GapFill
  <2> QED BY <2>2, <2>4
<1>7. ASSUME NEW r \in Refunds, IsMade(refund[r]), refund[r].fee > 0 PROVE CompensationRow(r) \in rows
  <2>1. CompensationRow(r) \in HelperRows
    BY <1>7 DEF HelperRows
  <2> QED BY <2>1, HelperRowFields DEF Visible
<1>8. \A x \in HelperRows : x.type = "compensation" =>
        \E r \in Refunds : IsMade(refund[r]) /\ refund[r].fee > 0 /\ x = CompensationRow(r)
  BY HelperRowFields DEF HelperRows
<1> HIDE DEF rows, more
<1>9. \A x \in rows \cup more : x.type = "payout" =>
        x.id \in Made /\ x.status = payout[x.id].status /\ x.amount = 1 /\ x.id \notin unseen
  BY <1>2, <1>3, <1>4, <1>5, HelperRowFields
<1>10. \A x, y \in rows \cup more : x.type = "payout" /\ y.type = "payout" /\ x.id = y.id => x = y
  BY <1>2, <1>3, <1>4, <1>5
<1>11. ASSUME NEW x
       PROVE  x \in rows \cup more /\ x.type = "compensation" <=>
                \E r \in Refunds : IsMade(refund[r]) /\ refund[r].fee > 0 /\ x = CompensationRow(r)
  BY <1>2, <1>3, <1>5, <1>7, <1>8, HelperRowFields
<1> QED BY <1>1, <1>6, <1>9, <1>10, <1>11

\* What the helper was paid, and kept from cancellations.
LEMMA HelperTotals ==
  ASSUME TablesSound, ReturnInv, ListsAll
  PROVE  /\ totalPayouts = Total(CompletedOf(FullList("helper"), "payout"))
         /\ totalCompensation = Total(CompletedOf(FullList("helper"), "compensation"))
<1> DEFINE helper == FullList("helper")
<1>1. totalPayouts = Total(CompletedOf(helper, "payout"))
  <2> DEFINE rows == CompletedOf(helper, "payout")
             paid == {p \in HelperPayouts :
                        payout[p].status \in SUCCESSFUL_PAYOUT_STATUSES /\ p \notin unseen}
             one == [p \in paid |-> 1]
             v == [x \in rows |-> x.amount]
  <2>1. IsFiniteSet(paid)
    <3>1. paid \in SUBSET HelperPayouts
      OBVIOUS
    <3> QED BY <3>1, IdsApart, FS_Subset
  <2>2. \A p : p \in paid <=> p \in Made /\ payout[p].status = "completed" /\ p \notin unseen
    <3>1. \A p \in HelperPayouts : payout[p] \in PayoutStates \cup {None}
      BY DEF TablesSound, PayoutSound
    <3> QED BY <3>1, NoneIs DEF Made, IsMade, SUCCESSFUL_PAYOUT_STATUSES, PayoutStates
  <2> HIDE DEF paid
  <2>3. /\ DOMAIN v = rows /\ \A x \in rows : x.id \in paid /\ v[x] = one[x.id]
        /\ Single(rows) /\ \A p \in paid : \E x \in rows : x.id = p
    <3> HIDE DEF helper
    <3>1. \A x : x \in rows <=> x \in helper /\ x.type = "payout" /\ x.status = "completed"
      BY DEF CompletedOf
    <3>2. \A x \in rows : x.id \in paid /\ x.amount = 1
      BY <2>2, <3>1, HelperListIs DEF helper
    <3>3. Single(rows)
      BY <3>1, HelperListIs DEF helper, Single
    <3>4. ASSUME NEW p \in paid PROVE \E x \in rows : x.id = p
      <4>1. PICK x \in helper : x.type = "payout" /\ x.id = p
        BY <2>2, HelperListIs DEF helper
      <4>2. x.status = "completed"
        BY <2>2, <4>1, HelperListIs DEF helper
      <4> QED BY <3>1, <4>1, <4>2
    <3> HIDE DEF rows
    <3> QED BY <3>2, <3>3, <3>4
  <2>4. \A p \in paid : one[p] = 1 /\ one[p] \in Int
    OBVIOUS
  <2>5. totalPayouts = Cardinality(paid)
    BY DEF totalPayouts, paid
  <2>6. Total(rows) = SumFunction(v)
    BY DEF Total
  <2> HIDE DEF one, v, rows
  <2>7. SumFunction(v) = SumOver(one, paid)
    BY <2>1, <2>3, <2>4, RowsAddUp
  <2>8. SumOver(one, paid) = Cardinality(paid)
    BY <2>1, <2>4, SumOnes
  <2> QED BY <2>5, <2>6, <2>7, <2>8 DEF rows
<1>2. totalCompensation = Total(CompletedOf(helper, "compensation"))
  <2> DEFINE rows == CompletedOf(helper, "compensation")
             charged == {r \in CompletedRefunds : refund[r].fee > 0}
             fee == [r \in CompletedRefunds |-> refund[r].fee]
             v == [x \in rows |-> x.amount]
  <2>1. IsFiniteSet(CompletedRefunds) /\ IsFiniteSet(charged) /\ charged \in SUBSET CompletedRefunds
    <3>1. CompletedRefunds \in SUBSET Refunds /\ charged \in SUBSET CompletedRefunds
      BY DEF CompletedRefunds
    <3> QED BY <3>1, IdsApart, FS_Subset
  <2>2. /\ \A r \in CompletedRefunds : fee[r] \in Int
        /\ \A r \in CompletedRefunds \ charged : fee[r] = 0
    BY CompletedIs
  <2>3. \A x : x \in rows <=> \E r \in charged : x = CompensationRow(r)
    <3>1. \A r : r \in charged <=> /\ r \in Refunds /\ IsMade(refund[r]) /\ refund[r].fee > 0
                                /\ refund[r].status = "completed"
      BY CompletedIs DEF CompletedRefunds
    <3> HIDE DEF helper, charged
    <3>2. \A x : x \in rows <=> x \in helper /\ x.type = "compensation" /\ x.status = "completed"
      BY DEF CompletedOf
    <3>3. \A x : x \in helper /\ x.type = "compensation" <=>
                   \E r \in Refunds : /\ IsMade(refund[r]) /\ refund[r].fee > 0
                                      /\ x = CompensationRow(r)
      BY HelperListIs DEF helper
    <3> HIDE DEF rows
    <3> QED BY <3>1, <3>2, <3>3, HelperRowFields
  <2>4. /\ DOMAIN v = rows /\ \A x \in rows : x.id \in charged /\ v[x] = fee[x.id]
        /\ Single(rows) /\ \A r \in charged : \E x \in rows : x.id = r
    <3> HIDE DEF rows
    <3>1. \A x \in rows : \E r \in charged : x = CompensationRow(r)
      BY <2>3
    <3>2. \A x \in rows : x.id \in charged /\ x = CompensationRow(x.id)
      BY <3>1, HelperRowFields
    <3>3. \A x \in rows : v[x] = fee[x.id]
      BY <2>1, <3>2, HelperRowFields
    <3>4. \A r \in charged : CompensationRow(r) \in rows /\ CompensationRow(r).id = r
      BY <2>3, HelperRowFields
    <3>5. Single(rows)
      BY <3>2 DEF Single
    <3> QED BY <3>2, <3>3, <3>4, <3>5
  <2>5. totalCompensation = SumFunction(fee) /\ DOMAIN fee = CompletedRefunds
    BY DEF totalCompensation
  <2>6. Total(rows) = SumFunction(v)
    BY DEF Total
  <2> HIDE DEF fee, v, rows, charged
  <2>7. SumFunction(fee) = SumOver(fee, CompletedRefunds)
    BY <2>1, <2>5, FunctionSum
  <2>8. SumOver(fee, CompletedRefunds) = SumOver(fee, charged)
    BY <2>1, <2>2, SumWhere
  <2>9. \A r \in charged : fee[r] \in Int
    BY <2>1, <2>2
  <2>10. SumFunction(v) = SumOver(fee, charged)
    BY <2>1, <2>4, <2>9, RowsAddUp
  <2> QED BY <2>5, <2>6, <2>7, <2>8, <2>10 DEF rows
<1> QED BY <1>1, <1>2

-----------------------------------------------------------------------------
(* The two agree                                                           *)

\* The totals are those of the list, and what was returned shows in it (getSummary
\* beside getTransactions).
THEOREM HistorySummaryAgrees == HistorySpec => []SummaryAgrees
<1>1. ASSUME HistoryInit PROVE ReturnInv
  BY <1>1, ReturnsStart
<1>2. ASSUME ReturnInv, HistoryIInv, HistoryIInv', [HistoryNext]_historyVars PROVE ReturnInv'
  <2>1. CASE TableStep
    BY <1>2, <2>1, ReturnSteps DEF HistoryIInv
  <2>2. CASE RequestStep \/ UNCHANGED historyVars
    BY <1>2, <2>2, RequestsOnlyRead, ReturnsKept DEF historyVars, historyTables
  <2> QED BY <1>2, <2>1, <2>2, NextIs
<1>3. ASSUME ReturnInv, HistoryIInv PROVE SummaryAgrees
  <2>1. TotalsMatchList
    BY <1>3, PosterTotals, HelperTotals DEF HistoryIInv, TotalsMatchList
  <2> QED BY <1>3, <2>1, RefundsAreVisible DEF HistoryIInv, SummaryAgrees
<1> QED BY <1>1, <1>2, <1>3, HistoryHolds, PTL DEF HistorySpec

=============================================================================
