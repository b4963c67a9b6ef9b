--------------------------- MODULE CoinWallet_proofs ---------------------------
(***************************************************************************)
(* A lot of the wallet is never short of coins, however requests overlap,  *)
(* and requests that do not overlap keep the lots exact and redeem no key  *)
(* twice; the balance is what the wallet's rows add up to, whatever        *)
(* overlaps: for any number of lots, coins, bookings, payouts, requests.   *)
(*                                                                         *)
(*   LotsNeverLost  Spec => []LotsCovered                                  *)
(*   WalletAgrees   Spec => []AgreeUnlessOverlap                           *)
(*   WalletRight    Spec => []WalletInv                                    *)
(***************************************************************************)
EXTENDS CoinWallet, FiniteSums, TLAPS

-----------------------------------------------------------------------------
(* The inductive invariant                                                 *)

\* What a request slot holds is a record with these fields.
Shape(r) ==
    r = [op |-> r.op, step |-> r.step, key |-> r.key, amount |-> r.amount,
         rows |-> r.rows, take |-> r.take]
Shaped ==
    /\ req = [h \in Handlers |-> req[h]]
    /\ \A h \in Handlers : Shape(req[h])

\* The rows: what is granted, remains and was charged, a lot not issued is empty.
\* The rows, without the balance and what is promised.
Rows == <<granted, remaining, charged, redeemed>>
RowsInv ==
    /\ granted \in [Lots -> Nat]
    /\ remaining \in [Lots -> Nat]
    /\ charged \in [Lots -> Nat]
    /\ redeemed \in [Keys -> Nat]
    /\ \A l \in Lots : granted[l] = 0 => remaining[l] = 0 /\ charged[l] = 0

\* Which steps belong to which operation, and what its key and amount are.
PathInv(r) ==
    /\ r.step \in Steps
    /\ r.op \in Operations
    /\ r.step \in {"sweep.read", "sweep.write"} => r.op # "grant"
    /\ r.step \in {"wallet", "lots", "commit"} => r.op \in {"redeem", "preview"}
    /\ r.step = "commit" => r.op = "redeem"
    /\ r.step \in {"grant.find", "grant.write"} => r.op \in {"award", "grant"}
    /\ r.op \in {"award", "grant"} => r.key \in Lots /\ r.amount \in Nat
    /\ r.op = "redeem" => r.key \in Keys

\* What a request read of the lots it is about to write may be old, but never
\* more than was granted, nor less than the rows that name the lot now leave.
ReadInv(r) ==
    r.step \in {"sweep.write", "commit"} =>
        /\ r.rows \in [Lots -> Nat]
        /\ \A l \in Lots : r.rows[l] > 0 =>
              /\ granted[l] > 0
              /\ r.rows[l] <= granted[l]
              /\ granted[l] <= r.rows[l] + charged[l]
TakeInv(r) ==
    r.step = "commit" =>
        /\ r.take \in [Lots -> Nat]
        /\ \A l \in Lots : r.take[l] <= r.rows[l]

\* Without overlaps what a request read is what the lots still hold, and the
\* key it redeems has no row yet.
FreshInv(r) ==
    /\ r.step \in {"sweep.write", "commit"} =>
          \A l \in Lots : r.rows[l] > 0 => r.rows[l] = remaining[l]
    /\ r.step # "idle" /\ r.op = "redeem" => redeemed[r.key] = 0

Right(h) == PathInv(req[h]) /\ ReadInv(req[h]) /\ TakeInv(req[h])

AnyInv ==
    /\ Shaped
    /\ RowsInv
    /\ LotsCovered
    /\ \A h \in Handlers : Right(h)

OneBusy == \A g, h \in Handlers : Busy(g) /\ Busy(h) => g = h
Exact ==
    /\ \A l \in Lots : remaining[l] + charged[l] = granted[l]
    /\ \A k \in Keys : redeemed[k] <= 1
AloneInv == ~overlapped => OneBusy /\ Exact /\ \A h \in Handlers : FreshInv(req[h])

CInv == AnyInv /\ AloneInv
-----------------------------------------------------------------------------
(* What one step does to the slots                                         *)

\* The slot of h holds r, the other slots are as they were.
OnlyIn(h) == Shaped' /\ \A g \in Handlers \ {h} : req'[g] = req[g]
Becomes(h, r) == OnlyIn(h) /\ req'[h] = r

\* A slot that is overwritten leaves the other slots alone.
LEMMA Overwritten ==
    ASSUME Shaped, NEW h \in Handlers, NEW r, Shape(r), req' = [req EXCEPT ![h] = r]
    PROVE  Becomes(h, r)
<1>1. req'[h] = r
  BY DEF Shaped
<1>2. \A g \in Handlers \ {h} : req'[g] = req[g]
  BY DEF Shaped
<1>3. req' = [g \in Handlers |-> req'[g]]
  BY DEF Shaped
<1>4. \A g \in Handlers : Shape(req'[g])
  <2>1. TAKE g \in Handlers
  <2>2. CASE g = h
    BY <1>1, <2>2
  <2>3. CASE g # h
    BY <1>2, <2>3 DEF Shaped
  <2>4. QED
    BY <2>2, <2>3
<1>5. Shaped'
  BY <1>3, <1>4 DEF Shaped, Shape
<1>6. QED
  BY <1>1, <1>2, <1>5 DEF Becomes, OnlyIn

\* Finish empties the slot.
LEMMA Finished ==
    ASSUME Shaped, NEW h \in Handlers, Finish(h)
    PROVE  Becomes(h, Idle)
<1>1. Shape(Idle)
  BY DEF Shape, Idle
<1>2. req' = [req EXCEPT ![h] = Idle]
  BY DEF Finish
<1>3. QED
  BY <1>1, <1>2, Overwritten

\* What a record of that shape becomes when one, two or three fields change.
At(r, step, amount, rows, take) ==
    [op |-> r.op, step |-> step, key |-> r.key, amount |-> amount, rows |-> rows, take |-> take]

\* Go moves the request to another step and keeps what it knows.
LEMMA Gone ==
    ASSUME Shaped, NEW h \in Handlers, NEW step, Go(h, step)
    PROVE  Becomes(h, At(req[h], step, req[h].amount, req[h].rows, req[h].take))
<1> DEFINE r == req[h]
<1>1. Shape(r)
  BY DEF Shaped
<1>2. req' = [req EXCEPT ![h] = [r EXCEPT !.step = step]]
  BY DEF Go
<1> HIDE DEF r
<1>3. [r EXCEPT !.step = step] = At(r, step, r.amount, r.rows, r.take)
  BY <1>1 DEF Shape, At
<1>4. Shape(At(r, step, r.amount, r.rows, r.take))
  BY DEF Shape, At
<1>5. Becomes(h, At(r, step, r.amount, r.rows, r.take))
  BY <1>2, <1>3, <1>4, Overwritten
<1>6. QED
  BY <1>5 DEF r
\* A request starts with nothing read.
LEMMA Begun ==
    ASSUME Shaped, NEW h \in Handlers, NEW op, NEW step, NEW key, NEW amount,
           Begin(h, op, step, key, amount)
    PROVE  Becomes(h, [op |-> op, step |-> step, key |-> key, amount |-> amount,
                       rows |-> NoCoins, take |-> NoCoins])
<1> DEFINE r == [op |-> op, step |-> step, key |-> key, amount |-> amount,
                 rows |-> NoCoins, take |-> NoCoins]
<1>1. [Idle EXCEPT !.op = op, !.step = step, !.key = key, !.amount = amount] = r
  <2>1. [Idle EXCEPT !.op = op] =
           [op |-> op, step |-> "idle", key |-> 0, amount |-> 0, rows |-> NoCoins, take |-> NoCoins]
    BY DEF Idle
  <2>2. [[op |-> op, step |-> "idle", key |-> 0, amount |-> 0, rows |-> NoCoins, take |-> NoCoins]
           EXCEPT !.step = step] =
           [op |-> op, step |-> step, key |-> 0, amount |-> 0, rows |-> NoCoins, take |-> NoCoins]
    OBVIOUS
  <2>3. [[op |-> op, step |-> step, key |-> 0, amount |-> 0, rows |-> NoCoins, take |-> NoCoins]
           EXCEPT !.key = key] =
           [op |-> op, step |-> step, key |-> key, amount |-> 0, rows |-> NoCoins, take |-> NoCoins]
    OBVIOUS
  <2>4. [[op |-> op, step |-> step, key |-> key, amount |-> 0, rows |-> NoCoins, take |-> NoCoins]
           EXCEPT !.amount = amount] = r
    OBVIOUS
  <2>5. [Idle EXCEPT !.op = op, !.step = step, !.key = key, !.amount = amount] =
           [[[[Idle EXCEPT !.op = op] EXCEPT !.step = step] EXCEPT !.key = key] EXCEPT !.amount = amount]
    OBVIOUS
  <2>6. QED
    BY <2>1, <2>2, <2>3, <2>4, <2>5
<1>2. req' = [req EXCEPT ![h] = r]
  BY <1>1 DEF Begin
<1>3. Shape(r)
  BY DEF Shape
<1>4. QED
  BY <1>2, <1>3, Overwritten

\* A request goes on with the lots it read.
LEMMA Read ==
    ASSUME Shaped, NEW h \in Handlers, NEW step, NEW rows,
           req' = [req EXCEPT ![h].step = step, ![h].rows = rows]
    PROVE  Becomes(h, At(req[h], step, req[h].amount, rows, req[h].take))
<1> DEFINE r == req[h]
<1>1. Shape(r)
  BY DEF Shaped
<1>2. req' = [req EXCEPT ![h] = [r EXCEPT !.step = step, !.rows = rows]]
  OBVIOUS
<1> HIDE DEF r
<1>3. [r EXCEPT !.step = step, !.rows = rows] = At(r, step, r.amount, rows, r.take)
  <2>1. [r EXCEPT !.step = step] = At(r, step, r.amount, r.rows, r.take)
    BY <1>1 DEF Shape, At
  <2>2. [At(r, step, r.amount, r.rows, r.take) EXCEPT !.rows = rows] = At(r, step, r.amount, rows, r.take)
    BY DEF At
  <2>3. QED
    BY <2>1, <2>2
<1>4. Shape(At(r, step, r.amount, rows, r.take))
  BY DEF Shape, At
<1>5. Becomes(h, At(r, step, r.amount, rows, r.take))
  BY <1>2, <1>3, <1>4, Overwritten
<1>6. QED
  BY <1>5 DEF r

\* A redemption is limited to the balance it read.
LEMMA Limited ==
    ASSUME Shaped, NEW h \in Handlers, NEW step, NEW amount,
           req' = [req EXCEPT ![h].step = step, ![h].amount = amount]
    PROVE  Becomes(h, At(req[h], step, amount, req[h].rows, req[h].take))
<1> DEFINE r == req[h]
<1>1. Shape(r)
  BY DEF Shaped
<1>2. req' = [req EXCEPT ![h] = [r EXCEPT !.step = step, !.amount = amount]]
  OBVIOUS
<1> HIDE DEF r
<1>3. [r EXCEPT !.step = step, !.amount = amount] = At(r, step, amount, r.rows, r.take)
  <2>1. [r EXCEPT !.step = step] = At(r, step, r.amount, r.rows, r.take)
    BY <1>1 DEF Shape, At
  <2>2. [At(r, step, r.amount, r.rows, r.take) EXCEPT !.amount = amount] = At(r, step, amount, r.rows, r.take)
    BY DEF At
  <2>3. QED
    BY <2>1, <2>2
<1>4. Shape(At(r, step, amount, r.rows, r.take))
  BY DEF Shape, At
<1>5. Becomes(h, At(r, step, amount, r.rows, r.take))
  BY <1>2, <1>3, <1>4, Overwritten
<1>6. QED
  BY <1>5 DEF r

\* A redemption goes on with the lots it read and what it takes from each.
LEMMA Chosen ==
    ASSUME Shaped, NEW h \in Handlers, NEW step, NEW rows, NEW take,
           req' = [req EXCEPT ![h].step = step, ![h].rows = rows, ![h].take = take]
    PROVE  Becomes(h, At(req[h], step, req[h].amount, rows, take))
<1> DEFINE r == req[h]
<1>1. Shape(r)
  BY DEF Shaped
<1>2. req' = [req EXCEPT ![h] = [r EXCEPT !.step = step, !.rows = rows, !.take = take]]
  OBVIOUS
<1> HIDE DEF r
<1>3. [r EXCEPT !.step = step, !.rows = rows, !.take = take] = At(r, step, r.amount, rows, take)
  <2>1. [r EXCEPT !.step = step] = At(r, step, r.amount, r.rows, r.take)
    BY <1>1 DEF Shape, At
  <2>2. [At(r, step, r.amount, r.rows, r.take) EXCEPT !.rows = rows] = At(r, step, r.amount, rows, r.take)
    BY DEF At
  <2>3. [At(r, step, r.amount, rows, r.take) EXCEPT !.take = take] = At(r, step, r.amount, rows, take)
    BY DEF At
  <2>4. QED
    BY <2>1, <2>2, <2>3
<1>4. Shape(At(r, step, r.amount, rows, take))
  BY DEF Shape, At
<1>5. Becomes(h, At(r, step, r.amount, rows, take))
  BY <1>2, <1>3, <1>4, Overwritten
<1>6. QED
  BY <1>5 DEF r

-----------------------------------------------------------------------------
(* What the other requests may rely on                                     *)

\* Rows only ever charge more, and an issued lot keeps what it was granted.
Evolves ==
    \A l \in Lots : /\ charged[l] <= charged'[l]
                    /\ granted[l] > 0 => granted'[l] = granted[l]

\* What another request read stays right while rows evolve.
LEMMA OthersRight ==
    ASSUME AnyInv, NEW h \in Handlers, OnlyIn(h), RowsInv', Evolves, NEW g \in Handlers, g # h
    PROVE  Right(g)'
<1>1. req'[g] = req[g] /\ Right(g)
  BY DEF OnlyIn, AnyInv
<1>2. PathInv(req[g])' /\ TakeInv(req[g])'
  BY <1>1 DEF Right, PathInv, TakeInv
<1>3. ReadInv(req[g])'
  <2>1. SUFFICES ASSUME req[g].step \in {"sweep.write", "commit"}, NEW l \in Lots, req[g].rows[l] > 0
                 PROVE  /\ granted'[l] > 0
                        /\ req[g].rows[l] <= granted'[l]
                        /\ granted'[l] <= req[g].rows[l] + charged'[l]
    BY <1>1 DEF Right, ReadInv
  <2>2. /\ granted[l] > 0 /\ req[g].rows[l] <= granted[l]
        /\ granted[l] <= req[g].rows[l] + charged[l]
        /\ req[g].rows[l] \in Nat
    BY <1>1, <2>1 DEF Right, ReadInv
  <2>3. granted'[l] = granted[l] /\ charged[l] <= charged'[l]
    BY <2>2 DEF Evolves
  <2>4. charged[l] \in Nat /\ charged'[l] \in Nat /\ granted[l] \in Nat
    BY DEF AnyInv, RowsInv
  <2>5. QED
    BY <2>2, <2>3, <2>4
<1>4. QED
  BY <1>2, <1>3 DEF Right

\* What holds however requests overlap is kept by a step of h that is right for
\* the rows and for h's own request.
LEMMA KeepsAny ==
    ASSUME AnyInv, NEW h \in Handlers, OnlyIn(h), RowsInv', LotsCovered', Evolves, Right(h)'
    PROVE  AnyInv'
<1>1. \A g \in Handlers : Right(g)'
  BY OthersRight
<1>2. QED
  BY <1>1 DEF AnyInv, OnlyIn

\* Where nothing overlaps: h is alone when it works on lots, it leaves the lots
\* exact, and while another request works it changes no lot already issued.
LEMMA KeepsAlone ==
    ASSUME AnyInv, AloneInv, NEW h \in Handlers, OnlyIn(h),
           ~overlapped' => /\ ~overlapped
                           /\ Busy(h)' => \A g \in Handlers \ {h} : ~Busy(g)
                           /\ FreshInv(req[h])'
                           /\ Exact',
           \A g \in Handlers \ {h} : Busy(g) /\ ~overlapped' =>
               /\ redeemed' = redeemed
               /\ \A l \in Lots : granted[l] > 0 => remaining'[l] = remaining[l]
    PROVE  AloneInv'
<1>1. SUFFICES ASSUME ~overlapped'
               PROVE  (OneBusy /\ Exact /\ \A g \in Handlers : FreshInv(req[g]))'
  BY DEF AloneInv
<1>2. OneBusy /\ \A g \in Handlers : FreshInv(req[g])
  BY <1>1 DEF AloneInv
<1>3. \A g \in Handlers \ {h} : req'[g] = req[g] /\ (Busy(g)' <=> Busy(g))
  BY DEF OnlyIn, Busy
<1>4. OneBusy'
  <2>1. SUFFICES ASSUME NEW f \in Handlers, NEW g \in Handlers, Busy(f)', Busy(g)' PROVE f = g
    BY DEF OneBusy
  <2>2. CASE f # h /\ g # h
    BY <1>2, <1>3, <2>1, <2>2 DEF OneBusy
  <2>3. CASE f = h \/ g = h
    BY <1>1, <1>3, <2>1, <2>3
  <2>4. QED
    BY <2>2, <2>3
<1>5. \A g \in Handlers : FreshInv(req[g])'
  <2>1. TAKE g \in Handlers
  <2>2. CASE g = h
    BY <1>1, <2>2
  <2>3. CASE g # h /\ ~Busy(g)
    <3>1. req'[g] = req[g] /\ Right(g)
      BY <1>3, <2>3 DEF AnyInv
    <3>2. req[g].step \notin {"sweep.write", "commit"}
      BY <2>3, <3>1 DEF Busy, Right, PathInv
    <3>3. ~(req[g].step # "idle" /\ req[g].op = "redeem")
      BY <2>3 DEF Busy
    <3>4. QED
      BY <3>1, <3>2, <3>3 DEF FreshInv
  <2>4. CASE g # h /\ Busy(g)
    <3>1. /\ req'[g] = req[g] /\ Right(g) /\ redeemed' = redeemed
          /\ \A l \in Lots : granted[l] > 0 => remaining'[l] = remaining[l]
      BY <1>1, <1>3, <2>4 DEF AnyInv
    <3>2. FreshInv(req[g])
      BY <1>2
    <3>3. req[g].step \in {"sweep.write", "commit"} =>
             \A l \in Lots : req[g].rows[l] > 0 => req[g].rows[l] = remaining'[l]
      BY <3>1, <3>2 DEF FreshInv, Right, ReadInv
    <3>4. QED
      BY <3>1, <3>2, <3>3 DEF FreshInv
  <2>5. QED
    BY <2>2, <2>3, <2>4
<1>6. QED
  BY <1>1, <1>4, <1>5

-----------------------------------------------------------------------------
(* One step of one request                                                 *)

\* An empty slot knows nothing.
LEMMA IdleKnowsNothing ==
    /\ Idle.step = "idle"
    /\ PathInv(Idle) /\ ReadInv(Idle) /\ TakeInv(Idle) /\ FreshInv(Idle)
BY DEF Idle, PathInv, ReadInv, TakeInv, FreshInv, Steps, Operations

\* A step that changes one slot and no row keeps the invariant when what the
\* slot then holds is right.
LEMMA Quiet ==
    ASSUME CInv, NEW h \in Handlers, NEW r, Becomes(h, r), UNCHANGED Rows,
           PathInv(r), ReadInv(r), TakeInv(r),
           ~overlapped' => /\ ~overlapped
                           /\ FreshInv(r)
                           /\ r.step # "idle" /\ r.op # "grant" =>
                                 \A g \in Handlers \ {h} : ~Busy(g)
    PROVE  CInv'
<1>1. AnyInv /\ AloneInv /\ OnlyIn(h) /\ req'[h] = r
  BY DEF CInv, Becomes
<1>2. /\ granted' = granted /\ remaining' = remaining /\ charged' = charged
      /\ redeemed' = redeemed
  BY DEF Rows
<1>3. RowsInv'
  BY <1>1, <1>2 DEF AnyInv, RowsInv
<1>4. LotsCovered'
  BY <1>1, <1>2 DEF AnyInv, LotsCovered
<1>5. Evolves
  BY <1>1, <1>2 DEF AnyInv, RowsInv, Evolves
<1>6. PathInv(req[h])'
  BY <1>1 DEF PathInv
<1>7. ReadInv(req[h])'
  BY <1>1, <1>2 DEF ReadInv
<1>8. TakeInv(req[h])'
  BY <1>1 DEF TakeInv
<1>9. Right(h)'
  BY <1>6, <1>7, <1>8 DEF Right
<1>10. AnyInv'
  BY <1>1, <1>3, <1>4, <1>5, <1>9, KeepsAny
<1>11. ASSUME ~overlapped'
       PROVE  /\ ~overlapped
              /\ Busy(h)' => \A g \in Handlers \ {h} : ~Busy(g)
              /\ FreshInv(req[h])'
              /\ Exact'
  <2>1. ~overlapped
    BY <1>11
  <2>2. Busy(h)' => \A g \in Handlers \ {h} : ~Busy(g)
    <3>1. HAVE Busy(h)'
    <3>2. r.step # "idle" /\ r.op # "grant"
      BY <1>1, <3>1 DEF Busy
    <3>3. QED
      BY <1>11, <3>2
  <2>3. FreshInv(req[h])'
    BY <1>1, <1>2, <1>11 DEF FreshInv
  <2>4. Exact'
    BY <1>1, <1>2, <2>1 DEF AloneInv, Exact
  <2>5. QED
    BY <2>1, <2>2, <2>3, <2>4
<1>12. AloneInv'
  BY <1>1, <1>2, <1>11, KeepsAlone
<1>13. QED
  BY <1>10, <1>12 DEF CInv

\* Who works alone before a step that overlaps nothing.
LEMMA Alone ==
    ASSUME CInv, NEW h \in Handlers, Busy(h), ~overlapped
    PROVE  /\ \A g \in Handlers \ {h} : ~Busy(g)
           /\ Exact
           /\ FreshInv(req[h])
BY DEF CInv, AloneInv, OneBusy

\* A request that ends, or is lost, without a write keeps the invariant.
LEMMA Ends ==
    ASSUME CInv, NEW h \in Handlers, Finish(h), UNCHANGED Rows, UNCHANGED overlapped
    PROVE  CInv'
<1>1. Becomes(h, Idle)
  BY Finished DEF CInv, AnyInv
<1>2. QED
  BY <1>1, Quiet, IdleKnowsNothing

\* A request that begins keeps the invariant: its key has no redeemed row.
LEMMA Begins ==
    ASSUME CInv, NEW h \in Handlers, NEW op \in Operations, NEW step, NEW key, NEW amount,
           Begin(h, op, step, key, amount),
           step = IF op = "grant" THEN "grant.find" ELSE "sweep.read",
           op \in {"award", "grant"} => key \in Lots /\ amount \in Nat,
           op = "redeem" => key \in Keys /\ redeemed[key] = 0
    PROVE  CInv'
<1> DEFINE r == [op |-> op, step |-> step, key |-> key, amount |-> amount,
                 rows |-> NoCoins, take |-> NoCoins]
<1>1. Becomes(h, r)
  BY Begun DEF CInv, AnyInv
<1>2. UNCHANGED Rows
  BY DEF Begin, Wallet, Rows
<1>3. PathInv(r)
  BY DEF PathInv, Steps, Operations
<1>4. ReadInv(r) /\ TakeInv(r) /\ FreshInv(r)
  BY DEF ReadInv, TakeInv, FreshInv
<1>5. overlapped' = (overlapped \/ (op # "grant" /\ \E g \in Handlers : Busy(g)))
  BY DEF Begin
<1>6. r.op = op
  OBVIOUS
<1> HIDE DEF r
<1>7. ASSUME ~overlapped'
      PROVE  /\ ~overlapped
             /\ FreshInv(r)
             /\ r.step # "idle" /\ r.op # "grant" => \A g \in Handlers \ {h} : ~Busy(g)
  BY <1>4, <1>5, <1>6, <1>7
<1>8. QED
  BY <1>1, <1>2, <1>3, <1>4, <1>7, Quiet

\* Every request that starts keeps the invariant.
LEMMA StartKeeps ==
    ASSUME CInv, NEW h \in Handlers, Start(h)
    PROVE  CInv'
<1>1. CASE \E k \in Payouts, cap \in Coins : BeginPayoutRedeem(h, k, cap)
  <2>1. PICK k \in Payouts, cap \in Coins : BeginPayoutRedeem(h, k, cap)
    BY <1>1
  <2>2. Begin(h, "redeem", "sweep.read", k, cap) /\ redeemed[k] = 0 /\ k \in Keys
    BY <2>1 DEF BeginPayoutRedeem, Keys
  <2>3. QED
    BY <2>2, Begins DEF Operations
<1>2. CASE \E b \in Bookings : BeginBookingRedeem(h, b)
  <2>1. PICK b \in Bookings : BeginBookingRedeem(h, b)
    BY <1>2
  <2>2. Begin(h, "redeem", "sweep.read", b, promised[b]) /\ redeemed[b] = 0 /\ b \in Keys
    BY <2>1 DEF BeginBookingRedeem, Keys
  <2>3. QED
    BY <2>2, Begins DEF Operations
<1>3. CASE \E b \in Bookings, cap \in Coins : BeginPreview(h, b, cap)
  <2>1. PICK b \in Bookings, cap \in Coins : BeginPreview(h, b, cap)
    BY <1>3
  <2>2. Begin(h, "preview", "sweep.read", b, cap)
    BY <2>1 DEF BeginPreview
  <2>3. QED
    BY <2>2, Begins DEF Operations
<1>4. CASE \E l \in Lots, coins \in Coins : BeginAward(h, l, coins) \/ BeginGrant(h, l, coins)
  <2>1. PICK l \in Lots, coins \in Coins : BeginAward(h, l, coins) \/ BeginGrant(h, l, coins)
    BY <1>4
  <2>2. coins \in Nat
    BY CoinConstants DEF Coins
  <2>3. CASE BeginAward(h, l, coins)
    <3>1. Begin(h, "award", "sweep.read", l, coins)
      BY <2>3 DEF BeginAward
    <3>2. QED
      BY <2>2, <3>1, Begins DEF Operations
  <2>4. CASE BeginGrant(h, l, coins)
    <3>1. Begin(h, "grant", "grant.find", l, coins)
      BY <2>4 DEF BeginGrant
    <3>2. QED
      BY <2>2, <3>1, Begins DEF Operations
  <2>5. QED
    BY <2>1, <2>3, <2>4
<1>5. CASE BeginRead(h)
  <2>1. Begin(h, "read", "sweep.read", 0, 0)
    BY <1>5 DEF BeginRead
  <2>2. QED
    BY <2>1, Begins DEF Operations
<1>6. QED
  BY <1>1, <1>2, <1>3, <1>4, <1>5 DEF Start

\* After its sweep a request goes on without what the sweep read, or ends.
LEMMA SweepOver ==
    ASSUME CInv, NEW h \in Handlers, req[h].step \in {"sweep.read", "sweep.write"}, AfterSweep(h)
    PROVE  \E r : /\ Becomes(h, r)
                  /\ PathInv(r)
                  /\ r.step \notin {"sweep.write", "commit"}
                  /\ r.step # "idle" => r.op = req[h].op /\ r.key = req[h].key
<1>1. Shaped /\ PathInv(req[h])
  BY DEF CInv, AnyInv, Right
<1>2. CASE req[h].op \in {"redeem", "preview"} /\ Go(h, "wallet")
  <2> DEFINE r == At(req[h], "wallet", req[h].amount, req[h].rows, req[h].take)
  <2>1. Becomes(h, r)
    BY <1>1, <1>2, Gone
  <2>2. r.step = "wallet" /\ r.op = req[h].op /\ r.key = req[h].key
    BY DEF At
  <2> HIDE DEF r
  <2>3. PathInv(r)
    BY <1>1, <1>2, <2>2 DEF PathInv, Steps
  <2>4. QED
    BY <2>1, <2>2, <2>3
<1>3. CASE req[h].op = "award" /\ Go(h, "grant.find")
  <2> DEFINE r == At(req[h], "grant.find", req[h].amount, req[h].rows, req[h].take)
  <2>1. Becomes(h, r)
    BY <1>1, <1>3, Gone
  <2>2. r.step = "grant.find" /\ r.op = req[h].op /\ r.key = req[h].key /\ r.amount = req[h].amount
    BY DEF At
  <2> HIDE DEF r
  <2>3. PathInv(r)
    BY <1>1, <1>3, <2>2 DEF PathInv, Steps
  <2>4. QED
    BY <2>1, <2>2, <2>3
<1>4. CASE Finish(h)
  <2>1. Becomes(h, Idle)
    BY <1>1, <1>4, Finished
  <2>2. QED
    BY <2>1, IdleKnowsNothing
<1>5. QED
  BY <1>2, <1>3, <1>4 DEF AfterSweep

\* A request at its sweep is one that works on lots.
LEMMA SweepIsBusy ==
    ASSUME CInv, NEW h \in Handlers, req[h].step \in {"sweep.read", "sweep.write"}
    PROVE  Busy(h)
BY DEF CInv, AnyInv, Right, PathInv, Busy

\* A sweep that found nothing, or failed, changes no row.
LEMMA SweepSkipped ==
    ASSUME CInv, NEW h \in Handlers, req[h].step \in {"sweep.read", "sweep.write"}, AfterSweep(h),
           UNCHANGED Rows, UNCHANGED overlapped
    PROVE  CInv'
<1>1. PICK r : /\ Becomes(h, r)
               /\ PathInv(r)
               /\ r.step \notin {"sweep.write", "commit"}
               /\ r.step # "idle" => r.op = req[h].op /\ r.key = req[h].key
  BY SweepOver, Zenon
<1>2. ReadInv(r) /\ TakeInv(r)
  BY <1>1 DEF ReadInv, TakeInv
<1>3. ASSUME ~overlapped'
      PROVE  ~overlapped /\ FreshInv(r) /\ \A g \in Handlers \ {h} : ~Busy(g)
  <2>1. ~overlapped
    BY <1>3
  <2>2. FreshInv(req[h]) /\ \A g \in Handlers \ {h} : ~Busy(g)
    BY <2>1, SweepIsBusy, Alone
  <2>3. FreshInv(r)
    BY <1>1, <2>2 DEF FreshInv
  <2>4. QED
    BY <2>1, <2>2, <2>3
<1>4. QED
  BY <1>1, <1>2, <1>3, Quiet

\* What is read of a lot is right when it is read, for every selection of lots.
LEMMA SelectRight ==
    ASSUME CInv, NEW lots
    PROVE  /\ Select(lots) \in [Lots -> Nat]
           /\ \A l \in Lots : Select(lots)[l] > 0 =>
                 /\ Select(lots)[l] = remaining[l]
                 /\ granted[l] > 0
                 /\ Select(lots)[l] <= granted[l]
                 /\ granted[l] <= Select(lots)[l] + charged[l]
<1>1. RowsInv /\ LotsCovered
  BY DEF CInv, AnyInv
<1>2. Select(lots) \in [Lots -> Nat]
  BY <1>1 DEF Select, RowsInv
<1>3. ASSUME NEW l \in Lots, Select(lots)[l] > 0
      PROVE  /\ Select(lots)[l] = remaining[l]
             /\ granted[l] > 0
             /\ Select(lots)[l] <= granted[l]
             /\ granted[l] <= Select(lots)[l] + charged[l]
  <2>1. Select(lots)[l] = remaining[l] /\ remaining[l] > 0
    BY <1>3 DEF Select
  <2>2. /\ granted[l] \in Nat /\ remaining[l] \in Nat /\ charged[l] \in Nat
        /\ remaining[l] <= granted[l] /\ granted[l] - charged[l] <= remaining[l]
    BY <1>1 DEF RowsInv, LotsCovered
  <2>3. QED
    BY <2>1, <2>2
<1>4. QED
  BY <1>2, <1>3

\* The sweep's read keeps the invariant.
LEMMA ReadExpiredKeeps ==
    ASSUME CInv, NEW h \in Handlers, ReadExpired(h)
    PROVE  CInv'
<1>1. req[h].step = "sweep.read" /\ UNCHANGED Rows /\ UNCHANGED overlapped
  BY DEF ReadExpired, Wallet, Rows
<1>2. CASE Expired = {}
  <2>1. AfterSweep(h)
    BY <1>2 DEF ReadExpired
  <2>2. QED
    BY <1>1, <2>1, SweepSkipped
<1>3. CASE Expired # {}
  <2> DEFINE rows == Select(Expired)
             r == At(req[h], "sweep.write", req[h].amount, rows, req[h].take)
  <2>1. req' = [req EXCEPT ![h].step = "sweep.write", ![h].rows = rows]
    BY <1>3 DEF ReadExpired
  <2>2. Shaped /\ PathInv(req[h])
    BY DEF CInv, AnyInv, Right
  <2>3. Becomes(h, r)
    BY <2>1, <2>2, Read
  <2>4. /\ r.step = "sweep.write" /\ r.op = req[h].op /\ r.key = req[h].key
        /\ r.amount = req[h].amount /\ r.rows = rows
    BY DEF At
  <2>5. /\ rows \in [Lots -> Nat]
        /\ \A l \in Lots : rows[l] > 0 => /\ rows[l] = remaining[l]
                                          /\ granted[l] > 0
                                          /\ rows[l] <= granted[l]
                                          /\ granted[l] <= rows[l] + charged[l]
    BY SelectRight
  <2> HIDE DEF r, rows
  <2>6. PathInv(r)
    BY <1>1, <2>2, <2>4 DEF PathInv, Steps
  <2>7. ReadInv(r)
    BY <2>4, <2>5 DEF ReadInv
  <2>8. TakeInv(r)
    BY <2>4 DEF TakeInv
  <2>9. ASSUME ~overlapped'
        PROVE  ~overlapped /\ FreshInv(r) /\ \A g \in Handlers \ {h} : ~Busy(g)
    <3>1. ~overlapped
      BY <1>1, <2>9
    <3>2. FreshInv(req[h]) /\ \A g \in Handlers \ {h} : ~Busy(g)
      BY <1>1, <3>1, SweepIsBusy, Alone
    <3>3. FreshInv(r)
      BY <1>1, <2>4, <2>5, <3>2 DEF FreshInv
    <3>4. QED
      BY <3>1, <3>2, <3>3
  <2>10. QED
    BY <1>1, <2>3, <2>6, <2>7, <2>8, <2>9, Quiet
<1>4. QED
  BY <1>2, <1>3

\* The read of the wallet, which limits the redemption or ends it.
LEMMA ReadWalletKeeps ==
    ASSUME CInv, NEW h \in Handlers, ReadWallet(h)
    PROVE  CInv'
<1>1. req[h].step = "wallet" /\ UNCHANGED Rows /\ UNCHANGED overlapped
  BY DEF ReadWallet, Wallet, Rows
<1>2. CASE Finish(h)
  BY <1>1, <1>2, Ends
<1>3. CASE ~Finish(h)
  <2> DEFINE amount == Smaller(req[h].amount, balance)
             r == At(req[h], "lots", amount, req[h].rows, req[h].take)
  <2>1. req' = [req EXCEPT ![h].step = "lots", ![h].amount = Smaller(@, balance)]
    BY <1>3 DEF ReadWallet
  <2>2. Shaped /\ PathInv(req[h])
    BY DEF CInv, AnyInv, Right
  <2>3. req' = [req EXCEPT ![h].step = "lots", ![h].amount = amount]
    BY <2>1, <2>2 DEF Shaped
  <2>4. Becomes(h, r)
    BY <2>2, <2>3, Limited
  <2>5. r.step = "lots" /\ r.op = req[h].op /\ r.key = req[h].key
    BY DEF At
  <2> HIDE DEF r, amount
  <2>6. req[h].op \in {"redeem", "preview"}
    BY <1>1, <2>2 DEF PathInv
  <2>7. PathInv(r)
    BY <2>2, <2>5, <2>6 DEF PathInv, Steps
  <2>8. ReadInv(r) /\ TakeInv(r)
    BY <2>5 DEF ReadInv, TakeInv
  <2>9. Busy(h)
    BY <1>1, <2>6 DEF Busy
  <2>10. ASSUME ~overlapped'
         PROVE  ~overlapped /\ FreshInv(r) /\ \A g \in Handlers \ {h} : ~Busy(g)
    <3>1. ~overlapped
      BY <1>1, <2>10
    <3>2. FreshInv(req[h]) /\ \A g \in Handlers \ {h} : ~Busy(g)
      BY <2>9, <3>1, Alone
    <3>3. FreshInv(r)
      BY <1>1, <2>5, <3>2 DEF FreshInv
    <3>4. QED
      BY <3>1, <3>2, <3>3
  <2>11. QED
    BY <1>1, <2>4, <2>7, <2>8, <2>10, Quiet
<1>4. QED
  BY <1>2, <1>3

\* The read of the lots a redemption takes from.
LEMMA ReadLotsKeeps ==
    ASSUME CInv, NEW h \in Handlers, ReadLots(h)
    PROVE  CInv'
<1>1. req[h].step = "lots" /\ req[h].op = "redeem" /\ UNCHANGED Rows /\ UNCHANGED overlapped
  BY DEF ReadLots, Wallet, Rows
<1>2. CASE Unlapsed = {}
  <2>1. Finish(h)
    BY <1>2 DEF ReadLots
  <2>2. QED
    BY <1>1, <2>1, Ends
<1>3. CASE Unlapsed # {}
  <2> DEFINE rows == Select(Unlapsed)
  <2>1. PICK take \in Takes(rows, req[h].amount) :
             req' = [req EXCEPT ![h].step = "commit", ![h].rows = rows, ![h].take = take]
    BY <1>3, Zenon DEF ReadLots
  <2> DEFINE r == At(req[h], "commit", req[h].amount, rows, take)
  <2>2. Shaped /\ PathInv(req[h])
    BY DEF CInv, AnyInv, Right
  <2>3. Becomes(h, r)
    BY <2>1, <2>2, Chosen
  <2>4. /\ r.step = "commit" /\ r.op = req[h].op /\ r.key = req[h].key
        /\ r.rows = rows /\ r.take = take
    BY DEF At
  <2>5. /\ rows \in [Lots -> Nat]
        /\ \A l \in Lots : rows[l] > 0 => /\ rows[l] = remaining[l]
                                          /\ granted[l] > 0
                                          /\ rows[l] <= granted[l]
                                          /\ granted[l] <= rows[l] + charged[l]
    BY SelectRight
  <2>6. take \in [Lots -> Nat] /\ \A l \in Lots : take[l] <= rows[l]
    <3>1. take \in [Lots -> Coins] /\ \A l \in Lots : take[l] <= rows[l]
      BY <2>1 DEF Takes
    <3>2. Coins \subseteq Nat
      BY CoinConstants DEF Coins
    <3>3. take \in [Lots -> Nat]
      BY <3>1, <3>2
    <3>4. QED
      BY <3>1, <3>3
  <2> HIDE DEF r, rows
  <2>7. PathInv(r)
    BY <1>1, <2>2, <2>4 DEF PathInv, Steps
  <2>8. ReadInv(r)
    BY <2>4, <2>5 DEF ReadInv
  <2>9. TakeInv(r)
    BY <2>4, <2>6 DEF TakeInv
  <2>10. Busy(h)
    BY <1>1 DEF Busy
  <2>11. ASSUME ~overlapped'
         PROVE  ~overlapped /\ FreshInv(r) /\ \A g \in Handlers \ {h} : ~Busy(g)
    <3>1. ~overlapped
      BY <1>1, <2>11
    <3>2. FreshInv(req[h]) /\ \A g \in Handlers \ {h} : ~Busy(g)
      BY <2>10, <3>1, Alone
    <3>3. FreshInv(r)
      BY <1>1, <2>4, <2>5, <3>2 DEF FreshInv
    <3>4. QED
      BY <3>1, <3>2, <3>3
  <2>12. QED
    BY <1>1, <2>3, <2>7, <2>8, <2>9, <2>11, Quiet
<1>4. QED
  BY <1>2, <1>3

\* A preview promises coins, which are no part of the invariant.
LEMMA PreviewKeeps ==
    ASSUME CInv, NEW h \in Handlers, PreviewLots(h)
    PROVE  CInv'
<1>1. Finish(h) /\ UNCHANGED Rows /\ UNCHANGED overlapped
  BY DEF PreviewLots, Rows
<1>2. QED
  BY <1>1, Ends

\* The look for a grant of the same key.
LEMMA FindGrantKeeps ==
    ASSUME CInv, NEW h \in Handlers, FindGrant(h)
    PROVE  CInv'
<1>1. req[h].step = "grant.find" /\ UNCHANGED Rows /\ UNCHANGED overlapped
  BY DEF FindGrant, Wallet, Rows
<1>2. CASE Finish(h)
  BY <1>1, <1>2, Ends
<1>3. CASE Go(h, "grant.write")
  <2> DEFINE r == At(req[h], "grant.write", req[h].amount, req[h].rows, req[h].take)
  <2>1. Shaped /\ PathInv(req[h])
    BY DEF CInv, AnyInv, Right
  <2>2. Becomes(h, r)
    BY <1>3, <2>1, Gone
  <2>3. /\ r.step = "grant.write" /\ r.op = req[h].op /\ r.key = req[h].key
        /\ r.amount = req[h].amount
    BY DEF At
  <2> HIDE DEF r
  <2>4. req[h].op \in {"award", "grant"}
    BY <1>1, <2>1 DEF PathInv
  <2>5. PathInv(r)
    BY <2>1, <2>3, <2>4 DEF PathInv, Steps
  <2>6. ReadInv(r) /\ TakeInv(r) /\ FreshInv(r)
    BY <2>3, <2>4 DEF ReadInv, TakeInv, FreshInv
  <2>7. ASSUME ~overlapped'
        PROVE  /\ ~overlapped
               /\ r.step # "idle" /\ r.op # "grant" => \A g \in Handlers \ {h} : ~Busy(g)
    <3>1. ~overlapped
      BY <1>1, <2>7
    <3>2. CASE r.op = "grant"
      BY <3>1, <3>2
    <3>3. CASE r.op # "grant"
      <4>1. Busy(h)
        BY <1>1, <2>3, <3>3 DEF Busy
      <4>2. QED
        BY <3>1, <4>1, Alone
    <3>4. QED
      BY <3>2, <3>3
  <2>8. QED
    BY <1>1, <2>2, <2>5, <2>6, <2>7, Quiet
<1>4. QED
  BY <1>2, <1>3 DEF FindGrant

-----------------------------------------------------------------------------
(* The steps that write rows                                               *)

\* Lots that a request takes coins from: what is left of a lot it takes from is
\* what it read of it less what it took, which is never too little, and exactly
\* right where what it read is what the lot still holds.
LEMMA TakenFrom ==
    ASSUME CInv, NEW rows \in [Lots -> Nat], NEW take \in [Lots -> Nat],
           \A l \in Lots : take[l] <= rows[l],
           \A l \in Lots : rows[l] > 0 => /\ granted[l] > 0
                                          /\ rows[l] <= granted[l]
                                          /\ granted[l] <= rows[l] + charged[l],
           remaining' = [l \in Lots |-> IF take[l] > 0 THEN rows[l] - take[l] ELSE remaining[l]],
           charged' = [l \in Lots |-> charged[l] + take[l]],
           granted' = granted,
           redeemed' \in [Keys -> Nat]
    PROVE  /\ RowsInv' /\ LotsCovered' /\ Evolves
           /\ (\A l \in Lots : /\ rows[l] > 0 => rows[l] = remaining[l]
                              /\ remaining[l] + charged[l] = granted[l]) =>
                 \A l \in Lots : remaining'[l] + charged'[l] = granted'[l]
<1>1. RowsInv /\ LotsCovered
  BY DEF CInv, AnyInv
<1>2. \A l \in Lots : /\ granted[l] \in Nat /\ remaining[l] \in Nat /\ charged[l] \in Nat
                      /\ rows[l] \in Nat /\ take[l] \in Nat
                      /\ take[l] <= rows[l]
                      /\ remaining'[l] = IF take[l] > 0 THEN rows[l] - take[l] ELSE remaining[l]
                      /\ charged'[l] = charged[l] + take[l]
  BY <1>1 DEF RowsInv
<1>3. \A l \in Lots : remaining'[l] \in Nat /\ charged'[l] \in Nat
  BY <1>2
<1>4. remaining' \in [Lots -> Nat] /\ charged' \in [Lots -> Nat]
  BY <1>2, <1>3
<1>5. ASSUME NEW l \in Lots, granted[l] = 0 PROVE remaining'[l] = 0 /\ charged'[l] = 0
  <2>1. remaining[l] = 0 /\ charged[l] = 0
    BY <1>1, <1>5 DEF RowsInv
  <2>2. rows[l] = 0
    BY <1>2, <1>5
  <2>3. QED
    BY <1>2, <2>1, <2>2
<1>6. RowsInv'
  BY <1>1, <1>4, <1>5 DEF RowsInv
<1>7. ASSUME NEW l \in Lots
      PROVE  remaining'[l] <= granted[l] /\ granted[l] - charged'[l] <= remaining'[l]
  <2>1. remaining[l] <= granted[l] /\ granted[l] - charged[l] <= remaining[l]
    BY <1>1 DEF LotsCovered
  <2>2. CASE take[l] > 0
    <3>1. rows[l] <= granted[l] /\ granted[l] <= rows[l] + charged[l]
      BY <1>2, <2>2
    <3>2. QED
      BY <1>2, <2>2, <3>1
  <2>3. CASE ~(take[l] > 0)
    BY <1>2, <2>1, <2>3
  <2>4. QED
    BY <2>2, <2>3
<1>8. LotsCovered'
  BY <1>7 DEF LotsCovered
<1>9. Evolves
  BY <1>2 DEF Evolves
<1>10. ASSUME \A l \in Lots : rows[l] > 0 => rows[l] = remaining[l],
              \A l \in Lots : remaining[l] + charged[l] = granted[l],
              NEW l \in Lots
       PROVE  remaining'[l] + charged'[l] = granted'[l]
  BY <1>2, <1>10
<1>11. QED
  BY <1>6, <1>8, <1>9, <1>10

\* A request that wrote rows and works alone keeps the invariant when its slot
\* holds no reading any more.
LEMMA Written ==
    ASSUME CInv, NEW h \in Handlers, Busy(h), NEW r, Becomes(h, r), PathInv(r),
           r.step \notin {"sweep.write", "commit"},
           UNCHANGED overlapped, RowsInv', LotsCovered', Evolves,
           ~overlapped => Exact' /\ (r.step # "idle" /\ r.op = "redeem" => redeemed'[r.key] = 0)
    PROVE  CInv'
<1>1. AnyInv /\ AloneInv /\ OnlyIn(h) /\ req'[h] = r
  BY DEF CInv, Becomes
<1>2. PathInv(req[h])'
  BY <1>1 DEF PathInv
<1>3. ReadInv(req[h])' /\ TakeInv(req[h])'
  BY <1>1 DEF ReadInv, TakeInv
<1>4. Right(h)'
  BY <1>2, <1>3 DEF Right
<1>5. AnyInv'
  BY <1>1, <1>4, KeepsAny
<1>6. ASSUME ~overlapped'
      PROVE  ~overlapped /\ (\A g \in Handlers \ {h} : ~Busy(g)) /\ FreshInv(req[h])' /\ Exact'
  <2>1. ~overlapped
    BY <1>6
  <2>2. \A g \in Handlers \ {h} : ~Busy(g)
    BY <2>1, Alone
  <2>3. FreshInv(req[h])'
    BY <1>1, <2>1 DEF FreshInv
  <2>4. QED
    BY <2>1, <2>2, <2>3
<1>7. AloneInv'
  BY <1>1, <1>6, KeepsAlone
<1>8. QED
  BY <1>5, <1>7 DEF CInv

\* The sweep's transaction: it takes all that it read.
LEMMA WriteExpiredKeeps ==
    ASSUME CInv, NEW h \in Handlers, WriteExpired(h)
    PROVE  CInv'
<1> DEFINE rows == req[h].rows
<1>1. /\ req[h].step = "sweep.write" /\ AfterSweep(h)
      /\ remaining' = [l \in Lots |-> IF rows[l] > 0 THEN 0 ELSE remaining[l]]
      /\ charged' = [l \in Lots |-> charged[l] + rows[l]]
      /\ granted' = granted /\ redeemed' = redeemed
      /\ UNCHANGED overlapped
  BY DEF WriteExpired, Expire
<1>2. PICK r : /\ Becomes(h, r)
               /\ PathInv(r)
               /\ r.step \notin {"sweep.write", "commit"}
               /\ r.step # "idle" => r.op = req[h].op /\ r.key = req[h].key
  BY <1>1, SweepOver, Zenon
<1>3. Busy(h)
  BY <1>1, SweepIsBusy
<1>4. /\ rows \in [Lots -> Nat]
      /\ \A l \in Lots : rows[l] > 0 => /\ granted[l] > 0
                                        /\ rows[l] <= granted[l]
                                        /\ granted[l] <= rows[l] + charged[l]
  BY <1>1 DEF CInv, AnyInv, Right, ReadInv
<1>5. redeemed' \in [Keys -> Nat]
  BY <1>1 DEF CInv, AnyInv, RowsInv
<1>6. \A l \in Lots : rows[l] <= rows[l]
  BY <1>4
<1>7. remaining' = [l \in Lots |-> IF rows[l] > 0 THEN rows[l] - rows[l] ELSE remaining[l]]
  BY <1>1, <1>4
<1>8. /\ RowsInv' /\ LotsCovered' /\ Evolves
      /\ (\A l \in Lots : /\ rows[l] > 0 => rows[l] = remaining[l]
                         /\ remaining[l] + charged[l] = granted[l]) =>
            \A l \in Lots : remaining'[l] + charged'[l] = granted'[l]
  BY <1>1, <1>4, <1>5, <1>6, <1>7, TakenFrom
<1>9. ASSUME ~overlapped
      PROVE  Exact' /\ (r.step # "idle" /\ r.op = "redeem" => redeemed'[r.key] = 0)
  <2>1. Exact /\ FreshInv(req[h])
    BY <1>3, <1>9, Alone
  <2>2. \A l \in Lots : remaining'[l] + charged'[l] = granted'[l]
    BY <1>1, <1>8, <2>1 DEF Exact, FreshInv
  <2>3. Exact'
    BY <1>1, <2>1, <2>2 DEF Exact
  <2>4. r.step # "idle" /\ r.op = "redeem" => redeemed'[r.key] = 0
    BY <1>1, <1>2, <2>1 DEF FreshInv
  <2>5. QED
    BY <2>3, <2>4
<1>10. QED
  BY <1>1, <1>2, <1>3, <1>8, <1>9, Written

\* The redemption's transaction: a redeemed row of a key that had none.
LEMMA CommitKeeps ==
    ASSUME CInv, NEW h \in Handlers, CommitRedeem(h)
    PROVE  CInv'
<1> DEFINE rows == req[h].rows
           take == req[h].take
           key == req[h].key
<1>1. /\ req[h].step = "commit" /\ Finish(h)
      /\ remaining' = [l \in Lots |-> IF take[l] > 0 THEN rows[l] - take[l] ELSE remaining[l]]
      /\ charged' = [l \in Lots |-> charged[l] + take[l]]
      /\ redeemed' = [redeemed EXCEPT ![key] = @ + 1]
      /\ granted' = granted
      /\ UNCHANGED overlapped
  BY DEF CommitRedeem, WriteLots
<1>2. Becomes(h, Idle)
  BY <1>1, Finished DEF CInv, AnyInv
<1>3. req[h].op = "redeem" /\ key \in Keys
  BY <1>1 DEF CInv, AnyInv, Right, PathInv
<1>4. Busy(h)
  BY <1>1, <1>3 DEF Busy
<1>5. /\ rows \in [Lots -> Nat]
      /\ \A l \in Lots : rows[l] > 0 => /\ granted[l] > 0
                                        /\ rows[l] <= granted[l]
                                        /\ granted[l] <= rows[l] + charged[l]
  BY <1>1 DEF CInv, AnyInv, Right, ReadInv
<1>6. take \in [Lots -> Nat] /\ \A l \in Lots : take[l] <= rows[l]
  BY <1>1 DEF CInv, AnyInv, Right, TakeInv
<1>7. redeemed \in [Keys -> Nat]
  BY DEF CInv, AnyInv, RowsInv
<1>8. redeemed' \in [Keys -> Nat]
  BY <1>1, <1>3, <1>7
<1>9. /\ RowsInv' /\ LotsCovered' /\ Evolves
      /\ (\A l \in Lots : /\ rows[l] > 0 => rows[l] = remaining[l]
                         /\ remaining[l] + charged[l] = granted[l]) =>
            \A l \in Lots : remaining'[l] + charged'[l] = granted'[l]
  BY <1>1, <1>5, <1>6, <1>8, TakenFrom
<1>10. ASSUME ~overlapped
       PROVE  Exact'
  <2>1. Exact /\ FreshInv(req[h])
    BY <1>4, <1>10, Alone
  <2>2. \A l \in Lots : remaining'[l] + charged'[l] = granted'[l]
    BY <1>1, <1>9, <2>1 DEF Exact, FreshInv
  <2>3. redeemed[key] = 0
    BY <1>1, <1>3, <2>1 DEF FreshInv
  <2>4. \A k \in Keys : redeemed[k] <= 1
    BY <2>1 DEF Exact
  <2>5. \A k \in Keys : redeemed'[k] <= 1
    BY <1>1, <1>3, <1>7, <2>3, <2>4
  <2>6. QED
    BY <2>2, <2>5 DEF Exact
<1>11. QED
  BY <1>1, <1>2, <1>4, <1>9, <1>10, Written, IdleKnowsNothing

\* A grant is written once: a lot that was issued is left as it is.
LEMMA CreateGrantKeeps ==
    ASSUME CInv, NEW h \in Handlers, CreateGrant(h)
    PROVE  CInv'
<1> DEFINE l == req[h].key
           coins == req[h].amount
<1>1. /\ req[h].step = "grant.write" /\ Finish(h)
      /\ granted' = IF granted[l] = 0 THEN [granted EXCEPT ![l] = coins] ELSE granted
      /\ remaining' = IF granted[l] = 0 THEN [remaining EXCEPT ![l] = coins] ELSE remaining
      /\ charged' = charged /\ redeemed' = redeemed
      /\ UNCHANGED overlapped
  BY DEF CreateGrant
<1>2. AnyInv /\ AloneInv /\ RowsInv /\ LotsCovered
  BY DEF CInv, AnyInv
<1>3. l \in Lots /\ coins \in Nat
  BY <1>1 DEF CInv, AnyInv, Right, PathInv
<1> HIDE DEF l, coins
<1>4. Becomes(h, Idle)
  BY <1>1, <1>2, Finished DEF AnyInv
<1>5. OnlyIn(h) /\ req'[h] = Idle
  BY <1>4 DEF Becomes
<1>6. CASE granted[l] # 0
  <2>1. UNCHANGED Rows
    BY <1>1, <1>6 DEF Rows
  <2>2. QED
    BY <1>1, <2>1, Ends
<1>7. CASE granted[l] = 0
  <2>1. /\ granted' = [granted EXCEPT ![l] = coins]
        /\ remaining' = [remaining EXCEPT ![l] = coins]
    BY <1>1, <1>7
  <2>2. \A m \in Lots : /\ granted[m] \in Nat /\ remaining[m] \in Nat /\ charged[m] \in Nat
                        /\ granted[m] = 0 => remaining[m] = 0 /\ charged[m] = 0
    BY <1>2 DEF RowsInv
  <2>3. /\ granted'[l] = coins /\ remaining'[l] = coins /\ charged'[l] = 0
        /\ \A m \in Lots \ {l} : granted'[m] = granted[m] /\ remaining'[m] = remaining[m]
    BY <1>1, <1>2, <1>3, <1>7, <2>1, <2>2 DEF RowsInv
  <2>4. RowsInv'
    <3>1. /\ granted' \in [Lots -> Nat] /\ remaining' \in [Lots -> Nat]
          /\ charged' \in [Lots -> Nat] /\ redeemed' \in [Keys -> Nat]
      BY <1>1, <1>2, <1>3, <2>1 DEF RowsInv
    <3>2. \A m \in Lots : granted'[m] = 0 => remaining'[m] = 0 /\ charged'[m] = 0
      BY <1>1, <2>2, <2>3
    <3>3. QED
      BY <3>1, <3>2 DEF RowsInv
  <2>5. LotsCovered'
    <3>1. SUFFICES ASSUME NEW m \in Lots
                   PROVE  remaining'[m] <= granted'[m] /\ granted'[m] - charged'[m] <= remaining'[m]
      BY DEF LotsCovered
    <3>2. remaining[m] <= granted[m] /\ granted[m] - charged[m] <= remaining[m]
      BY <1>2 DEF LotsCovered
    <3>3. CASE m = l
      BY <1>3, <2>3, <3>3
    <3>4. CASE m # l
      BY <1>1, <2>3, <3>2, <3>4
    <3>5. QED
      BY <3>3, <3>4
  <2>6. Evolves
    BY <1>1, <1>7, <2>2, <2>3 DEF Evolves
  <2>7. Right(h)'
    BY <1>5 DEF Right, PathInv, ReadInv, TakeInv, Idle, Steps, Operations
  <2>8. AnyInv'
    BY <1>2, <1>5, <2>4, <2>5, <2>6, <2>7, KeepsAny
  <2>9. FreshInv(req[h])'
    BY <1>5 DEF FreshInv, Idle
  <2>10. ~Busy(h)'
    BY <1>5 DEF Busy, Idle
  <2>11. ASSUME ~overlapped'
         PROVE  ~overlapped /\ Exact'
    <3>1. ~overlapped
      BY <1>1, <2>11
    <3>2. Exact
      BY <1>2, <3>1 DEF AloneInv
    <3>3. \A m \in Lots : remaining'[m] + charged'[m] = granted'[m]
      BY <1>1, <1>3, <2>3, <3>2 DEF Exact
    <3>4. QED
      BY <1>1, <3>1, <3>2, <3>3 DEF Exact
  <2>12. \A m \in Lots : granted[m] > 0 => remaining'[m] = remaining[m]
    BY <1>7, <2>3
  <2>13. AloneInv'
    BY <1>1, <1>2, <1>5, <2>9, <2>10, <2>11, <2>12, KeepsAlone
  <2>14. QED
    BY <2>8, <2>13 DEF CInv
<1>8. QED
  BY <1>6, <1>7

-----------------------------------------------------------------------------
(* The invariant and what follows from it                                  *)

\* An empty wallet, and no request: the invariant holds.
LEMMA InitCInv == Init => CInv
<1>1. HAVE Init
<1>2. /\ granted = NoCoins /\ remaining = NoCoins /\ charged = NoCoins
      /\ redeemed = [k \in Keys |-> 0]
      /\ req = [h \in Handlers |-> Idle]
  BY <1>1 DEF Init
<1>3. RowsInv /\ LotsCovered /\ Exact
  BY <1>2 DEF RowsInv, LotsCovered, Exact, NoCoins
<1>4. \A h \in Handlers : req[h] = Idle
  BY <1>2
<1>5. Shape(Idle)
  BY DEF Shape, Idle
<1>6. Shaped
  BY <1>2, <1>4, <1>5 DEF Shaped
<1>7. \A h \in Handlers : Right(h) /\ FreshInv(req[h])
  BY <1>4, IdleKnowsNothing DEF Right
<1>8. OneBusy
  BY <1>4, IdleKnowsNothing DEF OneBusy, Busy
<1>9. QED
  BY <1>3, <1>6, <1>7, <1>8 DEF CInv, AnyInv, AloneInv

\* Every step keeps the invariant.
LEMMA NextCInv == CInv /\ [Next]_vars => CInv'
<1>1. SUFFICES ASSUME CInv, [Next]_vars PROVE CInv'
  OBVIOUS
<1>2. CASE UNCHANGED <<Rows, req, overlapped>>
  BY <1>1, <1>2 DEF Rows, CInv, AnyInv, Shaped, RowsInv, LotsCovered, Right, PathInv, ReadInv,
     TakeInv, AloneInv, OneBusy, Busy, Exact, FreshInv
<1>3. ASSUME NEW h \in Handlers, Handle(h) PROVE CInv'
  BY <1>1, <1>3, ReadExpiredKeeps, WriteExpiredKeeps, ReadWalletKeeps, PreviewKeeps,
     ReadLotsKeeps, CommitKeeps, FindGrantKeeps, CreateGrantKeeps DEF Handle
<1>4. ASSUME NEW h \in Handlers, DbError(h) PROVE CInv'
  <2>1. UNCHANGED Rows /\ UNCHANGED overlapped
    BY <1>4 DEF DbError, Wallet, Rows
  <2>2. CASE req[h].step \in {"sweep.read", "sweep.write"}
    <3>1. AfterSweep(h)
      BY <1>4, <2>2 DEF DbError
    <3>2. QED
      BY <1>1, <2>1, <2>2, <3>1, SweepSkipped
  <2>3. CASE req[h].step \notin {"sweep.read", "sweep.write"}
    <3>1. Finish(h)
      BY <1>4, <2>3 DEF DbError
    <3>2. QED
      BY <1>1, <2>1, <3>1, Ends
  <2>4. QED
    BY <2>2, <2>3
<1>5. ASSUME NEW h \in Handlers, Crash(h) PROVE CInv'
  <2>1. Finish(h) /\ UNCHANGED Rows /\ UNCHANGED overlapped
    BY <1>5 DEF Crash, Wallet, Rows
  <2>2. QED
    BY <1>1, <2>1, Ends
<1>6. ASSUME NEW l \in Lots, Lapse(l) PROVE CInv'
  <2>1. UNCHANGED <<Rows, req, overlapped>>
    BY <1>6 DEF Lapse, Wallet, Rows
  <2>2. QED
    BY <1>2, <2>1
<1>7. CASE UNCHANGED vars
  <2>1. UNCHANGED <<Rows, req, overlapped>>
    BY <1>7 DEF vars, Rows
  <2>2. QED
    BY <1>2, <2>1
<1>8. QED
  BY <1>1, <1>3, <1>4, <1>5, <1>6, <1>7, StartKeeps DEF Next

\* The invariant holds throughout.
LEMMA Invariant == Spec => []CInv
BY InitCInv, NextCInv, PTL DEF Spec

\* However sweeps, redemptions and grants overlap, fail or crash, no lot loses
\* coins that no redeemed or expired row names, and none holds more than was
\* granted (the overwriting updates of redeemExtraCoins and expireExtraCoins).
THEOREM LotsNeverLost == Spec => []LotsCovered
<1>1. CInv => LotsCovered
  BY DEF CInv, AnyInv
<1>2. QED
  BY <1>1, Invariant, PTL

\* Requests that do not overlap leave every lot with exactly what no row took
\* from it, and redeem no booking and no payout twice.
THEOREM WalletAgrees == Spec => []AgreeUnlessOverlap
<1>1. CInv => AgreeUnlessOverlap
  <2>1. SUFFICES ASSUME CInv, ~overlapped
                 PROVE  /\ \A l \in Lots : remaining[l] = granted[l] - charged[l]
                        /\ \A k \in Keys : redeemed[k] <= 1
    BY DEF AgreeUnlessOverlap
  <2>2. Exact /\ RowsInv
    BY <2>1 DEF CInv, AnyInv, AloneInv
  <2>3. ASSUME NEW l \in Lots PROVE remaining[l] = granted[l] - charged[l]
    <3>1. remaining[l] + charged[l] = granted[l]
      BY <2>2 DEF Exact
    <3>2. remaining[l] \in Nat /\ charged[l] \in Nat /\ granted[l] \in Nat
      BY <2>2 DEF RowsInv
    <3>3. QED
      BY <3>1, <3>2
  <2>4. QED
    BY <2>2, <2>3 DEF Exact
<1>2. QED
  BY <1>1, Invariant, PTL

-----------------------------------------------------------------------------
(* The balance: what the rows of the wallet add up to                      *)

\* There are finitely many lots.
LEMMA LotsFinite == IsFiniteSet(Lots)
BY CoinConstants, FS_Interval DEF Lots

\* The fold SumOf is the sum over the lots.
LEMMA SumOfLots == ASSUME NEW f PROVE SumOf(f) = SumOver(f, Lots)
<1> DEFINE
      Body(iter) == [s \in SUBSET Lots |->
                       IF s = {} THEN 0
                       ELSE f[CHOOSE x \in s : TRUE] + iter[s \ {CHOOSE x \in s : TRUE}]]
      fold == CHOOSE iter : iter = Body(iter)
<1>1. SumOf(f) = fold[Lots]
  BY DEF SumOf, FoldFunctionOnSet, MapThenFoldSet
<1>2. \A g : g = Body(g) <=> Sums(g, f, Lots)
  BY DEF Sums, Pick
<1>3. fold = Body(fold)
  <2>1. \E g : g = Body(g)
    <3>1. PICK g : Sums(g, f, Lots)
      BY SumsExist, LotsFinite
    <3> HIDE DEF Body
    <3> QED BY <1>2, <3>1
  <2> HIDE DEF Body
  <2> QED BY <2>1
<1> HIDE DEF fold, Body
<1>4. Sums(fold, f, Lots)
  BY <1>2, <1>3
<1> QED BY <1>1, <1>4, SumsGive, LotsFinite

\* What lots hold, added up, is a number of coins.
LEMMA TotalTyped == ASSUME NEW f, \A l \in Lots : f[l] \in Nat PROVE SumOf(f) \in Nat
BY SumOfLots, SumNat, LotsFinite

\* An empty slot is a request.
LEMMA IdleTyped == Idle \in Requests
<1>1. 0 \in Coins /\ NoCoins \in [Lots -> Coins]
  BY CoinConstants DEF Coins, NoCoins
<1> QED BY <1>1 DEF Idle, Requests, Operations, Steps

\* A step that writes to one slot only.
LEMMA SlotTyped ==
    ASSUME TypeOK, NEW h \in Handlers, NEW r \in Requests, req' = [req EXCEPT ![h] = r]
    PROVE  req' \in [Handlers -> Requests]
BY DEF TypeOK

\* A request that ends leaves its slot empty.
LEMMA FinishTyped ==
    ASSUME TypeOK, NEW h \in Handlers, Finish(h)
    PROVE  req' \in [Handlers -> Requests]
BY SlotTyped, IdleTyped DEF Finish

\* A request that goes on is still a request.
LEMMA GoTyped ==
    ASSUME TypeOK, NEW h \in Handlers, NEW step \in Steps, Go(h, step)
    PROVE  req' \in [Handlers -> Requests]
<1>1. req \in [Handlers -> Requests] /\ req[h] \in Requests
  BY DEF TypeOK
<1>2. [req[h] EXCEPT !.step = step] \in Requests
  BY <1>1 DEF Requests
<1>3. req' = [req EXCEPT ![h] = [req[h] EXCEPT !.step = step]]
  BY <1>1 DEF Go
<1> QED BY <1>2, <1>3, SlotTyped

\* So it is after its sweep.
LEMMA SweepTyped ==
    ASSUME TypeOK, NEW h \in Handlers, AfterSweep(h)
    PROVE  req' \in [Handlers -> Requests]
<1>1. Finish(h) \/ \E step \in Steps : Go(h, step)
  BY DEF AfterSweep, Steps
<1> QED BY <1>1, FinishTyped, GoTyped

\* Requests that only read leave the wallet what it is.
LEMMA ReadsOnly ==
    ASSUME WalletInv, UNCHANGED <<Wallet, role, lapsed>>,
           req' \in [Handlers -> Requests], overlapped' \in BOOLEAN
    PROVE  TypeOK' /\ WalletMatchesHistory'
BY DEF WalletInv, TypeOK, WalletMatchesHistory, Wallet

\* What a query selects of the lots.
LEMMA SelectTyped == ASSUME TypeOK, NEW lots PROVE Select(lots) \in [Lots -> Coins]
<1>1. \A l \in Lots : remaining[l] \in Coins
  BY DEF TypeOK
<1>2. 0 \in Coins
  BY CoinConstants DEF Coins
<1> QED BY <1>1, <1>2 DEF Select

\* A number of coins a caller asked for, cut to what there is.
LEMMA SmallerTyped == ASSUME NEW a \in Coins, NEW b \in Nat PROVE Smaller(a, b) \in Coins
BY CoinConstants DEF Smaller, Coins

\* A request that comes in changes nothing of the wallet.
LEMMA StartWallet ==
    ASSUME WalletInv, NEW h \in Handlers, Start(h)
    PROVE  TypeOK' /\ WalletMatchesHistory'
<1>1. TypeOK
  BY DEF WalletInv
<1>2. PICK op \in Operations, key \in Keys \cup Lots \cup {0}, amount \in Coins :
        Begin(h, op, "sweep.read", key, amount) \/ Begin(h, op, "grant.find", key, amount)
  <2>1. \A b \in Bookings : promised[b] \in Coins
    BY <1>1 DEF TypeOK
  <2>2. 0 \in Coins
    BY CoinConstants DEF Coins
  <2> QED BY <2>1, <2>2 DEF Start, BeginPayoutRedeem, BeginBookingRedeem, BeginPreview,
       BeginAward, BeginGrant, BeginRead, Operations, Keys
<1>3. PICK step \in {"sweep.read", "grant.find"} : Begin(h, op, step, key, amount)
  BY <1>2
<1> DEFINE r == [Idle EXCEPT !.op = op, !.step = step, !.key = key, !.amount = amount]
<1>4. r \in Requests
  BY <1>3, IdleTyped DEF Requests, Steps
<1>5. /\ req' = [req EXCEPT ![h] = r] /\ UNCHANGED <<Wallet, role, lapsed>>
      /\ overlapped' \in BOOLEAN
  BY <1>1, <1>3 DEF Begin, TypeOK
<1> HIDE DEF r
<1>6. req' \in [Handlers -> Requests]
  BY <1>1, <1>4, <1>5, SlotTyped
<1> QED BY <1>5, <1>6, ReadsOnly

\* The steps that only move the request.
LEMMA ReadsWallet ==
    ASSUME WalletInv, NEW h \in Handlers,
           ReadExpired(h) \/ ReadWallet(h) \/ ReadLots(h) \/ FindGrant(h)
             \/ DbError(h) \/ Crash(h)
    PROVE  TypeOK' /\ WalletMatchesHistory'
<1>1. TypeOK /\ req[h] \in Requests /\ balance \in Int
  BY DEF WalletInv, TypeOK
<1>2. UNCHANGED <<Wallet, role, lapsed>> /\ overlapped' \in BOOLEAN
  BY <1>1 DEF ReadExpired, ReadWallet, ReadLots, FindGrant, DbError, Crash, TypeOK
<1> SUFFICES req' \in [Handlers -> Requests]
  BY <1>2, ReadsOnly
<1>3. CASE Finish(h)
  BY <1>1, <1>3, FinishTyped
<1>4. CASE AfterSweep(h)
  BY <1>1, <1>4, SweepTyped
<1>5. CASE Go(h, "grant.write")
  BY <1>1, <1>5, GoTyped DEF Steps
<1>6. ASSUME req' = [req EXCEPT ![h].step = "sweep.write", ![h].rows = Select(Expired)]
      PROVE  req' \in [Handlers -> Requests]
  <2>1. Select(Expired) \in [Lots -> Coins]
    BY <1>1, SelectTyped
  <2> QED BY <1>1, <1>6, <2>1 DEF TypeOK, Requests, Steps
<1>7. ASSUME balance > 0,
             req' = [req EXCEPT ![h].step = "lots", ![h].amount = Smaller(@, balance)]
      PROVE  req' \in [Handlers -> Requests]
  <2>1. Smaller(req[h].amount, balance) \in Coins
    BY <1>1, <1>7, SmallerTyped DEF Requests
  <2> QED BY <1>1, <1>7, <2>1 DEF TypeOK, Requests, Steps
<1>8. ASSUME NEW take \in Takes(Select(Unlapsed), req[h].amount),
             req' = [req EXCEPT ![h].step = "commit", ![h].rows = Select(Unlapsed),
                                ![h].take = take]
      PROVE  req' \in [Handlers -> Requests]
  <2>1. Select(Unlapsed) \in [Lots -> Coins]
    BY <1>1, SelectTyped
  <2>2. take \in [Lots -> Coins]
    BY <1>8 DEF Takes
  <2> QED BY <1>1, <1>8, <2>1, <2>2 DEF TypeOK, Requests, Steps
<1> QED BY <1>1, <1>3, <1>4, <1>5, <1>6, <1>7, <1>8
     DEF ReadExpired, ReadWallet, ReadLots, FindGrant, DbError, Crash

\* A preview only promises what the lots hold now.
LEMMA PreviewWallet ==
    ASSUME WalletInv, NEW h \in Handlers, PreviewLots(h)
    PROVE  TypeOK' /\ WalletMatchesHistory'
<1>1. TypeOK /\ req[h].amount \in Coins
  BY DEF WalletInv, TypeOK, Requests
<1>2. Select(Unlapsed) \in [Lots -> Coins]
  BY <1>1, SelectTyped
<1>3. SumOf(Select(Unlapsed)) \in Nat
  <2>1. \A l \in Lots : Select(Unlapsed)[l] \in Nat
    BY <1>2, CoinConstants DEF Coins
  <2> QED BY <2>1, TotalTyped
<1>4. Smaller(req[h].amount, SumOf(Select(Unlapsed))) \in Coins
  BY <1>1, <1>3, SmallerTyped
<1>5. promised' \in [Bookings -> Coins]
  BY <1>1, <1>4 DEF PreviewLots, TypeOK
<1>6. req' \in [Handlers -> Requests]
  BY <1>1, FinishTyped DEF PreviewLots
<1> QED BY <1>1, <1>5, <1>6 DEF PreviewLots, WalletInv, TypeOK, WalletMatchesHistory

\* Coins that leave the balance are charged to lots, in the same transaction.
LEMMA Charged ==
    ASSUME WalletInv, NEW take \in [Lots -> Coins],
           charged' = [l \in Lots |-> charged[l] + take[l]],
           balance' = balance - SumOf(take), granted' = granted
    PROVE  /\ WalletMatchesHistory'
           /\ balance' \in Int /\ charged' \in [Lots -> Nat]
<1>1. /\ balance \in Int /\ granted \in [Lots -> Coins] /\ charged \in [Lots -> Nat]
      /\ balance = SumOf(granted) - SumOf(charged)
  BY DEF WalletInv, TypeOK, WalletMatchesHistory
<1>2. \A l \in Lots : /\ granted[l] \in Nat /\ charged[l] \in Nat /\ take[l] \in Nat
                      /\ charged'[l] = charged[l] + take[l]
  BY <1>1, CoinConstants DEF Coins
<1>3. PICK g \in Nat, c \in Nat, t \in Nat :
        g = SumOf(granted) /\ c = SumOf(charged) /\ t = SumOf(take)
  BY <1>2, TotalTyped
<1>4. SumOf(charged') = c + t
  <2>1. \A l \in Lots : charged[l] \in Int /\ take[l] \in Int
                        /\ charged'[l] = charged[l] + take[l]
    BY <1>2
  <2>2. SumOver(charged', Lots) = SumOver(charged, Lots) + SumOver(take, Lots)
    BY <2>1, LotsFinite, SumPlus
  <2> QED BY <1>3, <2>2, SumOfLots
<1>5. balance' = g - (c + t)
  BY <1>1, <1>3
<1>6. balance' = SumOf(granted') - SumOf(charged')
  BY <1>3, <1>4, <1>5
<1>7. charged' \in [Lots -> Nat]
  <2>1. \A l \in Lots : charged[l] + take[l] \in Nat
    BY <1>2
  <2> QED BY <2>1
<1>8. g - (c + t) \in Int
  OBVIOUS
<1> QED BY <1>5, <1>6, <1>7, <1>8 DEF WalletMatchesHistory

\* The sweep charges what it expires.
LEMMA ExpireWallet ==
    ASSUME WalletInv, NEW h \in Handlers, WriteExpired(h)
    PROVE  TypeOK' /\ WalletMatchesHistory'
<1>1. TypeOK /\ req[h].rows \in [Lots -> Coins]
  BY DEF WalletInv, TypeOK, Requests
<1>2. /\ WalletMatchesHistory'
      /\ balance' \in Int /\ charged' \in [Lots -> Nat]
  BY <1>1, Charged DEF WriteExpired, Expire
<1>3. remaining' \in [Lots -> Coins]
  <2>1. 0 \in Coins /\ \A l \in Lots : remaining[l] \in Coins
    BY <1>1, CoinConstants DEF TypeOK, Coins
  <2> QED BY <2>1 DEF WriteExpired, Expire
<1>4. req' \in [Handlers -> Requests]
  BY <1>1, SweepTyped DEF WriteExpired
<1> QED BY <1>1, <1>2, <1>3, <1>4 DEF WriteExpired, TypeOK

\* A redemption charges what it takes.
LEMMA CommitWallet ==
    ASSUME CInv, WalletInv, NEW h \in Handlers, CommitRedeem(h)
    PROVE  TypeOK' /\ WalletMatchesHistory'
<1>1. TypeOK /\ req[h].rows \in [Lots -> Coins] /\ req[h].take \in [Lots -> Coins]
  BY DEF WalletInv, TypeOK, Requests
<1>2. \A l \in Lots : req[h].take[l] <= req[h].rows[l]
  BY DEF CInv, AnyInv, Right, TakeInv, CommitRedeem
<1>3. /\ WalletMatchesHistory'
      /\ balance' \in Int /\ charged' \in [Lots -> Nat]
  BY <1>1, Charged DEF CommitRedeem, WriteLots
<1>4. remaining' \in [Lots -> Coins]
  <2>1. \A l \in Lots : /\ remaining[l] \in Coins
                        /\ req[h].rows[l] - req[h].take[l] \in Coins
    BY <1>1, <1>2, CoinConstants DEF TypeOK, Coins
  <2> QED BY <2>1 DEF CommitRedeem, WriteLots
<1>5. redeemed' \in [Keys -> Nat]
  <2>1. req[h].key \in Keys /\ redeemed \in [Keys -> Nat]
    BY DEF CInv, AnyInv, RowsInv, Right, PathInv, CommitRedeem
  <2>2. redeemed' = [redeemed EXCEPT ![req[h].key] = redeemed[req[h].key] + 1]
    BY DEF CommitRedeem
  <2> QED BY <2>1, <2>2
<1>6. req' \in [Handlers -> Requests]
  BY <1>1, FinishTyped DEF CommitRedeem
<1> QED BY <1>1, <1>3, <1>4, <1>5, <1>6 DEF CommitRedeem, TypeOK

\* A grant adds to the balance what it adds to its lot, if it issues the lot.
LEMMA GrantWallet ==
    ASSUME CInv, WalletInv, NEW h \in Handlers, CreateGrant(h)
    PROVE  TypeOK' /\ WalletMatchesHistory'
<1> DEFINE l == req[h].key
           coins == req[h].amount
<1>1. /\ TypeOK /\ coins \in Coins /\ balance \in Int
      /\ granted \in [Lots -> Coins] /\ remaining \in [Lots -> Coins]
      /\ charged \in [Lots -> Nat]
      /\ balance = SumOf(granted) - SumOf(charged)
  BY DEF WalletInv, TypeOK, Requests, WalletMatchesHistory
<1>2. l \in Lots
  BY DEF CInv, AnyInv, Right, PathInv, CreateGrant
<1>3. /\ granted' = IF granted[l] = 0 THEN [granted EXCEPT ![l] = coins] ELSE granted
      /\ remaining' = IF granted[l] = 0 THEN [remaining EXCEPT ![l] = coins] ELSE remaining
      /\ balance' = IF granted[l] = 0 THEN balance + coins ELSE balance
      /\ UNCHANGED <<charged, redeemed, promised, role, lapsed, overlapped>>
  BY DEF CreateGrant
<1>4. req' \in [Handlers -> Requests]
  BY <1>1, FinishTyped DEF CreateGrant
<1> HIDE DEF l, coins
<1>5. CASE granted[l] # 0
  BY <1>1, <1>3, <1>4, <1>5 DEF TypeOK, WalletMatchesHistory
<1>6. CASE granted[l] = 0
  <2>1. granted' \in [Lots -> Coins] /\ remaining' \in [Lots -> Coins]
    BY <1>1, <1>2, <1>3, <1>6
  <2>2. \A m \in Lots : granted[m] \in Nat /\ granted'[m] \in Nat /\ charged[m] \in Nat
    BY <1>1, <2>1, CoinConstants DEF Coins
  <2>3. PICK g \in Nat, c \in Nat : g = SumOf(granted) /\ c = SumOf(charged)
    BY <2>2, TotalTyped
  <2>4. PICK n \in Nat : n = coins
    BY <1>1, CoinConstants DEF Coins
  <2>5. granted'[l] = n /\ \A m \in Lots \ {l} : granted'[m] = granted[m]
    BY <1>1, <1>2, <1>3, <1>6, <2>4
  <2>6. SumOf(granted') = g + n
    <3>1. \A m \in Lots : granted[m] \in Int /\ granted'[m] \in Int
      BY <2>2
    <3>2. SumOver(granted', Lots) = SumOver(granted, Lots) - granted[l] + granted'[l]
      BY <1>2, <2>5, <3>1, LotsFinite, SumChange
    <3>3. SumOver(granted', Lots) = g - 0 + n
      BY <1>6, <2>3, <2>5, <3>2, SumOfLots
    <3> QED BY <3>3, SumOfLots
  <2>7. balance' = g - c + n
    BY <1>1, <1>3, <1>6, <2>3, <2>4
  <2>8. g - c + n = g + n - c /\ g - c + n \in Int
    OBVIOUS
  <2>9. WalletMatchesHistory'
    BY <1>3, <2>3, <2>6, <2>7, <2>8 DEF WalletMatchesHistory
  <2> QED BY <1>1, <1>3, <1>4, <2>1, <2>7, <2>8, <2>9 DEF TypeOK
<1> QED BY <1>5, <1>6

\* Every step keeps the balance and the rows together.
LEMMA WalletStep == CInv /\ CInv' /\ WalletInv /\ [Next]_vars => WalletInv'
<1> SUFFICES ASSUME CInv, CInv', WalletInv, [Next]_vars PROVE WalletInv'
  OBVIOUS
<1>1. LotsCovered'
  BY DEF CInv, AnyInv
<1>2. CASE UNCHANGED vars
  BY <1>1, <1>2 DEF vars, WalletInv, TypeOK, WalletMatchesHistory
<1>3. ASSUME NEW h \in Handlers, Start(h) \/ Handle(h) \/ DbError(h) \/ Crash(h)
      PROVE  TypeOK' /\ WalletMatchesHistory'
  BY <1>3, StartWallet, ReadsWallet, PreviewWallet, ExpireWallet, CommitWallet, GrantWallet
     DEF Handle
<1>4. ASSUME NEW l \in Lots, Lapse(l) PROVE TypeOK' /\ WalletMatchesHistory'
  BY <1>4 DEF Lapse, WalletInv, TypeOK, WalletMatchesHistory, Wallet
<1> QED BY <1>1, <1>2, <1>3, <1>4 DEF Next, WalletInv

\* An empty wallet adds up.
LEMMA WalletInit == Init => WalletInv
<1> SUFFICES ASSUME Init PROVE WalletInv
  OBVIOUS
<1>1. 0 \in Coins /\ NoCoins \in [Lots -> Coins] /\ NoCoins \in [Lots -> Nat]
  BY CoinConstants DEF Coins, NoCoins
<1>2. TypeOK
  <2>1. /\ req \in [Handlers -> Requests] /\ redeemed \in [Keys -> Nat]
        /\ promised \in [Bookings -> Coins]
    BY <1>1, IdleTyped DEF Init
  <2>2. overlapped \in BOOLEAN
    BY DEF Init
  <2> QED BY <1>1, <2>1, <2>2 DEF Init, TypeOK
<1>3. SumOf(NoCoins) = 0
  BY SumOfLots, SumZero, LotsFinite DEF NoCoins
<1>4. WalletMatchesHistory
  BY <1>3 DEF Init, WalletMatchesHistory
<1>5. LotsCovered
  BY InitCInv DEF CInv, AnyInv
<1> QED BY <1>2, <1>4, <1>5 DEF WalletInv

\* The wallet's balance is every coin earned that no redeemed or expired row
\* took, and no lot is short of coins, for any number of lots, coins, keys and
\* requests, whichever of them overlap, fail or crash.
THEOREM WalletRight == Spec => []WalletInv
BY Invariant, WalletInit, WalletStep, PTL DEF Spec
=============================================================================
