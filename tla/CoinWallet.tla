------------------------------ MODULE CoinWallet ------------------------------
(***************************************************************************)
(* The ExtraCoins wallet of one user in one role: extraCoinsService.ts and *)
(* rewards/grants/GrantExecutor.ts.                                        *)
(*                                                                         *)
(* Coins are kept twice: as the balance of the ExtraCoinWallet row, and as *)
(* what remains of each earned ExtraCoinTransaction row (a lot).  Every    *)
(* write moves both in one transaction, but the amounts it writes were     *)
(* read before: the balance is decremented, a lot is overwritten.          *)
(*                                                                         *)
(* A lot is named by the idempotency key of its grant; lots are numbered   *)
(* in the order in which they expire, the order redemption uses them in.   *)
(* One coin is worth one rupee (COIN_VALUE_INR), so a row has one amount.  *)
(***************************************************************************)
EXTENDS Integers, FiniteSets, Functions

CONSTANTS
    NumLots,    \* bound: grants that may be issued
    MaxCoins,   \* bound: most coins of one grant, and most a caller asks for
    Bookings,   \* escrows whose coins are redeemed when they are captured
    Payouts,    \* payout ids: generatePayoutId() makes a new one per attempt
    Handlers,   \* slots: requests in flight, on any instance
    Faults      \* subset of {"crash", "dbError"}

ASSUME CoinConstants ==
    /\ NumLots \in Nat
    /\ MaxCoins \in Nat
    /\ Bookings \cap Payouts = {}

Lots == 1..NumLots
Keys == Bookings \cup Payouts
Coins == 0..MaxCoins
NoCoins == [l \in Lots |-> 0]
Roles == {"poster", "tasker"}

VARIABLES
    role,       \* walletRole of the wallet
    balance,    \* ExtraCoinWallet.balanceRupees
    granted,    \* rupeeValue of each earned row, 0 before it is issued
    remaining,  \* remainingRupees of each earned row
    lapsed,     \* lots whose expiresAt has passed
    charged,    \* what redeemed and expired rows took from each lot (metadata)
    redeemed,   \* redeemed rows of each key
    promised,   \* discount an order was given for coins it expects to redeem
    req,        \* the request in each slot
    overlapped  \* history: two requests that read and write lots overlapped

vars == <<role, balance, granted, remaining, lapsed, charged, redeemed, promised, req, overlapped>>

Operations == {"redeem", "preview", "award", "read", "grant"}
Steps == {"idle", "sweep.read", "sweep.write", "wallet", "lots", "commit", "grant.find", "grant.write"}

Idle == [op |-> "read", step |-> "idle", key |-> 0, amount |-> 0, rows |-> NoCoins, take |-> NoCoins]

Requests ==
    [op : Operations, step : Steps, key : Keys \cup Lots \cup {0}, amount : Coins,
     rows : [Lots -> Coins], take : [Lots -> Coins]]

TypeOK ==
    /\ role \in Roles
    /\ balance \in Int
    /\ granted \in [Lots -> Coins]
    /\ remaining \in [Lots -> Coins]
    /\ lapsed \subseteq Lots
    /\ charged \in [Lots -> Nat]
    /\ redeemed \in [Keys -> Nat]
    /\ promised \in [Bookings -> Coins]
    /\ req \in [Handlers -> Requests]
    /\ overlapped \in BOOLEAN

Init ==
    /\ role \in Roles
    /\ balance = 0
    /\ granted = NoCoins
    /\ remaining = NoCoins
    /\ lapsed = {}
    /\ charged = NoCoins
    /\ redeemed = [k \in Keys |-> 0]
    /\ promised = [b \in Bookings |-> 0]
    /\ req = [h \in Handlers |-> Idle]
    /\ overlapped = FALSE

-------------------------------------------------------------------------------
Smaller(a, b) == IF a <= b THEN a ELSE b
SumOf(f) == FoldFunctionOnSet(+, 0, f, Lots)

\* What the rows a query selects still hold.
Select(lots) == [l \in Lots |-> IF l \in lots THEN remaining[l] ELSE 0]
Unlapsed == {l \in Lots \ lapsed : remaining[l] > 0}
Expired == {l \in lapsed : remaining[l] > 0}

\* Every way to take want from rows, soonest to expire first: there is one.
Takes(rows, want) ==
    {t \in [Lots -> Coins] :
        /\ \A l \in Lots : t[l] <= rows[l]
        /\ \A l, m \in Lots : l < m /\ t[m] > 0 => t[l] = rows[l]
        /\ SumOf(t) = Smaller(want, SumOf(rows))}

Busy(h) == req[h].step # "idle" /\ req[h].op # "grant"
Go(h, step) == req' = [req EXCEPT ![h].step = step]
Finish(h) == req' = [req EXCEPT ![h] = Idle]
Wallet == <<balance, granted, remaining, charged, redeemed, promised>>

Begin(h, op, step, key, amount) ==
    /\ req[h].step = "idle"
    /\ req' = [req EXCEPT ![h] = [Idle EXCEPT !.op = op, !.step = step, !.key = key, !.amount = amount]]
    /\ overlapped' = (overlapped \/ (op # "grant" /\ \E g \in Handlers : Busy(g)))
    /\ UNCHANGED <<Wallet, role, lapsed>>

\* A payout redeems under an id of its own, made for this attempt.
BeginPayoutRedeem(h, k, cap) ==
    /\ role = "tasker"
    /\ redeemed[k] = 0
    /\ \A g \in Handlers : req[g].key # k
    /\ Begin(h, "redeem", "sweep.read", k, cap)

\* Wrong on purpose: the redeemed row is not looked for.
BeginBookingRedeem_Unchecked(h, b) ==
    /\ role = "poster"
    /\ promised[b] > 0
    /\ Begin(h, "redeem", "sweep.read", b, promised[b])

\* A capture redeems the promised discount: once for the webhook, once for
\* the verify call, and again whenever either repeats, until a row is found.
BeginBookingRedeem(h, b) ==
    /\ role = "poster"
    /\ promised[b] > 0
    /\ redeemed[b] = 0
    /\ Begin(h, "redeem", "sweep.read", b, promised[b])

\* Checkout asks how many coins the order may expect to redeem.
BeginPreview(h, b, cap) ==
    /\ role = "poster"
    /\ promised[b] = 0
    /\ \A g \in Handlers : req[g].key # b
    /\ Begin(h, "preview", "sweep.read", b, cap)

\* A completed task awards coins, a due grant is issued, the wallet is shown.
BeginAward(h, l, coins) == role = "tasker" /\ Begin(h, "award", "sweep.read", l, coins)
BeginGrant(h, l, coins) == Begin(h, "grant", "grant.find", l, coins)
BeginRead(h) == Begin(h, "read", "sweep.read", 0, 0)

\* What a request does once its sweep is over, also when the sweep failed.
AfterSweep(h) ==
    CASE req[h].op \in {"redeem", "preview"} /\ req[h].amount > 0 -> Go(h, "wallet")
      [] req[h].op = "award" -> Go(h, "grant.find")
      [] OTHER -> Finish(h)

ReadExpired(h) ==
    /\ req[h].step = "sweep.read"
    /\ IF Expired = {}
       THEN AfterSweep(h)
       ELSE req' = [req EXCEPT ![h].step = "sweep.write", ![h].rows = Select(Expired)]
    /\ UNCHANGED <<Wallet, role, lapsed, overlapped>>

\* Wrong on purpose: the balance keeps the coins that expired.
Expire_Partly(rows) ==
    /\ remaining' = [l \in Lots |-> IF rows[l] > 0 THEN 0 ELSE remaining[l]]
    /\ charged' = [l \in Lots |-> charged[l] + rows[l]]
    /\ balance' = balance

\* One transaction: the lots read are emptied, what they held leaves the balance.
Expire(rows) ==
    /\ remaining' = [l \in Lots |-> IF rows[l] > 0 THEN 0 ELSE remaining[l]]
    /\ charged' = [l \in Lots |-> charged[l] + rows[l]]
    /\ balance' = balance - SumOf(rows)

WriteExpired(h) ==
    /\ req[h].step = "sweep.write"
    /\ Expire(req[h].rows)
    /\ AfterSweep(h)
    /\ UNCHANGED <<granted, redeemed, promised, role, lapsed, overlapped>>

ReadWallet(h) ==
    /\ req[h].step = "wallet"
    /\ IF balance <= 0
       THEN Finish(h)
       ELSE req' = [req EXCEPT ![h].step = "lots", ![h].amount = Smaller(@, balance)]
    /\ UNCHANGED <<Wallet, role, lapsed, overlapped>>

PreviewLots(h) ==
    /\ req[h].step = "lots"
    /\ req[h].op = "preview"
    /\ promised' = [promised EXCEPT ![req[h].key] = Smaller(req[h].amount, SumOf(Select(Unlapsed)))]
    /\ Finish(h)
    /\ UNCHANGED <<balance, granted, remaining, charged, redeemed, role, lapsed, overlapped>>

ReadLots(h) ==
    /\ req[h].step = "lots"
    /\ req[h].op = "redeem"
    /\ IF Unlapsed = {}
       THEN Finish(h)
       ELSE \E take \in Takes(Select(Unlapsed), req[h].amount) :
                req' = [req EXCEPT ![h].step = "commit", ![h].rows = Select(Unlapsed), ![h].take = take]
    /\ UNCHANGED <<Wallet, role, lapsed, overlapped>>

\* Wrong on purpose: a lot that is used is emptied.
WriteLots_Emptied(rows, take) ==
    /\ remaining' = [l \in Lots |-> IF take[l] > 0 THEN 0 ELSE remaining[l]]
    /\ charged' = [l \in Lots |-> charged[l] + take[l]]

\* Wrong on purpose: the coins taken are added.
WriteLots_Restored(rows, take) ==
    /\ remaining' = [l \in Lots |-> IF take[l] > 0 THEN rows[l] + take[l] ELSE remaining[l]]
    /\ charged' = [l \in Lots |-> charged[l] + take[l]]

\* What a redemption writes to the lots it used: what it read less what it took.
WriteLots(rows, take) ==
    /\ remaining' = [l \in Lots |-> IF take[l] > 0 THEN rows[l] - take[l] ELSE remaining[l]]
    /\ charged' = [l \in Lots |-> charged[l] + take[l]]

CommitRedeem(h) ==
    /\ req[h].step = "commit"
    /\ WriteLots(req[h].rows, req[h].take)
    /\ redeemed' = [redeemed EXCEPT ![req[h].key] = @ + 1]
    /\ balance' = balance - SumOf(req[h].take)
    /\ Finish(h)
    /\ UNCHANGED <<granted, promised, role, lapsed, overlapped>>

FindGrant(h) ==
    /\ req[h].step = "grant.find"
    /\ IF granted[req[h].key] > 0 \/ req[h].amount = 0 THEN Finish(h) ELSE Go(h, "grant.write")
    /\ UNCHANGED <<Wallet, role, lapsed, overlapped>>

\* The key is unique: of two grants that found none, one is a duplicate (P2002).
\* A new lot expires in the future.
CreateGrant(h) ==
    LET l == req[h].key
        coins == req[h].amount
        first == granted[l] = 0 IN
    /\ req[h].step = "grant.write"
    /\ \A m \in Lots : m >= l => m \notin lapsed
    /\ granted' = IF first THEN [granted EXCEPT ![l] = coins] ELSE granted
    /\ remaining' = IF first THEN [remaining EXCEPT ![l] = coins] ELSE remaining
    /\ balance' = IF first THEN balance + coins ELSE balance
    /\ Finish(h)
    /\ UNCHANGED <<charged, redeemed, promised, role, lapsed, overlapped>>

-------------------------------------------------------------------------------
\* The lots expire in their order.
Lapse(l) ==
    /\ granted[l] > 0
    /\ \A m \in Lots : m < l /\ granted[m] > 0 => m \in lapsed
    /\ lapsed' = lapsed \cup {l}
    /\ UNCHANGED <<Wallet, role, req, overlapped>>

\* A failed query ends the request; expireExtraCoins returns its failure and
\* no caller looks at it.
DbError(h) ==
    /\ "dbError" \in Faults
    /\ req[h].step # "idle"
    /\ IF req[h].step \in {"sweep.read", "sweep.write"} THEN AfterSweep(h) ELSE Finish(h)
    /\ UNCHANGED <<Wallet, role, lapsed, overlapped>>

Crash(h) ==
    /\ "crash" \in Faults
    /\ req[h].step # "idle"
    /\ Finish(h)
    /\ UNCHANGED <<Wallet, role, lapsed, overlapped>>

Start(h) ==
    \/ \E k \in Payouts, cap \in Coins : BeginPayoutRedeem(h, k, cap)
    \/ \E b \in Bookings : BeginBookingRedeem(h, b)
    \/ \E b \in Bookings, cap \in Coins : BeginPreview(h, b, cap)
    \/ \E l \in Lots, coins \in Coins : BeginAward(h, l, coins) \/ BeginGrant(h, l, coins)
    \/ BeginRead(h)

Handle(h) ==
    \/ ReadExpired(h)
    \/ WriteExpired(h)
    \/ ReadWallet(h)
    \/ PreviewLots(h)
    \/ ReadLots(h)
    \/ CommitRedeem(h)
    \/ FindGrant(h)
    \/ CreateGrant(h)

Next ==
    \/ \E h \in Handlers : Start(h) \/ Handle(h) \/ DbError(h) \/ Crash(h)
    \/ \E l \in Lots : Lapse(l)

Spec == Init /\ [][Next]_vars

-------------------------------------------------------------------------------
\* The wallet shown to the user is what its rows add up to: every coin earned
\* that no redeemed or expired row took, whichever requests overlapped
\* (GrantExecutor's upsert, the sweep's and the redemption's decrements).
WalletMatchesHistory == balance = SumOf(granted) - SumOf(charged)

\* Overlapping sweeps and redemptions overwrite each other's lots.  Whatever
\* they do, a lot never holds more than was granted, and never less than the
\* rows that name it left: coins are not lost from a lot.
LotsCovered ==
    \A l \in Lots :
        /\ remaining[l] <= granted[l]
        /\ granted[l] - charged[l] <= remaining[l]

\* Requests that do not overlap keep the two accounts of the coins equal, with
\* grants coming in, lots lapsing, queries failing and processes crashing at
\* any point: no lot is charged twice, and a capture that is delivered again
\* redeems no second time.
AgreeUnlessOverlap ==
    ~overlapped =>
        /\ \A l \in Lots : remaining[l] = granted[l] - charged[l]
        /\ \A k \in Keys : redeemed[k] <= 1

\* What holds of the wallet however its requests overlap.
WalletInv == TypeOK /\ WalletMatchesHistory /\ LotsCovered
=============================================================================
