---------------------------- MODULE MCCoinWallet ----------------------------
\* A small wallet: two lots, two bookings or payouts, two requests at a time.
EXTENDS CoinWallet, TLC

CONSTANTS b1, b2, p1, h1, h2

Symmetry == Permutations({b1, b2}) \cup Permutations({h1, h2})

\* Bound: how often overlapping requests charge one lot, redeem one key.
ChargedBound == (\A l \in Lots : charged[l] <= 2 * MaxCoins) /\ (\A k \in Keys : redeemed[k] <= 2)
=============================================================================
