----------------------------- MODULE MCTaskPayout -----------------------------
EXTENDS TaskPayout, TLC
Symmetry == Permutations(Handlers) \cup Permutations(Payouts)
=============================================================================
