-------------------------- MODULE MCEscrowLifecycle --------------------------
EXTENDS EscrowLifecycle, TLC
Symmetry == Permutations(Handlers) \cup Permutations(Payments)
=============================================================================
