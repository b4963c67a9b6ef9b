---------------------------- MODULE MCVisitBinding ----------------------------
EXTENDS VisitBinding, TLC
Symmetry == Permutations(Escrows) \cup Permutations(Visits) \cup Permutations(Handlers)
=============================================================================
