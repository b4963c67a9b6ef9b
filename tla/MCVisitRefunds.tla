---------------------------- MODULE MCVisitRefunds ----------------------------
EXTENDS VisitRefunds, TLC
Symmetry == Permutations(Handlers)
=============================================================================
