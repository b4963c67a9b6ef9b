--------------------------- MODULE MCPaymentIntake ---------------------------
\* One order that is paid with up to two attempts, or two that are made under
\* one key; two requests at a time.
EXTENDS PaymentIntake, TLC

CONSTANTS o1, o2, p1, p2, h1, h2, k1

Symmetry == Permutations({p1, p2}) \cup Permutations({h1, h2})

\* Bound: two orders are made only under the key, for a task, and stay unpaid.
TwoAreKeyed ==
    \/ Unused(o2)
    \/ /\ \A p \in Payments : gateway[p].state = "none"
       /\ \A o \in Orders : order[o].kind # "none" => order[o].kind = "task" /\ order[o].key = k1
       /\ \A h \in Handlers : ~At(h, "idle") => req[h].wants.kind = "task" /\ req[h].wants.key = k1

\* Bound: once something failed, no second payment attempt.
FewAfterFault ==
    faulted # {} => Cardinality({p \in Payments : gateway[p].state # "none"}) <= 1
=============================================================================
