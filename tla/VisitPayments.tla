---------------------------- MODULE VisitPayments ----------------------------
(***************************************************************************)
(* What the payments of recurring visits promise, whatever the locks and   *)
(* the order of webhooks: each order is open until its payment becomes the *)
(* visit's payment (bound), or is rejected because the visit already has   *)
(* one; the money of a bound, rejected or open order can be returned once. *)
(***************************************************************************)
CONSTANTS Escrows, Visits, NoVisit

VARIABLES visit,   \* the visit each order was made for
          state    \* what became of each order

pvars == <<visit, state>>

PInit == /\ visit = [e \in Escrows |-> NoVisit]
         /\ state = [e \in Escrows |-> "open"]

Bound(v) == {e \in Escrows : visit[e] = v /\ state[e] = "bound"}

Settles(e, from, to) ==
    /\ state[e] \in from
    /\ state' = [state EXCEPT ![e] = to]
    /\ UNCHANGED visit

\* No order is made for a visit that has a payment.
Order(e, v) == /\ visit[e] = NoVisit
               /\ Bound(v) = {}
               /\ visit' = [visit EXCEPT ![e] = v]
               /\ UNCHANGED state

Bind(e)   == /\ visit[e] # NoVisit
             /\ Bound(visit[e]) = {}
             /\ Settles(e, {"open"}, "bound")
Reject(e) == Bound(visit[e]) # {} /\ Settles(e, {"open"}, "rejected")
Return(e) == Settles(e, {"open", "bound", "rejected"}, "returned")

PNext == \E e \in Escrows :
    \/ \E v \in Visits : Order(e, v)
    \/ Bind(e) \/ Reject(e) \/ Return(e)

PSpec == PInit /\ [][PNext]_pvars
=============================================================================
