----------------------------- MODULE MCEarnings -----------------------------
(* One helper with a Book Now payout and a compensation.                   *)
EXTENDS Earnings, TLC

MCOwner == [book |-> "helper", fee |-> "helper"]
MCAmount == [book |-> 1, fee |-> 2]
=============================================================================
