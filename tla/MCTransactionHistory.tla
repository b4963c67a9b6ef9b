------------------------ MODULE MCTransactionHistory ------------------------
(* A Book Now booking of two services, two counter-offer orders of one     *)
(* marketplace task, a payout of the booking and one without an escrow.    *)
EXTENDS TransactionHistory, TLC

MCTask == [book |-> "clean", first |-> "move", second |-> "move"]
MCLines == [book |-> 2, first |-> 0, second |-> 0]
MCAmount == [book |-> 4, first |-> 5, second |-> 7]
MCEscrowOf == [pbook |-> "book", direct |-> "none"]
MCPrepaid == <<"book", "first">>
Symmetry == Permutations(Refunds)

Asks(user, type, status, offset) ==
  [user |-> user, type |-> type, status |-> status, category |-> "all", offset |-> offset, limit |-> 20]
MCRequests == {
  Asks("poster", "any", "any", 0), Asks("helper", "any", "any", 0),
  Asks("helper", "payout", "completed", 0), Asks("helper", "any", "any", 1),
  [Asks("poster", "refund", "any", 0) EXCEPT !.category = "payments"]}
=============================================================================
