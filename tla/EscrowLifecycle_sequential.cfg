CONSTANTS
  NoPayment = NoPayment
  Handlers = {h1}
  Payments = {p1, p2}
  Amount = 2
  MaxCaptures = 1
  Endpoints = {"paymentEvent", "cancel", "refund", "payout", "taskPayout"}
  Faults = {"earlySettlement", "bankError", "gatewayError"}
SPECIFICATION FairSpec
CHECK_DEADLOCK FALSE
INVARIANTS
  Solvent
PROPERTIES
  CancelReturnsMoney
  RefundIsDue
  ClaimResolves
