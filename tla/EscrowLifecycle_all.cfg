CONSTANTS
  NoPayment = NoPayment
  Handlers = {h1, h2}
  Payments = {p1, p2}
  Amount = 2
  MaxCaptures = 1
  Endpoints = {"paymentEvent", "cancel", "refund", "payout", "taskPayout"}
  Faults = {"crash", "gatewayError", "lostReply", "bankError", "dbError"}
SPECIFICATION Spec
SYMMETRY Symmetry
CHECK_DEADLOCK FALSE
INVARIANTS
  TypeOK
  PaidOutOnce
  HeldIsUnpaid
PROPERTIES
  CaptureIsFinal
  RefundIsFinal
