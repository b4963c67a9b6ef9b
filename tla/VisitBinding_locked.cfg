CONSTANTS
  NoPayment = NoPayment
  NoVisit = NoVisit
  Free = Free
  Dead = Dead
  Escrows = {e1, e2, e3}
  Visits = {v1}
  Handlers = {h1, h2}
  Operations = {"capture", "order", "refund", "event", "payout"}
  Faults = {"crash"}
SPECIFICATION Spec
SYMMETRY Symmetry
CHECK_DEADLOCK FALSE
INVARIANTS
  TypeOK
  OneBoundPayment
  OneActiveOrder
PROPERTIES
  PaidOrdersKept
  KeepsPromise
