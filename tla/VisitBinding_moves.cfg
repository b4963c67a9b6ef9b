CONSTANTS
  NoPayment = NoPayment
  NoVisit = NoVisit
  Free = Free
  Dead = Dead
  Escrows = {e1, e2}
  Visits = {v1, v2}
  Handlers = {h1, h2}
  Operations = {"capture", "order", "refund", "event", "payout", "reassign"}
  Faults = {"readError", "lockExpiry"}
SPECIFICATION Spec
SYMMETRY Symmetry
CHECK_DEADLOCK FALSE
PROPERTIES
  OnlyHeldPaymentsMove
