SPECIFICATION FairSpec
CONSTANTS
  Users = {"helper"}
  Payouts = {"book"}
  BookNow = {"book"}
  Compensations = {"fee"}
  Owner <- MCOwner
  Amount <- MCAmount
  Movers = {m1, m2}
  Slots = {s1}
  Reached = {"processing", "completed"}
  MaxMoves = 2
  Faults = {"lostUpdate", "recalculationFails"}
CHECK_DEADLOCK FALSE
INVARIANTS
  RowInv
PROPERTIES
  SelfHeals
