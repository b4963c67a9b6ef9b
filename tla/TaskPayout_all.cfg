CONSTANTS
  NoPayout = NoPayout
  Tasks = {t1, t2}
  Direct = {}
  Recurring = {t2}
  BookNow = {t1}
  Payouts = {i1, i2}
  Handlers = {h1, h2}
  Amount = 2
  Fee = 1
  CoinCap = 1
  MaxPaid = 3
  NumPenalties = 1
  PenaltyAmount = 2
  Modes = {"manual", "razorpayx"}
  Operations = {"refund", "raiseIssue", "adminHold", "adminStatus"}
  Faults = {"crash", "dbError", "lostReply"}
SPECIFICATION Spec
SYMMETRY Symmetry
CHECK_DEADLOCK FALSE
INVARIANTS
  TypeOK
  UnclaimedUnpaid
  OnePayout
  PaidWithinHeld
  NeverForgiven
