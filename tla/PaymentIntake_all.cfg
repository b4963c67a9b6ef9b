CONSTANTS
    o1 = o1
    o2 = o2
    p1 = p1
    p2 = p2
    h1 = h1
    h2 = h2
    k1 = k1
    NoPayment = NoPayment
    NoKey = NoKey
    Orders = {o1, o2}
    Payments = {p1, p2}
    Keys = {k1}
    Handlers = {h1, h2}
    Subscribed = {"captured", "failed"}
    Faults = {"crash", "dbError", "lostCall", "rejected"}
SPECIFICATION Spec
CHECK_DEADLOCK FALSE
CONSTRAINTS TwoAreKeyed FewAfterFault
SYMMETRY Symmetry
INVARIANTS
  IntakeInv
  BookedExactlyOnce
  FollowedUp
  ProcessedIsApplied
