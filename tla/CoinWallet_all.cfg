CONSTANTS
    NumLots = 2
    MaxCoins = 2
    b1 = b1
    b2 = b2
    p1 = p1
    h1 = h1
    h2 = h2
    Bookings = {b1, b2}
    Payouts = {p1}
    Handlers = {h1, h2}
    Faults = {"crash", "dbError"}
SPECIFICATION Spec
CONSTRAINT ChargedBound
SYMMETRY Symmetry
INVARIANTS
  WalletInv
  AgreeUnlessOverlap
