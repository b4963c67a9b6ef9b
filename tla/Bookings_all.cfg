SPECIFICATION BookingSpec
CONSTANTS
  Instances = {i1, i2}
  LookupKeys <- MCLookupKeys
  Forced18 = {}
  DEFAULT <- MCDefault
  Structures <- MCStructures
  CategoryRows <- MCAllRows
  FirstRows <- MCFirstRows
  TTL = 10
  Moments = {1445, 1440, 1430, 60}
  MaxChanges = 1
  Failures = {"dbDown", "breakOff"}
  Kinds = {"bidding", "book_now"}
  Services <- MCServices
  Price <- MCPrice
  CategoryOf <- MCCategoryOf
  Group = "appliance_repair"
  Task = 49999
  TaskCategory = "cleaning"
  Offers <- MCOffers
  CapPercent = 1000
  RefundCalls = {h1, h2}
  MaxCalls = 2
  WholeBooking = WholeBooking
VIEW View
SYMMETRY Symmetry
CHECK_DEADLOCK FALSE
INVARIANTS
  ChargesHold
  ToldIsMet
  BookingAddsUp
