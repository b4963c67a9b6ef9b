CONSTANTS
  Nobody = Nobody
  Dead = Dead
  Escrows = {e1, d1}
  Duplicates = {d1}
  Handlers = {h1}
  Schedulers = {s1}
  MaxAttempts = 2
  MaxCrashes = 1
  Operations = {"capture", "direct", "webhook", "payout"}
  Faults = {"gatewayError", "taskServiceRejects"}
SPECIFICATION FairSpec
INVARIANTS
  ToldOnce
PROPERTIES
  ReleasedKept
  EveryRefundEnds
