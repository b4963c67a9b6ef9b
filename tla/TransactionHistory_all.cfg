SPECIFICATION HistorySpec
CONSTANTS
  Escrows = {"book", "first", "second"}
  HelperPayouts = {"pbook", "direct"}
  Refunds = {r1, r2}
  Task <- MCTask
  Lines <- MCLines
  EscrowAmount <- MCAmount
  EscrowOf <- MCEscrowOf
  Fee = 1
  Prepaid <- MCPrepaid
  Requests <- MCRequests
  MaxTime = 6
SYMMETRY Symmetry
CHECK_DEADLOCK FALSE
INVARIANTS
  HistoryInv
  PayoutsShown
  SummaryAgrees
