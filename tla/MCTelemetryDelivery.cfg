SPECIFICATION FairSpec
CONSTANTS
  LastDate = 1
  MaxTransient = 2
  MaxStarts = 2
INVARIANTS DeliverySafe
PROPERTIES LedgerKept DailyComesUp
CHECK_DEADLOCK FALSE
