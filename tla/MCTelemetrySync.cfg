SPECIFICATION SyncFairSpec
CONSTANTS
  MatchCount = 3
  LostOf <- MCLostOf
  AuctionOf <- MCAuctionOf
  InventoryPerPage = 2
  DataPerPage = 3
  PageRetries = 2
  MaxPages = 5
  MaxTransfer = 7
  PollCount = 2
  MaxChanges = 1
CHECK_DEADLOCK FALSE
INVARIANTS AppliedIsWhole
PROPERTIES OperationKept
