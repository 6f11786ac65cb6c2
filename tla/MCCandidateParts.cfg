SPECIFICATION Spec
CONSTANTS
  Auction = {1, 2}
  Lost = 3
  ShardSize = 1
  MaxVersion = 2
  MaxModel = 2
  MaxFaults = 2
INVARIANTS FilesTellTheTruth BlockedIsExact
