SPECIFICATION FairSpec
CONSTANTS
  Worker = {w1, w2}
  Reconciler = {d1}
  Free = Free
  MaxRuns = 2
  MaxEntries = 2
  MaxBreaks = 1
  MaxLosses = 1
  MaxFaults = 2
  MaxTroubles = 2
INVARIANTS NewEntriesAddUp OneLateBatch
PROPERTIES EndedByItsOwner RunsFinish
