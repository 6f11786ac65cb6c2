SPECIFICATION FairSpec
CONSTANTS
  r1 = r1
  r2 = r2
  t1 = t1
  Row <- MCRow
  Target <- MCTarget
  TargetOf <- MCTargetOf
  Canonical <- MCCanonical
  Writer = {w1}
  MaxVersion = 2
  OpsPerTarget = 2
  MaxCrashes = 2
  MaxFaults = 1
  MaxRuns = 1
INVARIANTS StagedIsJournaled DeletionSticks RestoredOnDecision
PROPERTIES NeverCleansProtected StagedBytesFollowDatabase ImplementsAtomicCleanup QuarantineDrains
