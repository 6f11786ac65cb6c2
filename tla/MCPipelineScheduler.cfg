SPECIFICATION FairSpec
CONSTANTS
  Proc = {p1, p2}
  Scheduler = Scheduler
  Last = 3
INVARIANTS Alone FreshCandidates HealthRemembers
PROPERTIES StopEnds
CHECK_DEADLOCK FALSE
