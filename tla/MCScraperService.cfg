SPECIFICATION FairSpec
CONSTANTS
  t1 = t1
  t2 = t2
  Thread = {t1, t2}
  Request = {1, 2}
  Pid = {1, 2}
  MaxOutstanding = 1
  Interval = 1
  StartRetries = 1
  MaxTime = 1
  MaxFaults = 2
CHECK_DEADLOCK FALSE
INVARIANTS PlacesCover
PROPERTIES EveryTriggerServed
