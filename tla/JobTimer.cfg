SPECIFICATION FairSpec
CONSTANTS
  Threads = {t1, t2}
  Queues = {manager, accept}
  First = manager
  MaxTimers = 3
  MaxDelay = 2
  MaxTime = 2
INVARIANTS TypeOK OnePlace InDueOrder
PROPERTIES EveryTimerRuns
CHECK_DEADLOCK FALSE
