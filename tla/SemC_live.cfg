CONSTANTS
  Threads = {t1, t2}
  Events = {e1}
  NULL = NULL
  Priorities = {0}
  PerBucket = 2
  Option <- FifoOption
  MaxSuspend = 1
  SMP_EN = TRUE
  SIGNAL_EN = FALSE
  SUSPEND_EN = TRUE
  CHANGE_PRIO_EN = FALSE
  MaxCounter = 2
  InitCounter = 0
  MaxRelease = 2
  Calls = {"Post", "TryPend", "Release", "Flush", "Clear", "Delete"}
SPECIFICATION FairSpec
INVARIANTS TypeOK QueueConsistent
PROPERTIES ConservesUnits TimedPendReturns WokenPendReturns DeleteWakesAll
CHECK_DEADLOCK FALSE
