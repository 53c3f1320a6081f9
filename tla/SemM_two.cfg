CONSTANTS
  Threads = {t1, t2}
  Events = {e1, e2}
  NULL = NULL
  Priorities = {0, 1}
  PRIO_LOWEST = 3
  PerBucket = 2
  Option <- FifoSafe
  MaxSuspend = 0
  SMP_EN = TRUE
  SIGNAL_EN = FALSE
  SUSPEND_EN = FALSE
  CHANGE_PRIO_EN = FALSE
  Ceiling <- TopCeiling
  MaxNest = 0
  Waits = {"TICKS"}
  Calls = {"ThreadDelete"}
SPECIFICATION FairSpec
INVARIANTS SafeCountExact Ownership QueueConsistent
PROPERTIES DeletionWaits TimedPendReturns
CHECK_DEADLOCK FALSE
