CONSTANTS
  Threads = {t1, t2, t3}
  Events = {e1}
  NULL = NULL
  Priorities = {0, 1, 2}
  PerBucket = 3
  Option <- PriorityOption
  MaxSuspend = 1
  SMP_EN = FALSE
  SIGNAL_EN = FALSE
  SUSPEND_EN = FALSE
  CHANGE_PRIO_EN = FALSE
  MaxCounter = 1
  InitCounter = 0
  MaxRelease = 1
  Calls = {"Post"}
SPECIFICATION Spec
INVARIANT MostUrgentFirst
CHECK_DEADLOCK FALSE
