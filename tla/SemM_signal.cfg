CONSTANTS
  Threads = {t1, t2}
  Events = {e1}
  NULL = NULL
  Priorities = {0, 1, 2}
  PRIO_LOWEST = 3
  PerBucket = 2
  Option <- PrioCeiling
  MaxSuspend = 0
  SMP_EN = FALSE
  SIGNAL_EN = TRUE
  SUSPEND_EN = FALSE
  CHANGE_PRIO_EN = TRUE
  Ceiling <- MidCeiling
  MaxNest = 1
  Waits = {"TICKS", "NOT_WAIT"}
  Calls = {"Delete"}
SPECIFICATION Spec
INVARIANT QueueConsistent
CHECK_DEADLOCK FALSE
