CONSTANTS
  Threads = {t1, t2}
  Events = {e1}
  NULL = NULL
  Priorities = {0, 1}
  PerBucket = 2
  Option <- AllOption
  MaxSuspend = 1
  SMP_EN = TRUE
  SIGNAL_EN = TRUE
  SUSPEND_EN = FALSE
  CHANGE_PRIO_EN = TRUE
  MaxCounter = 1
  InitCounter = 0
  MaxRelease = 1
  Calls = {"Post", "TryPend", "Flush", "Delete"}
SPECIFICATION Spec
SYMMETRY ThreadSymmetry
INVARIANT NoIdleUnit
CHECK_DEADLOCK FALSE
