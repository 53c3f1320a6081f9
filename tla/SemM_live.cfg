CONSTANTS
  Threads = {t1, t2}
  Events = {e1}
  NULL = NULL
  Priorities = {0, 1}
  PRIO_LOWEST = 3
  PerBucket = 2
  Option <- PrioInheritSafe
  MaxSuspend = 0
  SMP_EN = TRUE
  SIGNAL_EN = FALSE
  SUSPEND_EN = FALSE
  CHANGE_PRIO_EN = FALSE
  Ceiling <- TopCeiling
  MaxNest = 1
  Waits = {"INFINITE"}
  Calls = {"Delete", "ThreadDelete"}
SPECIFICATION FairSpec
INVARIANTS TypeOK FreeMutexUnwanted SavedIsOwners
PROPERTY WaiterGetsMutex
CHECK_DEADLOCK FALSE
