CONSTANTS
  Threads = {t1, t2}
  Events = {e1}
  NULL = NULL
  Priorities = {0}
  PerBucket = 2
  Option <- InterOption
  MaxSuspend = 0
  SMP_EN = FALSE
  SIGNAL_EN = TRUE
  SUSPEND_EN = FALSE
  CHANGE_PRIO_EN = FALSE
  Messages = {short, long}
  short = short
  long = long
  Size <- SizeOf
  MaxCounter = 3
  Receives <- CutReceives
  MaxRetry = 1
  Calls = {"Send", "Urgent", "TryReceive", "Clear", "Delete"}
SPECIFICATION Spec
SYMMETRY ThreadSymmetry
INVARIANTS NoIdleMessage BuffersValid
PROPERTY ImplementsChannel
CHECK_DEADLOCK FALSE
