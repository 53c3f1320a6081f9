CONSTANTS
  Threads = {t1, t2}
  Events = {e1}
  NULL = NULL
  Priorities = {0}
  PerBucket = 2
  Option <- FifoOption
  MaxSuspend = 0
  SMP_EN = TRUE
  SIGNAL_EN = FALSE
  SUSPEND_EN = FALSE
  CHANGE_PRIO_EN = FALSE
  Messages = {short, long}
  short = short
  long = long
  Size <- SizeOf
  MaxCounter = 1
  Receives <- StrictReceives
  MaxRetry = 1
  Calls = {"Send", "Broadcast", "Flush", "Delete"}
SPECIFICATION FairSpec
INVARIANTS TypeOK BuffersValid NoIdleMessage
PROPERTIES ImplementsChannel FifoServesAll ResendEnds
CHECK_DEADLOCK FALSE
