CONSTANTS
  u1 = u1
  u2 = u2
  u3 = u3
  idle0 = idle0
  idle1 = idle1
  NULL = NULL
  GLOBAL = GLOBAL
  Threads = {u1, u2, idle0}
  Idle = {idle0}
  CPUs <- OneCpu
  Priorities = {1, 2, 3}
  RoundRobin = {u1, u2}
  Slice = 1
  SMP_EN = FALSE
  MaxNest = 1
  Calls = {"Suspend", "SetPriority", "Yield", "Lock", "Tick", "IsrSuspend"}
SPECIFICATION FairSpec
INVARIANTS TypeOK NoLostReschedule
PROPERTIES PeersRotate UrgentRuns
CHECK_DEADLOCK FALSE
