CONSTANTS
  u1 = u1
  u2 = u2
  u3 = u3
  idle0 = idle0
  idle1 = idle1
  NULL = NULL
  GLOBAL = GLOBAL
  Threads = {u1, u2, u3, idle0, idle1}
  Idle = {idle0, idle1}
  CPUs <- TwoCpus
  Priorities = {1, 2, 3}
  RoundRobin = {}
  Slice = 1
  SMP_EN = TRUE
  MaxNest = 2
  Calls = {"Suspend", "SetAffinity"}
SPECIFICATION SmpSpec
SYMMETRY ThreadSymmetry
INVARIANTS TablesExact NoLostReschedule RequestsArrive
PROPERTY RequestsCounted
CHECK_DEADLOCK FALSE
