CONSTANTS
  Nodes = {n1, n2, n3}
  NULL = NULL
  Rates = {1, 2}
  Ticks = {1, 4}
  Periods = {0, 2}
  Calls = {"Reset", "Cancel", "Delete"}
SPECIFICATION Spec
SYMMETRY TimerSymmetry
INVARIANTS TypeOK LineConsistent
PROPERTY FiresInTime
CHECK_DEADLOCK FALSE
