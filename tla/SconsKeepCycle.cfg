SPECIFICATION Spec
CONSTANTS
  Node = {"a", "b", "c", "d"}
  Worker = {w1, w2}
  Projects <- KeepCycleProjects
INVARIANT OnlyCyclesReported
CHECK_DEADLOCK FALSE
