SPECIFICATION Spec
CONSTANTS
  Node = {"a", "b", "c", "d"}
  Worker = {w1, w2}
  Projects <- SideEffectProjects
INVARIANT SuccessMeansBuilt
CHECK_DEADLOCK FALSE
