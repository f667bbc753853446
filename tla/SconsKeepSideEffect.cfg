SPECIFICATION Spec
CONSTANTS
  Node = {"a", "b", "c", "d"}
  Worker = {w1, w2}
  Projects <- KeepProjects
INVARIANT CommandsApart
CHECK_DEADLOCK FALSE
