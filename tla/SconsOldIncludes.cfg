SPECIFICATION Spec
CONSTANTS
  Node = {"a", "b", "c", "d"}
  Worker = {w1, w2}
  Projects <- OldHeaders
INVARIANTS
  SuccessMeansBuilt
  
  OnlyCyclesReported
  KeepGoingBuildsRest

  
CHECK_DEADLOCK FALSE
