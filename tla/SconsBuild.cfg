SPECIFICATION FairSpec
CONSTANTS
  Node = {"a", "b", "c", "d"}
  Worker = {w1, w2}
  Projects <- BuildProjects
INVARIANTS
  TypeOK
  SuccessMeansBuilt
  
  SideEffectsApart
  WaitCounts
  OnlyCyclesReported
  KeepGoingBuildsRest
PROPERTIES
  
  Terminates
CHECK_DEADLOCK FALSE
