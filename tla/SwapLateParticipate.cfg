SPECIFICATION Spec
CONSTANTS
  Tx = {t1, t2}
  InitiateLock = 8
  ParticipateLock = 4
  Skew <- MCSkew
  ParticipateMargin = 0
  RedeemMargin = 3
  MaxHang = 1
  Conf = 1
  React = 0
  MaxFaults = 0
  LastInitiate = 0
  MaxTime = 9
INVARIANTS
  ParticipantSafe
SYMMETRY MCSymmetry
\* the clock stops at MaxTime
CHECK_DEADLOCK FALSE
