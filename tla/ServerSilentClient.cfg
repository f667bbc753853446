SPECIFICATION LoopSpec
CONSTANTS
  Conn = {c1, c2}
  Buf = 2
  MaxFd = 2
  Backlog = 2
  MaxRequests = 1
  Window = 1
  Split = {}
PROPERTIES
  WaitReturns
\* the daemon may stop
CHECK_DEADLOCK FALSE
