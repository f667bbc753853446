SPECIFICATION FairSpec
CONSTANTS
  Conn = {c1, c2}
  Buf = 2
  MaxFd = 2
  Backlog = 2
  MaxRequests = 2
  Window = 1
  Split = {c2}
INVARIANTS
  TypeOK
  SocketsTracked
  OneResultEach
  SurvivesSend
PROPERTIES
  ClientsServed
  SocketsFreed
  StopsOnSignal
\* the daemon may stop
CHECK_DEADLOCK FALSE
