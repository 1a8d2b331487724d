SPECIFICATION ResponsiveSpec
CONSTANTS
  c1 = c1
  c2 = c2
  A = A
  B = B
  Conns = {c1, c2}
  Ids = {A}
  EmptyId = EmptyId
  MayRegister <- Reconnect
  Heart = Heart
  NoConn = NoConn
  NoId = NoId
  MayStall = {c1}
  Timeout = 0
CHECK_DEADLOCK FALSE
INVARIANT TypeOK
INVARIANT NoOrphan
INVARIANT OfflineMeansGone
PROPERTY RemovedForCause
PROPERTY ServerIsRegistry
PROPERTY DepartureNoticed
PROPERTY RegistrationCompletes
PROPERTY DepartureAnnounced
