SPECIFICATION FairSpec
CONSTANTS
  c1 = c1
  c2 = c2
  A = A
  B = B
  Conns = {c1, c2}
  Ids = {A, B}
  EmptyId = EmptyId
  MayRegister <- TwoPeers
  Heart = Heart
  NoConn = NoConn
  NoId = NoId
  MayStall = {c1}
  Timeout = 0
CHECK_DEADLOCK FALSE
PROPERTY UnresponsiveReaped
