SPECIFICATION FairSpec
CONSTANTS
  g1 = g1
  c1 = c1
  c2 = c2
  Callers = {g1}
  Conns = {c1, c2}
  Reconnect = TRUE
  MaxReads = 2
  NoConn = NoConn
  Nobody = Nobody
CHECK_DEADLOCK FALSE
PROPERTY RegistrationSent
