SPECIFICATION FairSpec
CONSTANTS
  p1 = p1
  p2 = p2
  c1 = c1
  c2 = c2
  g1 = g1
  g2 = g2
  Peers = {p1, p2}
  Conns = {c1, c2}
  Callers = {g1, g2}
  Limits = {1, 2}
  None = None
INVARIANT TypeOK
INVARIANT PoolBound
INVARIANT ConnectedIsOpen
INVARIANT LiveIsTracked
PROPERTY DeadForCause
PROPERTY PoolIsTable
PROPERTY CallsReturn
