SPECIFICATION Spec
CONSTANTS
  p1 = p1
  p2 = p2
  p3 = p3
  Octet = 2
  Base = 4
  Size = 8
  Peers = {p1, p2, p3}
  NoIP = NoIP
INVARIANT PeersInSubnet
