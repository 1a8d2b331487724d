SPECIFICATION FairSpec
CONSTANTS
  A = A
  a1 = a1
  a2 = a2
  a3 = a3
  s1 = s1
  s2 = s2
  q1 = q1
  Ids = {A}
  Addrs = {a1, a2}
  MayPunch <- TwoAddresses
  Queries = {q1}
  Servers <- TwoServers
  Datagrams <- Arrivals
  Buffer = 1
  Public <- PublicAddr
  NoAddr = NoAddr
  NoAddress = NoAddress
INVARIANT TypeOK
INVARIANT ReachableHasPunched
INVARIANT PublicPort
PROPERTY PunchEnds
PROPERTY QueryReturns
