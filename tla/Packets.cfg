SPECIFICATION Spec
CONSTANTS
  Arrivals <- Mixed
  TTLs <- SomeTTLs
  LocalIP <- Local
  NoPacket = NoPacket
  NoChecksum = NoChecksum
INVARIANT TypeOK
INVARIANT ChecksumVerifies
INVARIANT SourceKept
INVARIANT VerdictKept
INVARIANT HandlerKept
