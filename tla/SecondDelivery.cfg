CONSTANTS
  a = a
  b = b
  r = r
  s = s
  p = p
  q = q
  Nodes = {a, b}
  Packets = {p}
  SourceOf <- MCSourceOf
  DestOf <- MCDestOf
  SeqOf <- MCSeqOf
  Toward <- MCTowardAny
  Ttl = 2
  CacheSize = 32
  AckCacheSize = 8
  Window = 10
  AckTimeout = 1
  MaxRetries = 3
  TickLag = 2
  MaxFlight = 0
  MaxRepair = 8
  MaxResets <- MCNoResets
SPECIFICATION Spec
INVARIANTS
  DeliveredOnce
