CONSTANTS
  a = a
  b = b
  r = r
  s = s
  p = p
  q = q
  Nodes = {a, r, s, b}
  Packets = {p, q}
  SourceOf <- MCSourceOf
  DestOf <- MCDestOf
  SeqOf <- MCSeqOf
  Toward <- MCTowardLoop
  Ttl = 3
  CacheSize = 1
  AckCacheSize = 1
  Window = 3
  AckTimeout = 1
  MaxRetries = 1
  TickLag = 1
  MaxFlight = 0
  MaxRepair = 1
  MaxResets <- MCRelayResets
SPECIFICATION Spec
INVARIANTS
  AcksAreEarned
  NoAmplification
PROPERTIES
  FreshPacketsPass
  ReplayAnswers
  ImplementsEndToEnd
