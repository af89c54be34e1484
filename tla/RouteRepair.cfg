CONSTANTS
  d1 = d1
  d2 = d2
  h1 = h1
  h2 = h2
  Dests = {d1, d2}
  NoDest = NoDest
  Hops = {h1, h2}
  NoHop = NoHop
  MaxPending = 2
  QueueLength = 2
  MaxRetries = 1
SPECIFICATION FairSpec
INVARIANTS
  TypeOK
  PendingIsQueued
  SerialService
PROPERTIES
  WaitingRepairsStart
