\* Three peers for two entries, one of the peers crashing once and losing
\* announcements; a unit of time is a period of the announcements, and a
\* duplicate is remembered for two of them.
CONSTANTS
  p1 = p1
  p2 = p2
  p3 = p3
  Peers = {p1, p2, p3}
  Fragile = {p1}
  NoPeer = NoPeer
  MaxNeighbors = 2
  CacheSize = 3
  CacheTimeout = 2
  Timeout = 2
  MaxLag = 1
  TimeModulus = 16
  SeqModulus = 2
  MaxRestarts = 1
SPECIFICATION FairSpec
INVARIANTS
  TypeOK
  OneEntryEach
  StaleIsEarned
PROPERTIES
  SilentBecomesStale
  RunningIsHeard
