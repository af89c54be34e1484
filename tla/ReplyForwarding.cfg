CONSTANTS
  n1 = n1
  n2 = n2
  n3 = n3
  n4 = n4
  Nodes = {n1, n2, n3, n4}
  NoNode = NoNode
  NoRoute = NoRoute
  Select <- MCSelect
  FirstRoutes <- MCFirstRoutes
  TableSize = 3
  Ttl = 2
  MaxRetries = 1
  MaxPending = 1
  MaxFailures <- MCMaxFailures
SPECIFICATION FairSpec
PROPERTIES
  RepliesReachOriginator
CHECK_DEADLOCK FALSE
