CONSTANTS
  c = c
  h1 = h1
  NoHop = NoHop
  MaxSends = 2
  Dests = {c}
  DestOf <- MCDestOf
  Hops = {h1}
  MaxTransactions = 2
  MaxRetries = 1
  TxQueueLength = 1
  EventQueueLength = 1
  MaxPending = 1
SPECIFICATION Spec
PROPERTY RetriesAreUsed
