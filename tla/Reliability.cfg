\* Two slots, two transactions over two packets, one retry; the clock wraps
\* after five units.
CONSTANTS
  p1 = p1
  p2 = p2
  Packets = {p1, p2}
  NoPacket = NoPacket
  MaxTransactions = 2
  MaxRetries = 1
  AckTimeout = 1
  TimeModulus = 5
  MaxTickLag = 1
  RepairIds = {1}
  MaxSends = 2
SPECIFICATION FairSpec
INVARIANTS
  TypeOK
  TransactionsTracked
PROPERTIES
  RepairSuspends
  TimerHonoured
  ImplementsDelivery
  EveryTransactionEnds
