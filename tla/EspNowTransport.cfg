CONSTANTS
  n1 = n1
  Broadcast = Broadcast
  BroadcastMac = BroadcastMac
  Addresses = {n1}
  MaxFrames = 3
  DestOf <- TestDestOf
  TxQueueLength = 1
  EventQueueLength = 2
  MaxPeers = 2
SPECIFICATION FairSpec
INVARIANTS
  TypeOK
  ResultsAreTrue
  NothingBehindStop
PROPERTIES
  ImplementsFrameService
  FramesSettle
  WorkerEnds
CHECK_DEADLOCK FALSE
