CONSTANTS
  Services <- MCServices
  DataTypes <- MCDataTypes
  NoService = NoService
  MaxServices = 2
  MaxLives = 2
  MaxStarts = 3
SPECIFICATION FairSpec
INVARIANTS
  FramesAreServed
  StartIsKept
PROPERTIES
  StopEnds
CHECK_DEADLOCK FALSE
