SPECIFICATION ProcFairSpec
CONSTANTS
  RelayCapacity = 1
  EventCapacity = 2
  StopFits = FALSE
  MaxFrames = 2
  OwnerMaxFaults = 1
CHECK_DEADLOCK FALSE
PROPERTIES
  OwnerEnds
