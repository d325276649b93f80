SPECIFICATION FairSpec
CONSTANTS
  w1 = w1
  v1 = v1
  Owners = {o1, o2}
  Paths = {p1, p2}
  Dirs = {d1, d2}
  MaxRenames = 1
  RelayCapacity = 1
  EventCapacity = 2
  StopFits = TRUE
  MaxFrames = 2
  OwnerMaxFaults = 1
CHECK_DEADLOCK FALSE
INVARIANTS
  ConfirmedIsGone
  NoStraySignal
  OneExecution
  ConfirmationFrees
PROPERTIES
  StopsEnd
