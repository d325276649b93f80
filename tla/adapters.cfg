SPECIFICATION AdaptersSpec
CONSTANTS
  w1 = w1
  w2 = w2
  v1 = v1
  c1 = c1
  c2 = c2
  Workers <- TwoWorkers
  Cancellers <- OneCanceller
  MaxPending = 2
  MaxRequests = 4
  Events = {"e1", "e2"}
  MaxConcurrent = 2
  RetireAt = 2
  HardLimit = 2
  QueueLimit = 1
  RunnerMaxFaults = 1
CHECK_DEADLOCK FALSE
SYMMETRY AdapterSymmetry
INVARIANTS
  TablesOwned
  OrphansKnown
  GuestsContained
PROPERTIES
  ClosedMeansClosed
