SPECIFICATION Spec
CONSTANTS
  g1 = g1
  g2 = g2
  g3 = g3
  h1 = h1
  h2 = h2
  None = None
  Generations <- TwoGenerations
  Hosts <- OneHost
  Exclusive = TRUE
  DrainTimeout = 1
  RollbackWindow = 2
  MaxTime = 2
  SuspendTimeout = 0
  FaultKinds = {"store"}
  MaxFaults = 1
  MaxCommands = 2
  MaxStarts = 1
  MaxLeases = 1
SYMMETRY GenerationSymmetry
CHECK_DEADLOCK FALSE
INVARIANTS
  NoPanic
