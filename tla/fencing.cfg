SPECIFICATION Spec
CONSTANTS
  g1 = g1
  g2 = g2
  g3 = g3
  h1 = h1
  h2 = h2
  None = None
  Generations <- TwoGenerations
  Hosts <- TwoHosts
  Exclusive = FALSE
  DrainTimeout = 0
  RollbackWindow = 1
  MaxTime = 1
  SuspendTimeout = 0
  FaultKinds = {"ack", "stage"}
  MaxFaults = 1
  MaxCommands = 2
  MaxStarts = 3
  MaxLeases = 1
SYMMETRY GenerationSymmetry
CHECK_DEADLOCK FALSE
INVARIANTS
  SoleAuthority
  Inductive
