SPECIFICATION Spec
CONSTANTS
  g1 = g1
  g2 = g2
  g3 = g3
  h1 = h1
  h2 = h2
  None = None
  Generations <- TwoGenerations
  Hosts <- OneHost
  Exclusive = TRUE
  DrainTimeout = 1
  RollbackWindow = 2
  MaxTime = 2
  SuspendTimeout = 1
  FaultKinds = {"stage", "crash", "store", "ack", "authority", "shutdown", "terminal"}
  MaxFaults = 2
  MaxCommands = 3
  MaxStarts = 3
  MaxLeases = 1
SYMMETRY GenerationSymmetry
CHECK_DEADLOCK FALSE
INVARIANTS
  SuspensionQuiescent
PROPERTIES
  RoutingEpochPinsGeneration
  ImplementsRouting
