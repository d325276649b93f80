SPECIFICATION FairSpec
CONSTANTS
  r = r
  q = q
  x = x
  e = e
  s1 = s1
  s2 = s2
  c1 = c1
  c2 = c2
  Generations <- ThreeGenerations
  None = "none"
  StateOf <- StateOfThree
  MaxEpoch = 4
  LeaseIds = {1, 2}
  LaneCount = 2
  RouteCalls = {r, q}
  PlainCalls = {q}
  LaneCalls = {x, e}
  EventCalls = {e}
  CallMixes = {{r, q}, {x}, {e}}
  QueueCapacity = 1
  LaneMaxFaults = 1
  RequestCapacity = 1
  MaxId = 3
  MaxRevision = 2
  MaxHostStreams = 2
  StreamIds = {1, 2, 3}
  Kinds = {}
  MaxImports = 3
  IdCount = 4
  SdkCalls = 2
CHECK_DEADLOCK FALSE
INVARIANTS
  OkMeansClean
  OrphansKnowIt
  StreamsAgree
  LeasesPin
  RunsWhatWasReleased
  OwnerIsTold
PROPERTIES
  LanesEnd
  RoutesAlike
  CallersAreReleased
