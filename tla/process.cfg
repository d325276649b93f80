SPECIFICATION FairSpec
CONSTANTS
  c1 = c1
  c2 = c2
  c3 = c3
  V1Calls <- ThreeCalls
  V1MaxPending = 2
  V1IdWidth = 3
  V1Replies <- TwoReplies
  V1MaxFaults = 1
  Invocations <- TwoInvocations
  MaxOutbound = 1
  MaxActive = 2
  MaxRetired = 1
  MaxPending = 1
  MaxMishaps = 1
  Faults <- EveryFault
CHECK_DEADLOCK FALSE
INVARIANTS
  OwnAnswer
  FailureHasCause
  EntriesHaveOwners
  NothingLeft
PROPERTIES
  CallsSettle
  LifeEnds
