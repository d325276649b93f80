SPECIFICATION FairSpec
CONSTANTS
  c1 = c1
  c2 = c2
  c3 = c3
  None = None
  Calls <- ThreeCalls
  QueueCapacity = 1
CHECK_DEADLOCK FALSE
INVARIANTS
  AnswersAgree
PROPERTIES
  AdmissionStaysClosed
  CallsAreAnswered
  SuspensionEndsHost
