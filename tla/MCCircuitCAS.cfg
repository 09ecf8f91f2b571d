SPECIFICATION FairSpec
CONSTANTS
  Requests = {r1, r2}
  NoRequest = NoRequest
  Threshold = 2
  RingSelector = TRUE
INVARIANTS
  FailuresCounted
PROPERTIES
  ImplementsCircuit
  TrialEndsUnlessStalled
CHECK_DEADLOCK FALSE
