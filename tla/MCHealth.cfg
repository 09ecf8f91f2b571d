SPECIFICATION FairSpec
CONSTANTS
  ProbeFailures = 3
  ProbeSuccesses = 2
  WindowSize = 4
  EjectAfter = 2
INVARIANTS
  WindowExact
  EjectionIsVisible
PROPERTIES
  NoStaleEjection
  NoProbeAfterRemove
  DeadIsEjected
  AliveRecovers
  RemoveEnds
CHECK_DEADLOCK FALSE
