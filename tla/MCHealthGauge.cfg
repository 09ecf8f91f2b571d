SPECIFICATION FairSpec
CONSTANTS
  ProbeFailures = 3
  ProbeSuccesses = 2
  WindowSize = 2
  EjectAfter = 2
CHECK_DEADLOCK FALSE
PROPERTY GaugeAgrees
