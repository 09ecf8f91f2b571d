SPECIFICATION Spec
CONSTANTS
  Names = {a, b}
  StartNames = {a}
  Requests = {r1}
  MaxInstances = 2
  MaxBuilt = 3
  None = None
INVARIANTS
  GaugeExactUnlessRaced
  ReloadSettles
  
CHECK_DEADLOCK FALSE
