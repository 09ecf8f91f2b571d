SPECIFICATION Spec
CONSTANTS
  Names = {a, b}
  StartNames = {a}
  Requests = {r1}
  MaxInstances = 2
  MaxBuilt = 3
  None = None
PROPERTY SeedKeepsCount
CHECK_DEADLOCK FALSE
