SPECIFICATION FairSpec
CONSTANTS
  Names = {a}
  StartNames = {a}
  Requests = {r1, r2}
  MaxInstances = 2
  MaxBuilt = 2
  None = None
INVARIANTS
  TypeOK
  ActiveExact
  FleetNeverRetired
PROPERTY DrainEndsUnlessStalled
CHECK_DEADLOCK FALSE
