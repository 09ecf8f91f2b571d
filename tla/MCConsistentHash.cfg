SPECIFICATION Spec
CONSTANTS
  a = a
  b = b
  Names = {a, b}
  VNodes <- MCVNodes
  Requests = {r1, r2}
  MaxVersion = 3
  Streams = 1
  None = None
INVARIANTS
  RingIsCurrent
PROPERTIES
  CacheNeverRegresses
  WalkIsComplete
SYMMETRY Symmetry
CHECK_DEADLOCK FALSE
