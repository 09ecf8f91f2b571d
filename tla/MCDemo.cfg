SPECIFICATION Spec
CONSTANTS
  Generators = {g1, g2}
  Backends = {b1}
  LBs = {l1, l2}
  Handlers = {h1, h2}
  Profiles <- MCProfiles
  MaxInflight = 1
  MaxRequests = 2
  None = None
SYMMETRY Symmetry
INVARIANTS
  UpdatesKept
  SplitIsReported
  InvalidGoesToActive
  ZeroRateStops
CHECK_DEADLOCK FALSE
