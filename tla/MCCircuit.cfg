SPECIFICATION ExportSpec
CONSTANTS
  Requests = {r1, r2, r3, r4}
  NoRequest = NoRequest
  Threshold = 3
SYMMETRY Symmetry
INVARIANTS
  TypeOK
  NoWedge
  OneTrialUnlessStray
  SeriesFaithfulUnlessOverlap
PROPERTY OpenOutlastsCooldown
CHECK_DEADLOCK FALSE
