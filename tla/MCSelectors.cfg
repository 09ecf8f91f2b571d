SPECIFICATION Spec
CONSTANTS
  b1 = b1
  b2 = b2
  Order <- MCOrder
  Requests = {r1, r2}
  Latencies = {1, 2}
  StartAlgorithms = {"least_connections"}
  Turns = 2
  MaxSelectors = 2
  Tripping = {b1}
  None = None
INVARIANTS
  ChosenWasSelectable
  NoFalseRefusal
  TurnsAreShared
  IdleNotPassedOver
  SamplesFoldedOnce
SYMMETRY Symmetry
CHECK_DEADLOCK FALSE
