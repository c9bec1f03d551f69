SPECIFICATION Spec
CONSTANTS
  NBuffers = 2
  Backends = {p1, p2}
  MaxUsage = 1
  MaxPins = 1
  LosesVictims = FALSE
  Invalidates = TRUE
  None = None
SYMMETRY BackendSymmetry
CHECK_DEADLOCK FALSE
INVARIANTS
  NoLockCycle
