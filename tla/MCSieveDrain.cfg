SPECIFICATION Spec
CONSTANTS
  NBuffers = 2
  Backends = {p1, p2}
  MaxUsage = 1
  MaxPins = 1
  LosesVictims = TRUE
  Invalidates = FALSE
  None = None
SYMMETRY BackendSymmetry
INVARIANTS
  NoBufferLost
