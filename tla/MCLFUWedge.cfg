SPECIFICATION Spec
CONSTANTS
  NBuffers = 2
  Backends = {p1, p2}
  MaxUsage = 1
  MaxPins = 2
  LosesVictims = FALSE
  Invalidates = FALSE
  None = None
  LFU_MAX_FREQ = 2
SYMMETRY BackendSymmetry
INVARIANTS
  IdlePoolHasVictim
