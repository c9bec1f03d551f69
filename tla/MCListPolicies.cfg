SPECIFICATION PolicySpec
CONSTANTS
  NBuffers = 3
  Backends = {p1, p2}
  MaxUsage = 1
  MaxPins = 1
  LRUPins = 2
  LosesVictims = FALSE
  Invalidates = TRUE
  None = None
  LFU_MAX_FREQ = 2
SYMMETRY BackendSymmetry
INVARIANTS
  TypesOK
  QueueWellFormed
  OldestFirst
  FullPassBeforeError
  BucketsKept
  
PROPERTY
  ImplementsContract
