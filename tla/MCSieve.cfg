SPECIFICATION FairSpec
CONSTANTS
  NBuffers = 2
  Backends = {p1, p2}
  MaxUsage = 1
  MaxPins = 2
  LosesVictims = FALSE
  Invalidates = TRUE
  None = None
INVARIANTS
  TypeOK
  QueueWellFormed
  HandOnQueue
  NoBufferLost
  FullPassBeforeError
PROPERTIES
  ImplementsContract
  ScanTerminates
