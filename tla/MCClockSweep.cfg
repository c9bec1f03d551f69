SPECIFICATION Spec
CONSTANTS
  NBuffers = 2
  Backends = {p1, p2}
  MaxUsage = 1
  MaxPins = 2
  LosesVictims = FALSE
  Invalidates = TRUE
  None = None
  UInt32 = 4
SYMMETRY BackendSymmetry
VIEW WithoutPasses
INVARIANTS
  TypeOK
  RefcountCountsPins
  VictimsExclusive
  FullPassUnlessOvertaken
PROPERTY
  ImplementsContract
