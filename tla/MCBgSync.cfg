SPECIFICATION Spec
CONSTANTS
  NBuffers = 2
  UInt32 = 16
  Backends = {p1, p2}
  MaxTicks = 7
  MaxAllocs = 2
  MaxCalls = 4
SYMMETRY BackendSymmetry
CHECK_DEADLOCK FALSE
INVARIANTS
  TypeOK
  HandNeverAhead
  WithinOneLap
  DeltaNotNegative
  HibernatesWhenIdle
