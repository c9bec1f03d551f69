SPECIFICATION FairSpec
CONSTANTS
  Backends = {p1, p2, p3}
  MaxAllocs = 2
INVARIANTS
  TypeOK
  AllocationSeen
PROPERTY
  AllocationWakes
