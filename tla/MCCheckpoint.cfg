CONSTANTS
  p1 = p1
  p2 = p2
  Backends = {p1, p2}
  MaxUpdates = 2
  MaxHints = 2
  MaxCheckpoints = 2
  MaxCrashes = 2
SPECIFICATION LoadSpec
INVARIANTS
  RecoveryRestores
PROPERTIES
  CheckpointCompletes
