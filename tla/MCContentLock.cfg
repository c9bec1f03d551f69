SPECIFICATION FairSpec
CONSTANTS
  p1 = p1
  p2 = p2
  p3 = p3
  Procs = {p1, p2, p3}
  Asks <- Roles
  Stray = {p1}
  Rounds = 2
  MaxLatches = 1
  None = None
CHECK_DEADLOCK FALSE
INVARIANTS
  CleanupAlone
  WakeupsBalanced
PROPERTIES
  SleepersGetLock
  CleanupWoken
