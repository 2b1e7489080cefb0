CONSTANTS
  NPROC = 4
  MaxPid = 4
  initproc = 0
  None = None
SPECIFICATION FairSpec
INVARIANTS TableIsConsistent
PROPERTIES OrphansReaped KilledDies
CHECK_DEADLOCK FALSE
