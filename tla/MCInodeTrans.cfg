CONSTANTS
  Proc = {p1, p2}
  Name = {a, b}
  NINODE = 2
  ninodes = 2
  MAXHOPS = 2
  MaxCalls = 4
  None = None
SPECIFICATION Spec
INVARIANTS FreesInTransaction
SYMMETRY Symmetry
CHECK_DEADLOCK FALSE
