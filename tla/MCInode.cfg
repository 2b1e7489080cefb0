CONSTANTS
  Proc = {p1, p2}
  Name = {a, b}
  NINODE = 2
  ninodes = 3
  MAXHOPS = 2
  MaxCalls = 4
  None = None
SPECIFICATION Spec
INVARIANTS CacheIsSound LinksMatchEntries OpenIsAllocated
SYMMETRY Symmetry
CHECK_DEADLOCK FALSE
