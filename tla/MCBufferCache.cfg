CONSTANTS
  Proc = {p1, p2, p3}
  Buf = {b1, b2}
  Sector = {s1, s2, s3}
  Data = {d1, d2}
  None = None
  ReadErrors = FALSE
SYMMETRY Symmetry
SPECIFICATION Spec
INVARIANTS CacheIsSound SleepersHaveAWaker
PROPERTIES OneCopy
CHECK_DEADLOCK FALSE
