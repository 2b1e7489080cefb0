CONSTANTS
  Proc = {p1, p2}
  Buf = {b1, b2}
  Sector = {s1, s2}
  Data = {d1, d2}
  None = None
  ReadErrors = TRUE
SPECIFICATION Spec
INVARIANTS BreadReturnsContents
CHECK_DEADLOCK FALSE
