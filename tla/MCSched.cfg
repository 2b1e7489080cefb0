CONSTANTS
  CPU = {c1, c2}
  NPROC = 2
  None = None
SPECIFICATION Spec
INVARIANTS NoPanic OneCpuPerProcess CpuAccounting NoMissedWakeup
SYMMETRY Symmetry
