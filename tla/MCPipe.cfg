CONSTANTS
  Reader = {r1, r2}
  Writer = {w1, w2}
  Byte = {x1, x2}
  PIPESIZE = 2
  Width = 4
  MaxCount = 2
  None = None
SYMMETRY Symmetry
SPECIFICATION Spec
INVARIANTS SleepersHaveAReason NoSpuriousEof NoUseAfterFree
PROPERTIES Fifo
CHECK_DEADLOCK FALSE
