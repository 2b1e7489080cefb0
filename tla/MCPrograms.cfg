CONSTANTS
  Proc = {p1, p2}
  INPUT_BUF = 2
  Width = 4
  MaxRead = 2
  MaxTyped = 4
  None = None
SPECIFICATION MCSpec
INVARIANTS InputIsSound AlgorithmsMatch HeapIsSound ShellKeepsOrder ImageIsConsistent WriteFitsInLog
PROPERTIES TypedIsRead PromptReturns
CHECK_DEADLOCK FALSE
