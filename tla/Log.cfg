CONSTANTS
  Proc = {p1, p2}
  Sector = {s1, s2}
  Data = {d1, d2}
  LOGSIZE = 2
  nlog = 3
  Block0 = Block0
  Evicted = Evicted
SPECIFICATION FairSpec
INVARIANTS LogInvariant SleepersHaveAWaker UnwrittenIsPinned
PROPERTIES Atomicity CommittedLogIsFrozen WaiterWakes RecoveryCompletes
