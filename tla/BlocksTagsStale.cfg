CONSTANTS
  NDIRECT = 1
  NINDIRECT = 1
  nblocks = 3
  nlog = 2
  ninodes = 2
  NINODE = 1
  Value = {1}
  Key = {1, 2}
  TAGS = 3
  MaxTags = 3
  MaxOpen = 1
  MaxGets = 4
SPECIFICATION Spec
INVARIANTS CachedTagsMatchDisk
CHECK_DEADLOCK FALSE
