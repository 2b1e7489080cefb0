CONSTANTS
  NDIRECT = 1
  NINDIRECT = 2
  nblocks = 10
  nlog = 2
  ninodes = 2
  NINODE = 2
  Value = {1}
  Key = {1}
  TAGS = 1
  MaxTags = 2
  MaxOpen = 1
  MaxGets = 3
  Proc = {p1, p2}
  First = p1
  NFILE = 3
  NOFILE = 3
  Inode = {i1}
  MaxPipes = 1
  MaxFileCalls = 6
  NPROC = 2
  NPAGES = 19
  PGSIZE = 2
  NPTENTRIES = 2
  UPDE = 3
  KPDE = 1
  Touched = {2}
  MaxMemoryCalls = 8
SPECIFICATION MCSpec
INVARIANTS BlocksHaveOneOwner RefsCountDescriptors ResourcesFollowFiles OffsetsTile PagesHaveOneOwner
PROPERTIES FilesReadBack LostOnlyWhenExhausted PrivateMemory
CHECK_DEADLOCK FALSE
