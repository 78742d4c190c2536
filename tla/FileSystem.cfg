CONSTANTS
  Parts = {"cache", "names", "mkfs"}
  Off = Off
  DiskProcs = {p1, p2}
  Bufs = {1, 2}
  Blocks = {k1, k2, k3}
  Values = {0, 1}
  NBUF = 2
  NUM = 3
  IDX = 3
  MaxPinned = 1
  Nobody = Nobody
  FsProcs = {f1, f2}
  NINODE = 4
  NINODES = 4
  Calls <- PassCalls
  MaxCalls = 4
  MayFill = TRUE
  NMETA = 3
  EPB = 2
  MKDIRECT = 2
  MaxMade = 3
  MaxLength = 8
SPECIFICATION FileSystemSpec
INVARIANTS
  BuffersExact
  Names_Consistent
  Names_NeverStuck
  Mkfs_ImageSound
PROPERTIES
  IsBlockStore
CHECK_DEADLOCK FALSE
SYMMETRY Symmetry
