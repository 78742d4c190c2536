CONSTANTS
  FsProcs = {p1, p2}
  NINODE = 4
  NINODES = 4
  Calls <- LeakCalls
  MaxCalls = 4
  MayFill = FALSE
SPECIFICATION NsSpec
INVARIANT NoLeak
CHECK_DEADLOCK FALSE
