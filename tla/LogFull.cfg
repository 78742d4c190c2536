CONSTANTS
  Procs = {p1, p2, p3}
  Blocks = {b1, b2, b3}
  Contents = {c0}
  NoBlock = NoBlock
  MAXOPBLOCKS = 1
  LOGSIZE = 3
  nlog = 3
  OpBlocks = 1
SPECIFICATION Spec
INVARIANT NoLogPanic
