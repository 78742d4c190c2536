CONSTANTS
  Procs = {p1, p2}
  Blocks = {b1, b2}
  Contents = {c0, c1}
  NoBlock = NoBlock
  MAXOPBLOCKS = 3
  LOGSIZE = 6
  nlog = 6
  OpBlocks = 2
SPECIFICATION Spec
INVARIANTS
  DurableAtRest
  PinsBalance
PROPERTIES
  AtomicCommit
