CONSTANTS
  Parts = {"lock", "pipe", "log", "disk", "console", "clock", "shell"}
  Off = Off
  a1 = a1
  a2 = a2
  a3 = a3
  Procs = {a1, a2, a3}
  None = None
  DiskProcs = {a1, a2, a3}
  Bufs = {a1, a2, a3}
  Blocks = {k1}
  Values = {0}
  NUM = 4
  IDX = 4
  Nobody = Nobody
  TtyReaders = {}
  TtyWriters = {a1, a2}
  INPUT_BUF_SIZE = 1
  UART_TX_BUF_SIZE = 1
  TTYWORD = 4
  MaxRead = 0
  Nil = Nil
  Sleepers = {a1}
  WORD = 8
  Naps <- MCNaps
  LAG = 2
  Chars = {"a"}
  MaxLine = 0
  MAXARGS = 3
  NSLOT = 7
  NPIPES = 2
  NFDS = 5
  Sessions <- MCSessions
  MaxRestarts = 1
  MaxFaults = 1
SPECIFICATION ProgressSpec
INVARIANTS
  MutualExclusion
  NoMissedWakeup
  Console_OutputInOrder
  SleepExact
  Shell_ForegroundDone
PROPERTIES
  SleepersWoken
  Shell_SessionGoesOn
CHECK_DEADLOCK FALSE
