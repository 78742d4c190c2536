CONSTANTS
  Parts = {"disk", "files", "data", "pipe", "tty", "memory", "umalloc", "parser", "text", "filters"}
  Off = Off
  DiskProcs = {p1, p2, p3}
  Bufs = {p1, p2, p3}
  Blocks = {k1}
  Values = {0}
  NUM = 7
  IDX = 7
  Nobody = Nobody
  Users = {u1, u2}
  First = u1
  NFILE = 3
  NOFILE = 2
  NPIPE = 1
  Openers = {1, 2, 3}
  Inos = {1, 2}
  OpenOf <- OpenedFiles
  ByteOf <- OwnByte
  NBLOCKS = 6
  BPB = 1
  BSIZE = 2
  NDIRECT = 1
  NINDIRECT = 4
  MAXOPBLOCKS = 10
  MaxFileOps = 3
  Readers = {r1}
  Writers = {w1, w2}
  Bytes = {0, 1}
  PIPESIZE = 2
  UINT = 4
  MaxLen = 3
  None = None
  TtyReaders = {r1}
  TtyWriters = {w1}
  INPUT_BUF_SIZE = 2
  UART_TX_BUF_SIZE = 1
  TTYWORD = 4
  MaxRead = 2
  Nil = Nil
  MemProcs = {m1, m2}
  PAGES = 22
  Scarce = {0, 1, 2, 3, 4, 5, 6, 7, 8}
  PGSIZE = 2
  ExecSizes = {1, 3}
  Grow = {1, 3}
  MaxMemOps = 4
  CORE = 4
  MaxBreak = 11
  MaxUnits = 5
  Chars = {"a", " ", "|", ">", ";", "&", "(", ")"}
  MaxLine = 5
  MAXARGS = 3
  InputBytes <- TextBytes
  Longest <- TextLengths
  Regexps <- AllRegexps
  DIRSIZ = 2
  PGBYTES = 2
  GREPBUF = 4
  WCBUF = 3
  Pattern <- LetterA
  Input = {"a", "b", "\n"}
  MaxInput = 6
SPECIFICATION ServicesSpec
INVARIANTS
  RequestsKept
  Files_RefsExact
  Data_ReadsBack
  Data_InodesSound
  Data_TransactionFits
  NobodyForgotten
  LineReaderWoken
  Memory_ImagesExact
  Umalloc_HeapSound
  Parser_ParsesGrammar
  Text_Meant
  Filters_AnyPieces
PROPERTIES
  IsFifo
  IsTty
CHECK_DEADLOCK FALSE
