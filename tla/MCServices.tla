----------------------------- MODULE MCServices -----------------------------
(***************************************************************************)
(* Small instances of the disk driver, of memory, open files, their data,  *)
(* pipes and the terminal, and of what runs in user space on top of them:  *)
(* malloc(), the parser of the shell, string routines (of kernel and user  *)
(* space), grep and wc.  A behaviour is one of one component, named by     *)
(* part.                                                                   *)
(***************************************************************************)
EXTENDS VirtioDisk, FileTable, FileData, Pipe, Terminal, Memory, Umalloc, ShParse, Filters

CONSTANTS
  Parts,   \* the components to check
  Off      \* the value of the variables of a component that is not running

VARIABLE part

ServicesInit ==
  /\ part \in Parts
  /\ DriverInit /\ Init /\ TermInit    \* also when another component runs
  /\ part = "pipe" \/ \A i \in DOMAIN data : data[i] = 0
  /\ IF part = "files" THEN FilesInit
     ELSE ftable = Off /\ ofile = Off /\ call = Off /\ pipes = Off /\ irefs = Off /\ filePanic = Off
  /\ IF part = "data" THEN DataInit
     ELSE /\ inUse = Off /\ content = Off /\ home = Off /\ pinned = Off /\ inode = Off /\ disknode = Off /\ op = Off
          /\ logged = Off /\ bytes = Off /\ ops = Off /\ dataPanic = Off
  /\ IF part = "memory" THEN MemInit
     ELSE kmem = Off /\ held = Off /\ mp = Off /\ mops = Off /\ memPanic = Off
  /\ IF part = "umalloc" THEN UInit
     ELSE /\ ptr = Off /\ size = Off /\ freep = Off /\ brk = Off /\ lentTo = Off /\ gaps = Off
          /\ scan = Off
  /\ IF part = "parser" THEN ParseInit ELSE line = Off
  /\ IF part = "text" THEN TextInit ELSE kind = Off /\ text = Off
  /\ IF part = "filters" THEN FilterInit
     ELSE filter = Off /\ eof = Off /\ input = Off /\ rest = Off /\ shown = Off /\ count = Off

Others(p) ==
  /\ UNCHANGED part
  /\ IF p = "disk" THEN TRUE ELSE UNCHANGED diskVars
  /\ IF p = "files" THEN TRUE ELSE UNCHANGED fileVars
  /\ IF p = "data" THEN TRUE ELSE UNCHANGED dataVars
  /\ IF p = "pipe" THEN TRUE ELSE UNCHANGED vars
  /\ IF p = "tty" THEN TRUE ELSE UNCHANGED termVars
  /\ IF p = "memory" THEN TRUE ELSE UNCHANGED memVars
  /\ IF p = "umalloc" THEN TRUE ELSE UNCHANGED uVars
  /\ IF p = "parser" THEN TRUE ELSE UNCHANGED line
  /\ IF p = "text" THEN TRUE ELSE UNCHANGED textVars
  /\ IF p = "filters" THEN TRUE ELSE UNCHANGED filterVars

ServicesNext ==
  \/ part = "disk" /\ DriverNext /\ Others("disk")
  \/ part = "files" /\ FilesNext /\ Others("files")
  \/ part = "data" /\ DataNext /\ Others("data")
  \/ part = "pipe" /\ Next /\ Others("pipe")
  \/ part = "tty" /\ InputNext /\ Others("tty")
  \/ part = "memory" /\ MemNext /\ Others("memory")
  \/ part = "umalloc" /\ UNext /\ Others("umalloc")
  \/ part = "parser" /\ type_char /\ Others("parser")
  \/ part = "text" /\ more_text /\ Others("text")
  \/ part = "filters" /\ FilterNext /\ Others("filters")

servicesVars ==
  <<part, diskVars, fileVars, dataVars, vars, termVars, memVars, uVars, line, textVars, filterVars>>
ServicesSpec == ServicesInit /\ [][ServicesNext]_servicesVars

-----------------------------------------------------------------------------
(* Arguments of the instance *)

OpenedFiles == [p \in Openers |-> IF p = 3 THEN 2 ELSE 1]
OwnByte == [p \in Openers |-> p]
TextBytes ==
  [line |-> {"a", "b", "$"}, format |-> {"%", "d", "a"}, memory |-> {"a", "b"},
   path |-> {"/", "a", "b"}, user |-> {"0", "x"}, int |-> {"0", "1"}]
TextLengths == [line |-> 3, format |-> 5, memory |-> 4, path |-> 6, user |-> 6, int |-> 6]
AllRegexps == UNION {[1..n -> {"a", ".", "*", "^", "$"}] : n \in 0..3}
LetterA == <<"a">>

-----------------------------------------------------------------------------
(* The properties of the components, each while its component runs; those  *)
(* of the disk driver, the pipe and the terminal's input are those of      *)
(* their modules.                                                          *)

In(p, P) == part = p => P

(* ref counts the descriptors and calls that hold a file exactly, so that  *)
(* fileclose() closes each end of a pipe and each inode once.              *)
Files_RefsExact == In("files", FileRefExact /\ ClosedOnce)

(* Every byte of a file is the one writei() put there last.                *)
Data_ReadsBack == In("data", ReadsBack)

(* Writes that stop half-way, because the disk or the user's memory ends,  *)
(* leave sound inodes: every block marked in the bitmap is of one file at  *)
(* one place, a file has a block for each of its bytes, and an unlocked    *)
(* inode is on the disk as it is in memory.                                *)
Data_InodesSound == In("data", BlocksExact /\ NoHole /\ DiskCurrent)

(* A chunk of filewrite() logs at most MAXOPBLOCKS blocks.                 *)
Data_TransactionFits == In("data", TransactionFits)

(* Wherever memory runs out: no page is leaked or given out twice, a       *)
(* process has exactly the pages below its size after every fork, exec and *)
(* sbrk, and exec()'s guard page is the one it and its children cannot use. *)
Memory_ImagesExact == In("memory", PagesExact /\ ImageExact /\ GuardKept)

(* malloc() lends every unit of the heap once and loses none, free()       *)
(* leaves no two free blocks that touch, and sbrk() is called only where   *)
(* no free block would do.                                                 *)
Umalloc_HeapSound == In("umalloc", Tiled /\ Coalesced /\ NoNeedlessCore)

(* parsecmd() accepts what the grammar derives and builds the same tree,   *)
(* and nulterminate() ends each of its words, though they touch.           *)
Parser_ParsesGrammar == In("parser", ParsesGrammar /\ WordsWhole)

(* The loops over bytes compute what is meant on every input: grep's       *)
(* matcher, printf() and the digits of the least int, memmove() of ranges  *)
(* that overlap, path elements of DIRSIZ bytes, copies across pages.       *)
Text_Meant ==
  In("text", MatchFinds /\ PrintsValue /\ PrintfReads /\ MovesWhole /\ PathsResolve /\ CopiesWhole)

(* grep and wc print the same however read() cuts their input, up to a     *)
(* line that fills grep's buffer.                                          *)
Filters_AnyPieces == In("filters", GrepLines /\ WcCounts)
=============================================================================
