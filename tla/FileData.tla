------------------------------ MODULE FileData ------------------------------
(***************************************************************************)
(* What files contain: block allocation, bmap(), itrunc(), readi() and     *)
(* writei() of kernel/fs.c under fileread() and filewrite() of             *)
(* kernel/file.c, on a disk that fills up.                                 *)
(*                                                                         *)
(* Granularity.  An inode's lock is held for a chunk of filewrite(), which *)
(* takes a step for each block: the writers of other files allocate in     *)
(* between.  A transaction is the chunk; what it puts in the log is        *)
(* counted here, that it is atomic is shown in Log.                        *)
(***************************************************************************)
EXTENDS Integers, FiniteSets

CONSTANTS
  Openers,              \* processes, each with a file open
  Inos,                 \* inodes
  OpenOf,               \* the inode each process has open
  ByteOf,               \* the byte each process writes
  NBLOCKS, BPB,         \* data blocks, and blocks for each block of the bitmap
  BSIZE, NDIRECT, NINDIRECT, MAXOPBLOCKS,
  MaxFileOps                \* bound of the model: calls in a behaviour

ASSUME FileDataAssumption ==
  /\ OpenOf \in [Openers -> Inos] /\ ByteOf \in [Openers -> Nat \ {0}]
  /\ {NBLOCKS, BPB, BSIZE, NDIRECT, NINDIRECT} \subseteq Nat \ {0} /\ MAXOPBLOCKS \in 6..20

MAXFILE == NDIRECT + NINDIRECT
DataBlocks == 1..NBLOCKS
NoBlock == 0
MinOf(a, b) == IF a < b THEN a ELSE b

VARIABLES
  inUse,     \* the bitmap
  content,   \* of each block, in its buffer: bytes, or as an indirect block, addresses
  home,      \* of each block: what the disk has, or has after the commit under way
  pinned,    \* blocks logged since the last commit, whose buffers stay
  inode,     \* in memory: addrs, size, the lock's holder
  disknode,  \* addrs and size as iupdate() wrote them
  op,        \* of each process: f->off and its call
  logged,    \* of each process: blocks its transaction has logged
  bytes,     \* what may be read where, in each file
  ops, dataPanic

dataVars == <<inUse, content, home, pinned, inode, disknode, op, logged, bytes, ops, dataPanic>>

Zeros == [k \in 0..BSIZE - 1 |-> 0]
NoAddrs == [k \in 0..NINDIRECT - 1 |-> NoBlock]
AtRest == [pc |-> "idle", off |-> 0, left |-> 0, n1 |-> 0, tot |-> 0]

DataInit ==
  /\ inUse = {}
  /\ content = [b \in DataBlocks |-> [data |-> Zeros, addrs |-> NoAddrs]]
  /\ home = content /\ pinned = {}
  /\ inode = [i \in Inos |-> [addrs |-> [k \in 0..NDIRECT |-> NoBlock], size |-> 0, lock |-> FALSE]]
  /\ disknode = [i \in Inos |-> [addrs |-> [k \in 0..NDIRECT |-> NoBlock], size |-> 0]]
  /\ op = [p \in Openers |-> AtRest]
  /\ logged = [p \in Openers |-> {}]
  /\ bytes = [i \in Inos |-> [o \in 0..MAXFILE * BSIZE - 1 |-> {0}]]
  /\ ops = 0 /\ dataPanic = FALSE

(* The blocks a transaction may log: data, bitmap and inode blocks. *)
Data(b) == <<"data", b>>
BBLOCK(b) == <<"bitmap", b \div BPB>>
IBLOCK(i) == <<"inode", i>>

-----------------------------------------------------------------------------
(* bmap().  A result has the bitmap and blocks as they become, the inode's *)
(* addresses, the address (NoBlock: the disk is full) and what was logged. *)

(* balloc(): the first free block, zeroed. *)
balloc(m) ==
  LET free == DataBlocks \ m.used
      b == CHOOSE x \in free : \A y \in free : x <= y
  IN  IF free = {} THEN [m EXCEPT !.addr = NoBlock]
      ELSE [m EXCEPT !.used = @ \cup {b}, !.content[b] = [data |-> Zeros, addrs |-> NoAddrs],
                     !.addr = b, !.log = @ \cup {BBLOCK(b), Data(b)}]

bmap_direct(m, bn) ==
  IF m.addrs[bn] # NoBlock THEN [m EXCEPT !.addr = m.addrs[bn]]
  ELSE LET r == balloc(m) IN [r EXCEPT !.addrs[bn] = r.addr]

(* The indirect block is allocated like a direct one; the address found in *)
(* it is written there when it is new.                                     *)
bmap_indirect(m, bn) ==
  LET i == bmap_direct(m, NDIRECT)
      a == i.content[i.addr].addrs[bn]
      r == balloc(i)
  IN  IF i.addr = NoBlock THEN i
      ELSE IF a # NoBlock THEN [i EXCEPT !.addr = a]
      ELSE IF r.addr = NoBlock THEN r
      ELSE [r EXCEPT !.content[i.addr].addrs[bn] = r.addr, !.log = @ \cup {Data(i.addr)}]

bmap(m, bn) == IF bn < NDIRECT THEN bmap_direct(m, bn) ELSE bmap_indirect(m, bn - NDIRECT)

-----------------------------------------------------------------------------
(* filewrite() *)

file(p) == inode[OpenOf[p]]

filewrite(p, n) ==
  /\ op[p].pc = "idle" /\ ops < MaxFileOps
  /\ op' = [op EXCEPT ![p].pc = "chunk", ![p].left = n]
  /\ ops' = ops + 1
  /\ UNCHANGED <<inUse, content, home, pinned, inode, disknode, logged, bytes, dataPanic>>

(* Mutant: no slop for writes that are not aligned. *)
max_NoSlop == ((MAXOPBLOCKS - 1 - 1) \div 2) * BSIZE

max == ((MAXOPBLOCKS - 1 - 1 - 2) \div 2) * BSIZE

(* begin_op(), ilock() and the tests at the start of writei(): where the   *)
(* file has become shorter than f->off, or would become too long, the      *)
(* write fails.                                                            *)
filewrite_chunk(p) ==
  LET n1 == MinOf(op[p].left, max)
      bad == op[p].off > file(p).size \/ op[p].off + n1 > MAXFILE * BSIZE
  IN  /\ op[p].pc = "chunk" /\ op[p].left > 0 /\ ~file(p).lock
      /\ IF bad
         THEN op' = [op EXCEPT ![p] = [AtRest EXCEPT !.off = op[p].off]] /\ UNCHANGED inode
         ELSE /\ op' = [op EXCEPT ![p].pc = "writei", ![p].n1 = n1, ![p].tot = 0]
              /\ inode' = [inode EXCEPT ![OpenOf[p]].lock = TRUE]
      /\ logged' = [logged EXCEPT ![p] = {}]
      /\ UNCHANGED <<inUse, content, home, pinned, disknode, bytes, ops, dataPanic>>

(* Mutant: the block is changed and not logged. *)
writei_log_None(r) == r.log

(* log_write() of the block r.addr *)
writei_log(r) == r.log \cup {Data(r.addr)}

(* One block of writei(): bmap(), either_copyin() and log_write().  The    *)
(* copy goes page by page and may fail when c bytes of the buffer are      *)
(* overwritten already; the block is then released and not logged.  What   *)
(* the log pins goes to the disk as the buffer has it.                     *)
writei(p) ==
  LET i == OpenOf[p]
      off == op[p].off + op[p].tot
      r == bmap([used |-> inUse, content |-> content, addrs |-> file(p).addrs,
                 addr |-> NoBlock, log |-> logged[p]], off \div BSIZE)
      m == MinOf(op[p].n1 - op[p].tot, BSIZE - (off % BSIZE))
      stop == [op EXCEPT ![p].pc = "iupdate"]
      overwritten(c) == [r.content EXCEPT ![r.addr].data =
        [k \in 0..BSIZE - 1 |-> IF k - (off % BSIZE) \in 0..c - 1 THEN ByteOf[p] ELSE @[k]]]
      read(c, orOld) == [bytes EXCEPT ![i] =
        [o \in DOMAIN @ |-> IF o \in off..off + c - 1 THEN {ByteOf[p]} \cup (IF orOld THEN @[o] ELSE {}) ELSE @[o]]]
  IN  /\ op[p].pc = "writei" /\ op[p].tot < op[p].n1
      /\ inUse' = r.used
      /\ inode' = [inode EXCEPT ![i].addrs = r.addrs]
      /\ \/ /\ r.addr # NoBlock
            /\ content' = overwritten(m)
            /\ bytes' = read(m, FALSE)
            /\ logged' = [logged EXCEPT ![p] = writei_log(r)]
            /\ op' = [op EXCEPT ![p].tot = @ + m]
         \/ /\ r.addr # NoBlock
            /\ \E c \in 0..m - 1 : content' = overwritten(c) /\ bytes' = read(c, TRUE)
            /\ logged' = [logged EXCEPT ![p] = r.log]
            /\ op' = stop
         \/ /\ r.addr = NoBlock
            /\ content' = r.content /\ UNCHANGED bytes
            /\ logged' = [logged EXCEPT ![p] = r.log]
            /\ op' = stop
      /\ pinned' = pinned \cup {b \in DataBlocks : Data(b) \in logged'[p]}
      /\ home' = [b \in DataBlocks |-> IF b \in pinned' THEN content'[b] ELSE home[b]]
      /\ UNCHANGED <<disknode, ops, dataPanic>>

(* bget() takes the buffer of a block that the log does not pin for        *)
(* another block: the next read is of the disk.                            *)
recycle(b) ==
  /\ b \notin pinned /\ content[b] # home[b]
  /\ content' = [content EXCEPT ![b] = home[b]]
  /\ UNCHANGED <<inUse, home, pinned, inode, disknode, op, logged, bytes, ops, dataPanic>>

(* The end_op() that leaves no call outstanding commits: the one of a call *)
(* here, or of another of the file system that was in between.             *)
InTransaction(p) == op[p].pc \in {"writei", "iupdate"}
commit ==
  /\ pinned # {} /\ \A p \in Openers : ~InTransaction(p)
  /\ pinned' = {}
  /\ UNCHANGED <<inUse, content, home, inode, disknode, op, logged, bytes, ops, dataPanic>>

(* Mutant: the inode is written only when the file has grown. *)
writei_end_IfGrown(p) ==
  LET i == OpenOf[p]
      off == op[p].off + op[p].tot
      grown == IF off > inode[i].size THEN off ELSE inode[i].size
      left == op[p].left - op[p].tot
      again == op[p].tot = op[p].n1 /\ left > 0
  IN  /\ op[p].pc = "iupdate" \/ (op[p].pc = "writei" /\ op[p].tot = op[p].n1)
      /\ inode' = [inode EXCEPT ![i].size = grown, ![i].lock = FALSE]
      /\ disknode' = IF grown = inode[i].size THEN disknode
                     ELSE [disknode EXCEPT ![i] = [addrs |-> inode[i].addrs, size |-> grown]]
      /\ logged' = [logged EXCEPT ![p] = @ \cup {IBLOCK(i)}]
      /\ op' = [op EXCEPT ![p] = [AtRest EXCEPT !.pc = IF again THEN "chunk" ELSE "idle",
                                                 !.off = off, !.left = IF again THEN left ELSE 0]]
      /\ UNCHANGED <<inUse, content, home, pinned, bytes, ops, dataPanic>>

(* The end of writei() and of the chunk: the size, iupdate(), f->off; the  *)
(* next chunk follows if all of this one was written.                      *)
writei_end(p) ==
  LET i == OpenOf[p]
      off == op[p].off + op[p].tot
      grown == IF off > inode[i].size THEN off ELSE inode[i].size
      left == op[p].left - op[p].tot
      again == op[p].tot = op[p].n1 /\ left > 0
  IN  /\ op[p].pc = "iupdate" \/ (op[p].pc = "writei" /\ op[p].tot = op[p].n1)
      /\ inode' = [inode EXCEPT ![i].size = grown, ![i].lock = FALSE]
      /\ disknode' = [disknode EXCEPT ![i] = [addrs |-> inode[i].addrs, size |-> grown]]
      /\ logged' = [logged EXCEPT ![p] = @ \cup {IBLOCK(i)}]
      /\ op' = [op EXCEPT ![p] = [AtRest EXCEPT !.pc = IF again THEN "chunk" ELSE "idle",
                                                 !.off = off, !.left = IF again THEN left ELSE 0]]
      /\ UNCHANGED <<inUse, content, home, pinned, bytes, ops, dataPanic>>

-----------------------------------------------------------------------------
(* fileread() of n bytes moves f->off; readi() may fail to copy out.       *)
fileread(p, n) ==
  LET size == file(p).size
      r == IF op[p].off > size THEN 0 ELSE MinOf(n, size - op[p].off)
  IN  /\ op[p].pc = "idle" /\ ops < MaxFileOps /\ ~file(p).lock /\ r > 0
      /\ op' = [op EXCEPT ![p].off = @ + r]
      /\ ops' = ops + 1
      /\ UNCHANGED <<inUse, content, home, pinned, inode, disknode, logged, bytes, dataPanic>>

(* The blocks the addresses lead to: data blocks and the indirect block. *)
Indirect(addrs) ==
  IF addrs[NDIRECT] = NoBlock THEN {}
  ELSE {content[addrs[NDIRECT]].addrs[k] : k \in 0..NINDIRECT - 1} \ {NoBlock}
Mapped(addrs) == ({addrs[k] : k \in 0..NDIRECT} \ {NoBlock}) \cup Indirect(addrs)

(* sys_open() with O_TRUNC, which makes f->off 0, and itrunc(): every      *)
(* block is freed, then the inode is empty; bfree() panics on a block that *)
(* is free.                                                                *)
itrunc(p) ==
  LET i == OpenOf[p]
      gone == Mapped(inode[i].addrs)
      empty == [addrs |-> [k \in 0..NDIRECT |-> NoBlock], size |-> 0]
  IN  /\ op[p].pc = "idle" /\ ops < MaxFileOps /\ ~inode[i].lock
      /\ dataPanic' = ~(gone \subseteq inUse)
      /\ inUse' = inUse \ gone
      /\ inode' = [inode EXCEPT ![i] = [addrs |-> empty.addrs, size |-> 0, lock |-> FALSE]]
      /\ disknode' = [disknode EXCEPT ![i] = empty]
      /\ op' = [op EXCEPT ![p].off = 0]
      /\ ops' = ops + 1
      /\ UNCHANGED <<content, home, pinned, logged, bytes>>

DataNext ==
  \/ \E p \in Openers :
       \/ filewrite_chunk(p) \/ writei(p) \/ writei_end(p) \/ itrunc(p)
       \/ \E n \in {1, max, max + 1} : filewrite(p, n) \/ fileread(p, n)
  \/ \E b \in DataBlocks : recycle(b)
  \/ commit

DataSpec == DataInit /\ [][DataNext]_dataVars

-----------------------------------------------------------------------------
(* Properties *)

(* Every block belongs to one file at one place, and the bitmap marks the  *)
(* blocks of the files and no others: also after a write that failed half  *)
(* way, for want of space or of the user's memory.                         *)
BlocksExact ==
  /\ inUse = UNION {Mapped(inode[i].addrs) : i \in Inos}
  /\ \A i, j \in Inos : i # j => Mapped(inode[i].addrs) \cap Mapped(inode[j].addrs) = {}
  /\ \A i \in Inos :
       /\ {inode[i].addrs[k] : k \in 0..NDIRECT} \cap Indirect(inode[i].addrs) = {}
       /\ \A j, k \in 0..NDIRECT : j # k => inode[i].addrs[j] # inode[i].addrs[k] \/ inode[i].addrs[j] = NoBlock
  /\ ~dataPanic

(* Where byte o of file i is, by the blocks as the cache or the disk has them *)
AddrOf(blocks, i, bn) ==
  IF bn < NDIRECT THEN inode[i].addrs[bn]
  ELSE IF inode[i].addrs[NDIRECT] = NoBlock THEN NoBlock
  ELSE blocks[inode[i].addrs[NDIRECT]].addrs[bn - NDIRECT]

(* A file has a block for every byte it has: readi(), which runs outside   *)
(* transactions, never makes bmap() allocate.                              *)
NoHole == \A i \in Inos : \A o \in 0..inode[i].size - 1 : AddrOf(content, i, o \div BSIZE) # NoBlock

(* Every byte of a file is the one that a write reported there last, in    *)
(* the buffers and also once they are recycled and the transaction is      *)
(* committed: nothing writei() reported is lost with a buffer.  Only where *)
(* a later write failed in the middle of its copy may its byte be there    *)
(* instead.                                                                *)
ReadsBack ==
  \A blocks \in {content, home} : \A i \in Inos : \A o \in 0..inode[i].size - 1 :
    blocks[AddrOf(blocks, i, o \div BSIZE)].data[o % BSIZE] \in bytes[i][o]

(* When no call works on an inode, the copy on the disk is the one in      *)
(* memory: a block that bmap() added is not lost with the table entry.     *)
DiskCurrent ==
  \A i \in Inos : ~inode[i].lock => disknode[i] = [addrs |-> inode[i].addrs, size |-> inode[i].size]

(* A chunk of filewrite() fits in the log: no more than MAXOPBLOCKS        *)
(* distinct blocks, even if every block has a bitmap block of its own.     *)
TransactionFits == \A p \in Openers : Cardinality(logged[p]) <= MAXOPBLOCKS
=============================================================================
