# A TLA+ verification of the xv6 kernel with co_yield

This directory models the kernel in `kernel/` (xv6 for RISC-V, extended with the
system calls `memsize` and `co_yield`), and the parts of `user/` and `mkfs/` that
work closely with it, in TLA+. TLC checks the models on small instances; TLAPS
proves the main safety properties of processes, sleep locks, the log, pipes, the
console, the buffer cache and the disk driver for every value of their constants,
and that four of them implement their abstract specifications.

## 1. The system

| Part | Code | Modules | Status |
|---|---|---|---|
| Process table: fork, exit, wait, kill | `kernel/proc.c` | `Proc` | modelled |
| Scheduler, sched, yield, sleep, wakeup | `kernel/proc.c`, `swtch.S` | `Proc` | modelled, one CPU |
| co_yield | `kernel/proc.c`, `sysproc.c` | `Proc` | modelled |
| Traps, timer and device interrupts | `kernel/trap.c` | `Proc` | control flow |
| System call dispatch, arguments | `kernel/syscall.c`, `vm.c` | `Proc`, `Text` | partly |
| Ticks and sleep | `kernel/trap.c`, `sysproc.c` | `Clock` | modelled |
| Spinlocks, interrupt nesting | `kernel/spinlock.c` | `Proc`, `SleepLock` | partly |
| Sleep locks, sleep/wakeup handshake | `kernel/sleeplock.c`, `proc.c` | `SleepLock` | modelled, many CPUs |
| Write-ahead log and recovery | `kernel/log.c` | `Log`, `Transactions` | modelled |
| Buffer cache | `kernel/bio.c` | `BufferCache`, `BlockStore` | modelled |
| Disk driver | `kernel/virtio_disk.c` | `VirtioDisk` | modelled |
| Console, UART | `kernel/console.c`, `uart.c` | `Terminal`, `Tty` | modelled |
| Pipes | `kernel/pipe.c` | `Pipe`, `Fifo`, `FileTable` | modelled |
| File table, descriptors | `kernel/file.c`, `sysfile.c` | `FileTable` | modelled |
| Inodes, directories, paths | `kernel/fs.c`, `sysfile.c` | `Namespace`, `Text` | modelled |
| Blocks and contents of files | `kernel/fs.c`, `file.c` | `FileData` | modelled |
| Page allocator, virtual memory, exec | `kernel/kalloc.c`, `vm.c`, `exec.c` | `Memory` | user address spaces |
| Printing and strings | `kernel/printf.c`, `string.c`, `user/printf.c`, `ulib.c` | `Text` | partly |
| User allocator | `user/umalloc.c` | `Umalloc` | modelled |
| Shell and init | `user/sh.c`, `init.c` | `ShParse`, `Shell` | modelled |
| grep and wc | `user/grep.c`, `wc.c` | `Filters`, `Text` | modelled |
| File system builder | `mkfs/mkfs.c` | `Mkfs` | modelled |
| Boot, PLIC, RAM disk, tests | `kernel/*.S`, `main.c`, `user/usertests.c`, ... | | not modelled |

How they interact: a system call enters through `usertrap()`, runs on the
process's kernel thread, and may sleep on a channel; `wakeup()` on the channel
makes it RUNNABLE and `scheduler()` switches back to it. `co_yield` is the one
place where a kernel thread switches to another without `scheduler()`. File
system calls find inodes by path, and bracket their writes with `begin_op()` and
`end_op()` of the log, which reads and writes blocks through the buffer cache; the
cache's buffers are protected by sleep locks and filled by the disk driver, whose
interrupt handler wakes the caller. Descriptors lead through the file table to
inodes, pipes or the console. The shell and init are ordinary processes that live
on fork, exec, wait, pipe and dup.

The models meet at these interfaces. `BufferCache` runs on the actions of
`VirtioDisk` themselves. `Log` takes the buffers to be what `BlockStore` says,
which `BufferCache` implements. `FileData` counts what a transaction logs, and
`Log` shows that a transaction of that size is atomic. `Shell` parses its lines with
`ShParse`. Elsewhere a component sees its neighbours as choices: an allocation that
may fail, a copy that may end early, a wakeup that may be spurious.

## 2. The models

**`Proc`** has the fields of `struct proc` that decide scheduling (`state`, `pid`,
`parent`, `chan`, `killed`, the trap frame's `a0` and `a1` as co_yield uses them),
the kernel threads (`ctx`: where `swtch` resumes; `pc`: what runs next; the locals
`np`, `copid`, `saved`), and `struct cpu` (`held` p->locks, `cpuproc`, `intena`,
the interrupt flag, the thread on the CPU, `scheduler()`'s loop variable). The
Makefile configures one CPU (`CPUS := 1`), and a spinlock keeps interrupts off, so
a step is the code from one point where an interrupt or a `swtch` can come in to
the next. Actions: `SchedSkip/SchedRun/SchedReturn` (scheduler), `Resume*` (the
code after each `swtch`), `Ecall/Fault/Sysret/Timer/Device/IdleInterrupt` (trap.c),
`Fork*`, `Exit*`, `Wait*`, `Kill`, `SleepLoop/SleepDone` (sys_sleep), and
`CoYieldFail/CoYieldMeet/CoYieldFirst`. Abstractions:

- `IOBlock` and `IODone` stand for every other system call that may sleep; all
  their channels are one, woken by device interrupts;
- a scan of the table is one step; fork may take any UNUSED slot, and `kill(0)`
  may meet any of them;
- `a0`, `a1` are 0 while co_yield does not use them, `intena` is 0 while no lock
  is held; exit status, names, files and memory are left out, except that an
  allocation may fail;
- the file system initialisation in the first `forkret()` is left out;
- user code is arbitrary: any process makes any of `Calls` at any time.

`ProcInv` states the inductive invariant; `MCProc` has the sets of calls for TLC.

**`Log`** has the disk (home blocks, log blocks, header), the buffers (contents and pins),
the header in memory, `outstanding`, `committing`, where `commit()` or the recovery is,
and the calls in progress. Each disk write is a step, and `Crash` may come between any
two, in recovery too. A block is written entirely or not at all; an unpinned and unlocked
buffer may be recycled at any time; a call locks one buffer at a time, and logs what it
changed before it lets go of it, as the comment at `log_write()` asks of callers (section
5 names one that does not). **`Transactions`** is what it promises: writes of whole system
calls become durable at once or not at all.

**`SleepLock`** takes `acquiresleep`, `releasesleep`, `holdingsleep`, `sleep`,
`wakeup` and the part of `scheduler()` that matters one spinlock at a time, with
every process on a CPU of its own. `kill()` is a source of spurious wakeups.
Spinlocks are atomic; the swap instruction and fences are below the model.

**`Pipe`** has the ring and its counters modulo `UINT` (2^32 in the code), several
readers and writers that share the ends, `kill()`, failing copies and closes. A
step is one turn of a loop. It assumes one CPU: `kill()` does not come while
`pi->lock` is held. **`Fifo`** is the bounded queue it promises.

**`VirtioDisk`** has the descriptors and their free set, the avail and used rings
with indices modulo `IDX` (2^16 in the code), `disk.info`, and the device, which
starts requests in order, completes them in any, and raises an interrupt that the
handler acknowledges before it drains the used ring. A step is what happens under
`vdisk_lock` up to a `sleep()`, but the avail index moves in a step of its own and
the handler takes one for each completion, so the device comes in between.

**`BufferCache`** adds the list of buffers in order of last use, `refcnt`, `valid` and the
sleep locks. A step is a critical section of `bcache.lock` or the taking of a buffer's
lock. Users read a block; they change and pin it, or change it and write it to the disk at
once, pinned (then it is unpinned, as in `install_trans()`) or not (as in `write_log()`,
`write_head()` and the recovery); one block each at a time. **`BlockStore`** is its
promise: one holder per block, who reads what was last written there.

**`Terminal`** is console.c over uart.c, both halves: line editing and echo under
`cons.lock`, the output ring under `uart_tx_lock`, the interrupt handler, polled output.
The keyboard has one key of room and the UART's transmitter is a queue. **`Tty`** is
the input half's promise: a line under edit, and readable text that only readers change.

**`FileTable`** has `ftable`, the descriptors of each process and the pipe ends; open,
pipe, dup, close, fork and exit take their allocations and releases one at a time.
**`Namespace`** has the inodes on disk (type, nlink, directory entries), the inode table
(ref, lock, inum), current directories, and each process's position in its call; a
step ends where an inode lock is taken while another is held, between path elements, and
on both sides of the freeing in `iput()`. **`FileData`** has the bitmap, inodes with direct
and indirect addresses in memory and on disk, and offsets; filewrite() takes a step
for each block of a chunk, so that writers of other files take blocks in between. A
block has a `content` in its buffer and a `home` on the disk. They differ while the block
is logged and not committed, and after a copy from the user that failed part of the way:
`writei()` then releases the buffer changed and not logged, and it stays so until it is
recycled (`recycle`, which takes only buffers that are not pinned) or a later write logs
it. `bytes` has what may be read at each offset: one value, or both after such a copy.

**`Memory`** has physical pages, page tables of three levels with fan-out 2, and
sizes in bytes with two to a page. The loops of `uvmalloc()` and `uvmcopy()` and the
parts of `exec()` are steps, and memory may run out at each; an exec's segments are
of one page. The order of the free list is left out.

**`Clock`** has `ticks` modulo `WORD` and sleepers; a sleeper runs again at most `LAG`
ticks after it is woken. **`Umalloc`** has the free list as pointers and sizes, counted in
headers. **`ShParse`** is the recursive parser, checked against a grammar over typed
lines; **`Shell`** has the processes of a session with their descriptors, two kinds of
program and one fault (a fork or exec that fails); `Sessions` are the lines typed into
it. **`Text`** and **`Filters`** are
functions and loops over byte sequences: the matcher, both printf, atoi (in an int that
wraps, up to the first character that is no digit), both memmove,
skipelem, namecmp, the copies across pages; grep and wc, whose `read()` returns any
number of bytes. **`Mkfs`** builds an image append by append.

## 3. What TLC checks

A run over several components starts in the initial states of one of them, `part`,
and takes only its steps; the others' variables stay as they start, most of them at
`Off`. It is the union of their state spaces, not a product. A property named
`Data_X` says `X` while `data` is the part that runs. The disk driver, the cache, the
pipe, the terminal, the sleep lock and the clock start in their own initial states
whichever part runs, so that the run checks the very properties of their modules
that the theorems state.

| Run | Instance | Shows |
|---|---|---|
| `process_table` | 3 slots, 4 pids (1.15M states) | CPU and lock ownership, no lock panic, no co_yield cycle, rendezvous values, no lost exit, interrupts on, what may wake a co_yield sleeper |
| `process_progress` | 2 slots, 3 pids, every call, fair (8 252) | `IInv` of the proofs (type, living parents and the rest); runnable processes run, killed ones die |
| `co_yield_starvation` | 3 slots, fork and co_yield, fair | co_yield pairs do not starve a third |
| `log_crash` | 2 calls, 2 blocks, 2 contents (351k) | `Log` implements `Transactions`; durable at rest; pins balance |
| `file_system` | three parts (284k) | see below |
| `services` | ten parts (1.04M) | see below |
| `progress` | seven parts, fair (19k) | see below |

**`file_system`**. *Cache* (2 processes, 2 buffers, 3 blocks, 3 descriptors): a block has
one buffer and references are counted exactly (`BuffersExact`), and `BufferCache`, with
the disk driver under it, implements `BlockStore` (`IsBlockStore`). *Names* (2
processes, 4 calls in all, 4 inodes, a disk that may be full): no panic, `ref` is exact,
an inode that a name leads to is not freed, `iput()` never blocks with a spinlock held,
and no two processes wait for each other's inodes. *Mkfs* (3 inodes): the bitmap is
exact, the data is in place.

**`services`**. *Disk* (3 requests, 7 descriptors): descriptors are owned by one request,
no panic, no completion lost (`RequestsKept`). *Files* (2 processes, 3 files, 2
descriptors each, one pipe): references are exact on all failing paths, and what a file
stands for is closed once, after its last reference. *Data* (2 files, 6 blocks, 1 direct
address): blocks have one owner, files have no hole, reads return what was written, from
the buffer and from the disk after a commit (where a copy failed, the old byte or the
new), the disk's inode is up to date at the end of each transaction, and a chunk fits into
`MAXOPBLOCKS`. *Pipe* (2 writers, 1 reader, ring of 2, counters mod 4): `Pipe` implements
`Fifo` (`IsFifo`), nobody sleeps with something to do (`NobodyForgotten`). *Tty* (a
reader, a writer, input buffer of 2): `Terminal` implements `Tty` (`IsTty`), a reader is
woken for each line (`LineReaderWoken`). *Memory* (2 processes, 22 pages, up to 8 of them
held by others): no page is lost or shared, an image has exactly the pages of its size,
the guard page stays closed. *Umalloc* (11 headers): blocks tile the heap, free neighbours
are joined, the break is only moved when no block fits. *Parser* (all lines of 5
characters over 8): it accepts and builds what the grammar says, and `nulterminate()` cuts
every word exactly. *Text*: all inputs up to a length against what is meant; an int
printed without a sign reads back with `atoi()`, whatever follows it, and one printed as
negative reads as 0. *Filters* (6 bytes in any pieces): grep prints the matching lines, up
to one that fills its buffer; wc counts.

**`progress`**. *Lock* (3 processes and CPUs): exclusion, no missed wakeup, sleepers run
again. *Pipe* (1 and 1, ring of 1): blocked calls return. *Log* (3 calls, space for 2):
those that wait for space or for the commit are woken. *Disk* (3 processes, 4
descriptors): every request returns though only one fits. *Console* (2 writers, ring of
1): output in order, the UART's queue is not overrun, writers are woken. *Clock* (ticks
mod 8): a sleep lasts as long as asked, and longer only by the time to be scheduled.
*Shell* (nine lines, and three after one in the background; 7 slots, 2 pipes, one fault):
no process but the writers keeps a pipe's writing end, the shell waits for its own
command, it prompts again, and init reaps all zombies.

Bounds. Three slots give init, a pair and slot reuse (four pids). A zombie that
`reparent()` hands to an init already asleep needs a family of four, which no run has:
`NoLostExit` for it rests on the theorem `ExitNeverLost`. One value suffices where values
are not compared. Two blocks with two contents distinguish old from new, lost and
half-installed transactions. A fork that is not finished while another process exits takes
three slots (`process_table`); `process_progress` has two, and for that case `IInv` rests
on the theorem `Invariance`. A segment of one page lets `exec()` fail in every part, but
not inside a segment. Counters wrap in every position; each modulus is a multiple of its
ring's size, as 2^32 and 2^16 are. Three blocks in two buffers make every read recycle; 7
descriptors hold two requests and part of a third. Four calls on names are two for each of
two processes, or a sequence that undoes itself; a tree has two levels. Two processes can
fork, exec and exit around each other. `Symmetry` permutes processes in `file_system`,
which has no liveness. In `progress` the processes are interchangeable, and the log's,
disk's and console's liveness is stated for one of them; pipes have one process at each
end there, so liveness among those that share an end is not checked.

Fairness. `Proc`: the CPU executes; timer and device interrupts stay pending until
taken; a thread that gets the CPU again and again makes progress; what a sleeping
system call waits for arrives. User code owes nothing. `Log`: calls end, the disk
answers. `SleepLock`: CPUs execute, spinlocks do not starve (`acquire()` gives no
order, so this is an assumption), and `scheduler()` starts RUNNABLE processes,
which `RunnableRuns` shows on one CPU. `Pipe`: the users of the other end read,
write at a good address, or close; without that a call may block for ever, rightly.
`VirtioDisk`: the device completes what it has, interrupts are taken, and a process
that finds descriptors free again and again gets them at some time (`sleep()` gives no
order). `Terminal`: the UART sends, interrupts are taken, and the handler, which
first reads all keys there are, is not kept from output by typing for ever. `Clock`: ticks
come and woken processes run within `LAG`. `Shell`: some process that can go on does;
programs read and write until their end.

### Where code and documentation disagree

- `co_yield_value`: a process that parks again after an exchange resumes with the
  value of the earlier one, because `a0` is only filled while it is -1.
- `co_yield_identity`: a parked process names its peer by slot; a new process in
  that slot can complete the exchange.
- `kill_free_slot`: `kill(0)` marks a free slot, and the next process there is born
  killed.
- `log_full`: `begin_op()` counts `LOGSIZE` blocks, but `log_write()` panics at
  `log.size - 1`, one less with mkfs's log size. It takes three concurrent calls
  that each write all `MAXOPBLOCKS` distinct blocks; we know of no system call that
  writes that many. With that log size, calls of at most `MAXOPBLOCKS - 2` blocks are
  safe: `LogSuffices` proves it for any number of calls (the bound is sufficient; that it
  is the best one is not claimed).
- `inode_leak`: `iput()` frees an unlinked inode and drops `ref` later. If another
  process creates a file with that inode number and unlinks it in between, its
  `iput()` sees a second reference and leaves the freeing to the first, which does not
  look again: the inode stays allocated, without link or reference.

## 4. What TLAPS proves

Each result holds for every value of the constants within the named assumptions of
the module it is about; TLC evaluates those assumptions in the runs. All are safety:
an inductive invariant with its three facts, and what follows from it.

**Processes** (`ProcProofs`; any `NPROC`, `MaxPid`, `Values`, `Calls`). `TypeCorrect`,
`Invariance` (`[]IInv`), and from it `CpuOwnershipHolds`, `NoLockPanic`,
`CoYieldAcyclic`, `RendezvousValue`, `ExitNeverLost`, `NoOrphans`, `Interruptible` and
the action property `CoSleepersUndisturbed`. The safety properties are not inductive
alone. `IInv` adds where a thread can be suspended in each state (`ContextInv`), what
a co_yield sleeper's channel and registers hold and that only `kill()` makes it RUNNABLE
(`CoYieldInv`), that a thread suspended with interrupts off is killed or exiting
(`SavedInv`), that an unfinished fork owns its USED child (`ForkInv`), and that init
lives. The central argument: `p->lock` of `mycpu()->proc` is the only lock held at a
switch, whoever switches, so each resumed thread releases the lock it was handed.
Cycles: a direct switch parks the caller on a process it has just made RUNNING, which
is in no cycle.

**Sleep locks and the clock** (`SleepProofs`; any processes, one CPU each).
`SleepLockExcludes`, `SleepMissesNoWakeup`, `HoldingSleepTrue`: the invariant says which
spinlocks are held at each point; the step it needs is that a process between
`acquire(&p->lock)` and `sched()` still has the releaser's `wakeup()` ahead of it.
`ClockSleepExact`: `sys_sleep()` returns after n ticks, modulo any `WORD`, provided the
wait and the scheduling delay together stay below `WORD` (`ClockAssumption`): otherwise
the difference `ticks - ticks0` passes through 0 unseen.

**The log** (`LogProofs`, `LogAtomicProofs`; any blocks, contents, finite set of processes,
log sizes). `LogInvariance` (`[]LogInv`): the calls in progress are counted
(`CallsInv`), what the two headers list at each stage of `commit()` and of the recovery
(`HeadersInv`), and that a buffer that is neither in the log nor being modified is as on
the disk (`BuffersInv`), which is what lets it be recycled. `LogDurable`,
`LogPinsBalance`, and `LogIsAtomic`: `Log` implements `Transactions`. What
`Transactions` has on its disk is what a recovery would make of the real one
(`Recovered`); it changes only where `write_head()` changes the header's count, and a
crash does not change it. `LogSuffices`: if calls write few enough blocks (`CallsFit`),
`log_write()` and `end_op()` do not panic; its invariant counts, over the calls in
progress, the entries that `begin_op()` reserved and that are not used yet.

**Pipes and console input** (`QueueProofs`; any readers and writers, any ring size that
divides the modulus of the counters). Lemmas on rings say what a ring holds after a
byte is added, taken or taken back, across the wrap. `PipeInvariance`,
`PipeForgetsNobody`, `PipeIsFifo`; the invariant has to say that a sleeper's wakeup is
still to come from a process inside the other call (`SleepersInv`). `TermInvariance`,
`TermWakesReaders`, `TermIsTty`: `Terminal` implements `Tty`, with output and echo
interleaved. That the indices satisfy `r <= w <= e <= r + INPUT_BUF_SIZE` is said of
their distances modulo `TTYWORD` (`InOrder`), so that they can wrap.

**The buffer cache** (`CacheProofs`; any `NBUF`, blocks, processes). `CacheInvariance`
and `CacheExact` (`BuffersExact`): the list is a permutation of the buffers, so that a
scan meets every one; a buffer in use is the only copy of its block; a process has its
buffer's sleep lock from `acquiresleep()` to `releasesleep()`; a pinned block is cached.
With these `refcnt` is exactly the number of users plus the pin.

**The disk driver** (`DiskProofs`; any finite set of processes, any buffers and blocks,
`NUM >= 3` descriptors, `NUM` dividing `IDX`: `RingAssumption`, `DriverAssumption`).
`DriverKeepsRequests`: no descriptor leaks or serves two requests, neither
`free_desc()` nor `virtio_disk_intr()` panics, no process sleeps for a completion that
is lost. `DiskInv` needs that

- the chain of each request is three different descriptors, none free, that name its
  buffer, block and direction (`ChainInv`), chains are disjoint (`ChainsApart`), and
  free ones and three for each request are `NUM` (`CountInv`), so that none leaks;
- a request is queued, with the device, or completed, in one of these places
  (`PlaceInv`), exactly while its buffer's `disk` flag is 1 (`RequestInv`);
- the slots of each ring in use are those from the consumer's index to the producer's, and
  one more while a process publishes (`AvailInv`, `UsedInv`); they cannot run into each
  other, because each entry is the head of a chain of its own and there are only `NUM`
  descriptors;
- completions that are not handled have an interrupt pending or the handler running
  (`LockInv`).

`alloc_desc()` takes the lowest free descriptor; that there is one is well-ordering. In
`DriverSpec` each process has a buffer of its own (`DiskProcs \subseteq Bufs` in the
theorem); the next result is without that.

**Cache and driver together** (`StoreProofs`). `StoreInvariance`, `CacheIsBlockStore`:
`BufferCache` over `VirtioDisk` implements `BlockStore`, whatever is evicted, filled,
pinned and written back, and in whatever order the device completes requests.
`CacheKeepsRequests`: `RequestsKept` under the requests that the cache really makes. A
block reads as its valid buffer, or as the disk where there is none. `StoreInv` joins both
invariants: a process in the driver is there for the buffer whose lock it has, to fill it
or to write it (`InDriver`); its request is still to be carried out, or buffer and disk
agree (`Carried`); a valid buffer agrees with the disk unless it is pinned or its holder
is in `bwrite()` (`AllClean`). So eviction, which takes only buffers nobody uses or has
pinned, changes nothing that can be read; the device writes only into buffers that are not
valid, and a sector only while its block is held by the process that asked for it; and
only the holder changes a valid buffer. The refinement `Log` relies on is thereby proved
down to the rings of the disk.

Only model-checked, and why:

- liveness (`RunnableRuns`, `KilledDies`, `SleepersWoken`, `Shell_SessionGoesOn`): it
  needs fairness and ENABLED, which are out of the prover's reach;
- what recursive functions compute, and the modules built on them (`Text`, `ShParse`,
  `Mkfs`, `Filters`, `Shell`): the provers have no induction over data;
- the order of console output (`Console_OutputInOrder`): it filters a sequence, about
  which the provers know nothing without induction;
- `Namespace`, `FileData`, `Memory`, `Umalloc`: their invariants follow directories,
  addresses, page tables and free lists, sets that are reached step by step, which is
  induction again; `FileTable`, whose counts are like the cache's, is not proved yet.

## 5. Limits of the code that the models show

No property claims the following; the models contain the behaviour, or say that
they exclude it.

- `bget()` panics when all buffers are in use, `iget()` when all inodes are: 50 inodes
  serve 100 files and 64 current directories.
- A file created in a directory that is removed meanwhile keeps a link without a name.
- `..` of a removed current directory whose parent is removed too leads to an inode that
  is free or another's. The calls of the instances have no path with `..`.
- A `write()` whose copy fails part of the way leaves bytes in a buffer that is not logged:
  readers see them until the buffer is recycled, unless another write logs the block first.
  That is not what the comment at `log_write()` (log.c:205-213) describes, on which `Log`,
  and so `LogDurable`, relies: such bytes are neither durable nor undone. They are bytes of
  the caller's own write, and `Data_ReadsBack` covers them.
- That `itrunc()` fits into a transaction depends on the number of bitmap blocks.
- `sbrk()` of a negative number beyond the size succeeds and changes nothing.
- `sleep()` of a negative number lasts nearly 2^32 ticks.
- A newline typed into a full input buffer is dropped. Output waits while keys keep coming.
- `alloc3_desc()` wakes other waiters each time it fails half-way, who then fail too.
- grep stops at a line that fills its buffer and drops a last line without newline.
- The shell's `cd` removes the last character of its line even when that is no newline.
- When the second fork of a pipeline fails, the first command runs on as an orphan. init
  exits when its fork fails.
- mkfs gives the root directory one block too many when its entries fill its blocks, and
  checks neither the number of inodes nor that of blocks.
- malloc() of 2^31 bytes or more passes sbrk() a number that is no longer positive.
- On several CPUs `pipewrite()` can be killed between two bytes and return without
  waking the readers of the first. `Pipe` models one CPU, as the Makefile configures.

## 6. Not modelled

- Boot, `main.c`, `start.c`, register saving in assembly, the PLIC and the UART's and
  disk's set-up: straight-line code below the abstraction; their result is `Init`.
- The kernel's own page table and the bits of page table entries.
- The pages `sys_exec()` holds for arguments, and the argument strings on the stack.
- `ramdisk.c`, which is not built.
- `usertests.c`, `grind.c`, `forktest.c`, `stressfs.c` and the tests of co_yield: they are
  tests, and say what is expected of the parts above.
- The remaining utilities (ls, ln, rm, mkdir, kill, ...), which make a call and report.
- The composition of names with contents: `Namespace` sees entries of a directory, not
  its blocks, and `FileData` files, not directories.
- Two buffers held at once. `write_log()` and `install_trans()` hold a log block and its
  home block, `bmap()` and `itrunc()` the indirect block and another. In `BufferCache` a
  process has one; what it shows of each buffer does not depend on the other, but how many
  buffers are needed for all to make progress does.
- Spinlocks as atomic instructions, and memory order.

Next: a proof for `FileTable`; several CPUs for `Pipe`; a composition of `Log` with `BufferCache`, for which both
refinements are proved; callers that hold two buffers at once.
