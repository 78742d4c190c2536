-------------------------------- MODULE Log ---------------------------------
(***************************************************************************)
(* The write-ahead log of kernel/log.c: transactions of concurrent file    *)
(* system calls, group commit, and recovery after the machine stops        *)
(* between any two disk writes.                                            *)
(*                                                                         *)
(* Granularity.  A step is a critical section of log.lock, or the bread,   *)
(* memmove and bwrite of one block; the disk writes one block at a time    *)
(* and writes it entirely or not at all.  The buffer cache is the contents *)
(* that bread() returns: a block nobody has pinned or locked may be        *)
(* recycled at any time and is then read again from the disk.  A call logs *)
(* what it changed before it releases it, as log_write() asks of callers;  *)
(* for the failing copy in writei(), which does not, see FileData.         *)
(***************************************************************************)
EXTENDS Integers, FiniteSets

CONSTANTS
  Procs,        \* processes that make file system calls
  Blocks,       \* home blocks of the file system
  Contents,     \* contents of a block
  MAXOPBLOCKS,  \* log space begin_op() reserves for a call (param.h)
  LOGSIZE,      \* entries of a log header (param.h)
  nlog,         \* blocks of the on-disk log, its header included (mkfs.c)
  OpBlocks,     \* bound of the model: distinct blocks one call writes
  NoBlock       \* an entry of a header that was never written

ASSUME ProcsAssumption == IsFiniteSet(Procs)
ASSUME SizesAssumption ==
  /\ MAXOPBLOCKS \in Nat \ {0} /\ LOGSIZE \in Nat /\ nlog \in Nat /\ OpBlocks \in Nat
  /\ MAXOPBLOCKS <= LOGSIZE
ASSUME NoBlockAssumption == NoBlock \notin Blocks

VARIABLES
  disk,         \* home blocks on the disk
  dlog,         \* log blocks on the disk
  dn, dblock,   \* the log header on the disk
  cache,        \* what bread() of a home block returns
  pins,         \* references bpin() holds on the block's buffer
  n, block,     \* log.lh, the header in memory
  outstanding, committing,
  stage,        \* where commit() or recover_from_log() is
  tail,         \* loop variable of write_log() and install_trans()
  pc, buf,      \* of each process: what it does, the buffer it has locked
  wrote,        \* of each process: the blocks its call has written
  panic

persistent == <<disk, dlog, dn, dblock>>
buffers == <<cache, pins>>
log == <<n, block, outstanding, committing>>
calls == <<pc, buf, wrote>>
vars == <<persistent, buffers, log, stage, tail, calls, panic>>

Entries == 1..LOGSIZE
Booting == {"read_head", "recover"}
Stages == Booting \cup {"none", "write_log", "install", "done"}

(* A file system without a pending transaction, when forkret() runs fsinit() *)
Init ==
  /\ disk \in [Blocks -> Contents]
  /\ dlog = [i \in Entries |-> NoBlock]
  /\ dn = 0 /\ dblock = [i \in Entries |-> NoBlock]
  /\ cache = disk
  /\ pins = [b \in Blocks |-> 0]
  /\ n = 0 /\ block = [i \in Entries |-> NoBlock]
  /\ outstanding = 0 /\ committing = 0
  /\ stage = "read_head" /\ tail = 0
  /\ pc = [p \in Procs |-> "idle"]
  /\ buf = [p \in Procs |-> NoBlock]
  /\ wrote = [p \in Procs |-> {}]
  /\ panic = "none"

-----------------------------------------------------------------------------
(* begin_op() and end_op() *)

Up == stage \notin Booting /\ panic = "none"
Goto(p, point) == pc' = [pc EXCEPT ![p] = point]

(* wakeup(&log), after p went on to point *)
WakeupLog(p, point) ==
  pc' = [q \in Procs |-> CASE q = p -> point
                           [] q # p /\ pc[q] = "sleep" -> "begin"
                           [] OTHER -> pc[q]]

HasRoom == n + (outstanding + 1) * MAXOPBLOCKS <= LOGSIZE

begin_op(p) ==
  /\ Up /\ pc[p] \in {"idle", "begin"}
  /\ committing = 0 /\ HasRoom
  /\ outstanding' = outstanding + 1
  /\ Goto(p, "op")
  /\ wrote' = [wrote EXCEPT ![p] = {}]
  /\ UNCHANGED <<persistent, buffers, n, block, committing, stage, tail, buf, panic>>

begin_op_sleep(p) ==
  /\ Up /\ pc[p] \in {"idle", "begin"}
  /\ committing = 1 \/ ~HasRoom
  /\ Goto(p, "sleep")
  /\ UNCHANGED <<persistent, buffers, log, stage, tail, buf, wrote, panic>>

(* Mutant: the last call out does not commit what is in the log. *)
end_op_NoCommit(p) ==
  /\ Up /\ pc[p] = "op"
  /\ outstanding' = outstanding - 1
  /\ panic' = IF committing = 1 THEN "log_committing" ELSE panic
  /\ IF outstanding' = 0
     THEN committing' = 1 /\ Goto(p, "commit") /\ stage' = "done"
     ELSE WakeupLog(p, "idle") /\ UNCHANGED <<committing, stage>>
  /\ tail' = 0
  /\ UNCHANGED <<persistent, buffers, n, block, buf, wrote>>

(* The last call out commits; commit() of an empty log does nothing. *)
end_op(p) ==
  /\ Up /\ pc[p] = "op"
  /\ outstanding' = outstanding - 1
  /\ panic' = IF committing = 1 THEN "log_committing" ELSE panic
  /\ IF outstanding' = 0
     THEN /\ committing' = 1
          /\ Goto(p, "commit")
          /\ stage' = IF n > 0 THEN "write_log" ELSE "done"
     ELSE WakeupLog(p, "idle") /\ UNCHANGED <<committing, stage>>
  /\ tail' = 0
  /\ UNCHANGED <<persistent, buffers, n, block, buf, wrote>>

(* The rest of end_op(), after commit() *)
end_op_done(p) ==
  /\ Up /\ pc[p] = "commit" /\ stage = "done"
  /\ committing' = 0
  /\ stage' = "none"
  /\ WakeupLog(p, "idle")
  /\ UNCHANGED <<persistent, buffers, n, block, outstanding, tail, buf, wrote, panic>>

-----------------------------------------------------------------------------
(* A file system call's writes *)

Locked(b) == \E p \in Procs : pc[p] = "modify" /\ buf[p] = b

(* bread() and the change of b->data *)
modify(p, b, v) ==
  /\ Up /\ pc[p] = "op" /\ ~Locked(b)
  /\ Cardinality(wrote[p] \cup {b}) <= OpBlocks
  /\ cache' = [cache EXCEPT ![b] = v]
  /\ buf' = [buf EXCEPT ![p] = b]
  /\ wrote' = [wrote EXCEPT ![p] = @ \cup {b}]
  /\ Goto(p, "modify")
  /\ UNCHANGED <<persistent, pins, log, stage, tail, panic>>

(* Mutant: no absorption. *)
Absorbed_Never(b) == FALSE

Absorbed(b) == \E i \in 1..n : block[i] = b

(* log_write() and brelse(); its limits are checked before absorption. *)
log_write(p) ==
  /\ Up /\ pc[p] = "modify"
  /\ CASE n >= LOGSIZE \/ n >= nlog - 1 -> panic' = "too_big" /\ UNCHANGED <<n, block, pins>>
       [] n < LOGSIZE /\ n < nlog - 1 /\ outstanding < 1 ->
            panic' = "outside_of_trans" /\ UNCHANGED <<n, block, pins>>
       [] OTHER ->
            /\ IF Absorbed(buf[p])
               THEN UNCHANGED <<n, block, pins>>
               ELSE /\ n' = n + 1
                    /\ block' = [block EXCEPT ![n + 1] = buf[p]]
                    /\ pins' = [pins EXCEPT ![buf[p]] = @ + 1]
            /\ UNCHANGED panic
  /\ Goto(p, "op")
  /\ buf' = [buf EXCEPT ![p] = NoBlock]
  /\ UNCHANGED <<persistent, cache, outstanding, committing, stage, tail, wrote>>

(* bget() recycles an unused buffer; the block is read again when needed. *)
recycle(b) ==
  /\ pins[b] = 0 /\ ~Locked(b) /\ panic = "none"
  /\ cache' = [cache EXCEPT ![b] = disk[b]]
  /\ UNCHANGED <<persistent, pins, log, stage, tail, calls, panic>>

-----------------------------------------------------------------------------
(* commit() and recover_from_log() *)

(* One block of write_log() *)
write_log ==
  /\ Up /\ stage = "write_log" /\ tail < n
  /\ dlog' = [dlog EXCEPT ![tail + 1] = cache[block[tail + 1]]]
  /\ tail' = tail + 1
  /\ UNCHANGED <<disk, dn, dblock, buffers, log, stage, calls, panic>>

(* The header on the disk after write_head() with count entries of entry *)
HeadWritten(count, entry) ==
  /\ dn' = count
  /\ dblock' = [i \in Entries |-> IF i <= count THEN entry[i] ELSE dblock[i]]

(* write_head(): the transaction commits. *)
write_head ==
  /\ Up /\ stage = "write_log" /\ tail = n
  /\ HeadWritten(n, block)
  /\ stage' = "install" /\ tail' = 0
  /\ UNCHANGED <<disk, dlog, buffers, log, calls, panic>>

(* One block of install_trans(recovering) *)
install_trans(recovering) ==
  LET b == block[tail + 1] IN
  /\ tail < n
  /\ disk' = [disk EXCEPT ![b] = dlog[tail + 1]]
  /\ cache' = [cache EXCEPT ![b] = dlog[tail + 1]]
  /\ pins' = IF recovering = 0 THEN [pins EXCEPT ![b] = @ - 1] ELSE pins
  /\ tail' = tail + 1
  /\ UNCHANGED <<dlog, dn, dblock, log, stage, calls, panic>>

(* The log is cleared in memory and then on the disk. *)
clear(next) ==
  /\ tail = n
  /\ n' = 0
  /\ HeadWritten(0, block)
  /\ stage' = next /\ tail' = 0
  /\ UNCHANGED <<disk, dlog, buffers, block, outstanding, committing, calls, panic>>

commit ==
  \/ write_log \/ write_head
  \/ Up /\ stage = "install" /\ (install_trans(0) \/ clear("done"))

read_head ==
  /\ stage = "read_head"
  /\ n' = dn
  /\ block' = [i \in Entries |-> IF i <= dn THEN dblock[i] ELSE block[i]]
  /\ stage' = "recover" /\ tail' = 0
  /\ UNCHANGED <<persistent, buffers, outstanding, committing, calls, panic>>

(* Mutant: the log is discarded, not installed. *)
recover_from_log_Discards ==
  \/ read_head
  \/ /\ stage = "recover" /\ stage' = "none" /\ tail' = 0
     /\ n' = 0 /\ HeadWritten(0, block)
     /\ UNCHANGED <<disk, dlog, buffers, block, outstanding, committing, calls, panic>>

recover_from_log ==
  \/ read_head
  \/ stage = "recover" /\ (install_trans(1) \/ clear("none"))

(* The machine stops and starts again: memory is lost. *)
Crash ==
  /\ cache' = disk
  /\ pins' = [b \in Blocks |-> 0]
  /\ n' = 0 /\ block' = [i \in Entries |-> NoBlock]
  /\ outstanding' = 0 /\ committing' = 0
  /\ stage' = "read_head" /\ tail' = 0
  /\ pc' = [p \in Procs |-> "idle"]
  /\ buf' = [p \in Procs |-> NoBlock]
  /\ wrote' = [p \in Procs |-> {}]
  /\ panic' = "none"
  /\ UNCHANGED persistent

Next ==
  \/ \E p \in Procs : \/ begin_op(p) \/ begin_op_sleep(p)
                      \/ end_op(p) \/ end_op_done(p)
                      \/ log_write(p)
                      \/ \E b \in Blocks, v \in Contents : modify(p, b, v)
  \/ \E b \in Blocks : recycle(b)
  \/ commit \/ recover_from_log
  \/ Crash

Spec == Init /\ [][Next]_vars

(***************************************************************************)
(* Fairness.  File system calls are finite and the disk answers, so a call *)
(* that began ends, and commit() and recovery go on, unless the machine    *)
(* stops again.                                                            *)
(***************************************************************************)
Fairness ==
  /\ WF_vars(commit) /\ WF_vars(recover_from_log)
  /\ \A p \in Procs : /\ SF_vars(end_op(p)) /\ WF_vars(end_op_done(p))
                      /\ WF_vars(log_write(p))

FairSpec == Spec /\ Fairness

-----------------------------------------------------------------------------
(* Properties *)

(* The log, its header and the program counters hold what log.c stores in  *)
(* them.                                                                   *)
TypeOK ==
  /\ disk \in [Blocks -> Contents] /\ cache \in [Blocks -> Contents]
  /\ dlog \in [Entries -> Contents \cup {NoBlock}]
  /\ dn \in 0..LOGSIZE /\ dblock \in [Entries -> Blocks \cup {NoBlock}]
  /\ n \in 0..LOGSIZE /\ block \in [Entries -> Blocks \cup {NoBlock}]
  /\ pins \in [Blocks -> Nat]
  /\ outstanding \in Nat /\ committing \in {0, 1}
  /\ stage \in Stages /\ tail \in 0..LOGSIZE
  /\ pc \in [Procs -> {"idle", "begin", "sleep", "op", "modify", "commit"}]
  /\ buf \in [Procs -> Blocks \cup {NoBlock}]
  /\ wrote \in [Procs -> SUBSET Blocks]
  /\ panic \in {"none", "too_big", "outside_of_trans", "log_committing"}

(* The disk as recovery would leave it if the machine stopped now *)
Recovered ==
  [b \in Blocks |->
     IF \E i \in 1..dn : dblock[i] = b
     THEN dlog[CHOOSE i \in 1..dn : dblock[i] = b]
     ELSE disk[b]]

Active == {p \in Procs : pc[p] \in {"op", "modify"}}

Transaction == INSTANCE Transactions
  WITH durable <- Recovered,
       current <- (IF stage \in Booting THEN Recovered ELSE cache),
       active <- Active

(* Whenever the machine stops, recovery leaves the writes of whole system  *)
(* calls on the disk: the log implements atomic transactions, commits at   *)
(* write_head(), and no step of installing or recovering changes what a    *)
(* recovery would restore.                                                 *)
AtomicCommit == Transaction!Spec

(* When end_op() of the last call returns, its writes survive a crash: at  *)
(* rest, what bread() returns is what recovery would restore.              *)
DurableAtRest == stage = "none" /\ Active = {} => Recovered = cache

(* The checks of log_write() and end_op() never fire: what begin_op()      *)
(* reserves suffices for the calls it admits.                              *)
NoLogPanic == panic = "none"

(* bpin() and bunpin() balance: until the commit installs it, a logged     *)
(* block has exactly one reference of the log, however often it was        *)
(* written, and cannot be recycled; every other block has none.            *)
PinsBalance ==
  stage \in {"none", "write_log", "done"} =>
    \A b \in Blocks : pins[b] = IF \E i \in 1..n : block[i] = b THEN 1 ELSE 0

(* A call that waits in begin_op() is woken, whatever the others do.       *)
WaiterWoken == \A p \in Procs : pc[p] = "sleep" ~> pc[p] # "sleep"
=============================================================================
