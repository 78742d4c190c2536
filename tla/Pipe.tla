-------------------------------- MODULE Pipe --------------------------------
(***************************************************************************)
(* A pipe of kernel/pipe.c with several readers and writers that share its *)
(* ends, as after fork().                                                  *)
(*                                                                         *)
(* Granularity.  A step is one turn of a loop of piperead() or pipewrite() *)
(* by the process that holds pi->lock.  Interrupts are off while it does,  *)
(* so on one CPU kill() comes between critical sections only.  nread and   *)
(* nwrite are unsigned and wrap around, here at UINT instead of 2^32.      *)
(***************************************************************************)
EXTENDS Integers, Sequences

CONSTANTS
  Readers, Writers,  \* processes that inherited the read or the write end
  Bytes,
  PIPESIZE,
  UINT,              \* bound of the model: the counters are taken modulo UINT
  MaxLen,            \* bound of the model: the longest read or write
  None               \* no process

ASSUME PipeSizeAssumption ==
  /\ PIPESIZE \in Nat \ {0} /\ UINT \in Nat /\ MaxLen \in Nat
  /\ UINT > PIPESIZE /\ UINT % PIPESIZE = 0
ASSUME RolesAssumption == Readers \cap Writers = {} /\ None \notin Readers \cup Writers

PipeProcs == Readers \cup Writers

VARIABLES
  data, nread, nwrite, readopen, writeopen,  \* struct pipe
  lock,     \* the process that holds pi->lock
  pc,       \* what each process does
  left,     \* of each process: the bytes it has yet to copy
  killed,
  fd        \* the processes that still have their end open

pipe == <<data, nread, nwrite, readopen, writeopen>>
vars == <<pipe, lock, pc, left, killed, fd>>

Init ==
  /\ data \in [0..PIPESIZE - 1 -> Bytes]
  /\ nread = 0 /\ nwrite = 0
  /\ readopen = 1 /\ writeopen = 1
  /\ lock = None
  /\ pc = [p \in PipeProcs |-> "idle"]
  /\ left = [p \in PipeProcs |-> 0]
  /\ killed = [p \in PipeProcs |-> 0]
  /\ fd = PipeProcs

Empty == nread = nwrite

(* Mutant: the sum does not wrap around. *)
Full_NoWrap == nwrite = nread + PIPESIZE

Full == nwrite = (nread + PIPESIZE) % UINT

(* p goes on to point, after wakeup() of the sleepers of a side *)
WakeupGoto(side, p, point) ==
  pc' = [q \in PipeProcs |-> CASE q = p -> point
                           [] q # p /\ q \in side /\ pc[q] = "sleep" -> "woken"
                           [] OTHER -> pc[q]]
Goto(p, point) == pc' = [pc EXCEPT ![p] = point]

(* A process that is not on its way out calls read() or write() with n. *)
Start(p, n) ==
  /\ pc[p] = "idle" /\ p \in fd /\ lock = None /\ killed[p] = 0
  /\ left' = [left EXCEPT ![p] = n]
  /\ lock' = p
  /\ Goto(p, IF p \in Writers THEN "write" ELSE "read_wait")
  /\ UNCHANGED <<pipe, killed, fd>>

(* sleep() takes pi->lock again. *)
Reacquire(p) ==
  /\ pc[p] = "woken" /\ lock = None
  /\ lock' = p
  /\ Goto(p, IF p \in Writers THEN "write" ELSE "read_wait")
  /\ UNCHANGED <<pipe, left, killed, fd>>

At(p, point) == pc[p] = point /\ lock = p

-----------------------------------------------------------------------------
(* pipewrite() *)

(* No reader is left or the writer is killed: -1, and nobody is woken. *)
pipewrite_fail(p) ==
  /\ At(p, "write") /\ left[p] > 0
  /\ readopen = 0 \/ killed[p] = 1
  /\ lock' = None /\ Goto(p, "idle")
  /\ left' = [left EXCEPT ![p] = 0]
  /\ UNCHANGED <<pipe, killed, fd>>

CanWrite(p) == At(p, "write") /\ left[p] > 0 /\ readopen = 1 /\ killed[p] = 0

pipewrite_full(p) ==
  /\ CanWrite(p) /\ Full
  /\ WakeupGoto(Readers, p, "sleep")
  /\ lock' = None
  /\ UNCHANGED <<pipe, left, killed, fd>>

pipewrite_byte(p) ==
  /\ CanWrite(p) /\ ~Full
  /\ \E b \in Bytes : data' = [data EXCEPT ![nwrite % PIPESIZE] = b]
  /\ nwrite' = (nwrite + 1) % UINT
  /\ left' = [left EXCEPT ![p] = @ - 1]
  /\ UNCHANGED <<nread, readopen, writeopen, lock, pc, killed, fd>>

(* All bytes are written, or copyin() fails for the next one. *)
pipewrite_return(p) ==
  /\ At(p, "write")
  /\ left[p] = 0 \/ (CanWrite(p) /\ ~Full)
  /\ WakeupGoto(Readers, p, "idle")
  /\ lock' = None
  /\ left' = [left EXCEPT ![p] = 0]
  /\ UNCHANGED <<pipe, killed, fd>>

-----------------------------------------------------------------------------
(* piperead() *)

piperead_wait(p) ==
  /\ At(p, "read_wait") /\ Empty /\ writeopen = 1
  /\ lock' = None
  /\ IF killed[p] = 1
     THEN Goto(p, "idle") /\ left' = [left EXCEPT ![p] = 0]
     ELSE Goto(p, "sleep") /\ UNCHANGED left
  /\ UNCHANGED <<pipe, killed, fd>>

piperead_go(p) ==
  /\ At(p, "read_wait") /\ ~(Empty /\ writeopen = 1)
  /\ Goto(p, "read")
  /\ UNCHANGED <<pipe, lock, left, killed, fd>>

(* A byte leaves the pipe, also when copyout() fails and ends the loop. *)
piperead_byte(p) ==
  /\ At(p, "read") /\ left[p] > 0 /\ ~Empty
  /\ nread' = (nread + 1) % UINT
  /\ \E rest \in {left[p] - 1, 0} : left' = [left EXCEPT ![p] = rest]
  /\ UNCHANGED <<data, nwrite, readopen, writeopen, lock, pc, killed, fd>>

(* Mutant: the writers are not told that there is room. *)
piperead_return_Silent(p) ==
  /\ At(p, "read") /\ (left[p] = 0 \/ Empty)
  /\ Goto(p, "idle") /\ lock' = None
  /\ left' = [left EXCEPT ![p] = 0]
  /\ UNCHANGED <<pipe, killed, fd>>

piperead_return(p) ==
  /\ At(p, "read") /\ (left[p] = 0 \/ Empty)
  /\ WakeupGoto(Writers, p, "idle")
  /\ lock' = None
  /\ left' = [left EXCEPT ![p] = 0]
  /\ UNCHANGED <<pipe, killed, fd>>

-----------------------------------------------------------------------------
(* pipeclose(), called by fileclose() for the last reference, and kill() *)

pipeclose(p) ==
  /\ pc[p] = "idle" /\ p \in fd /\ lock = None
  /\ fd' = fd \ {p}
  /\ CASE p \in Writers /\ fd' \cap Writers = {} ->
            writeopen' = 0 /\ UNCHANGED readopen /\ WakeupGoto(Readers, p, "idle")
       [] p \in Readers /\ fd' \cap Readers = {} ->
            readopen' = 0 /\ UNCHANGED writeopen /\ WakeupGoto(Writers, p, "idle")
       [] OTHER -> UNCHANGED <<readopen, writeopen, pc>>
  /\ UNCHANGED <<data, nread, nwrite, lock, left, killed>>

kill(p) ==
  /\ lock = None /\ killed[p] = 0
  /\ killed' = [killed EXCEPT ![p] = 1]
  /\ Goto(p, IF pc[p] = "sleep" THEN "woken" ELSE pc[p])
  /\ UNCHANGED <<pipe, lock, left, fd>>

Step(p) ==
  \/ Reacquire(p)
  \/ pipewrite_fail(p) \/ pipewrite_full(p) \/ pipewrite_byte(p) \/ pipewrite_return(p)
  \/ piperead_wait(p) \/ piperead_go(p) \/ piperead_byte(p) \/ piperead_return(p)

(* Both ends are closed and the page is freed: the pipe is no more. *)
Gone == fd = {} /\ UNCHANGED vars

Next ==
  \/ \E p \in PipeProcs : Step(p) \/ pipeclose(p) \/ kill(p) \/ \E n \in 0..MaxLen : Start(p, n)
  \/ Gone

Spec == Init /\ [][Next]_vars

(***************************************************************************)
(* Fairness.  A process that waits for pi->lock gets it and goes on; one   *)
(* that is outside the pipe reads or writes a byte again at some time, and *)
(* not always at a bad address, or closes its end.                         *)
(***************************************************************************)
Entry(p) == Reacquire(p) \/ pipeclose(p) \/ \E n \in 1..MaxLen : Start(p, n)

Fairness ==
  /\ \A p \in PipeProcs : WF_vars(Step(p)) /\ SF_vars(Entry(p))
  /\ \A p \in Writers : SF_vars(pipewrite_byte(p))

FairSpec == Spec /\ Fairness

-----------------------------------------------------------------------------
(* Properties *)

(* The ring, its counters and the processes' bookkeeping stay in range.    *)
TypeOK ==
  /\ data \in [0..PIPESIZE - 1 -> Bytes]
  /\ nread \in 0..UINT - 1 /\ nwrite \in 0..UINT - 1
  /\ readopen \in {0, 1} /\ writeopen \in {0, 1}
  /\ lock \in PipeProcs \cup {None}
  /\ pc \in [PipeProcs -> {"idle", "write", "read_wait", "read", "sleep", "woken"}]
  /\ left \in [PipeProcs -> 0..MaxLen]
  /\ killed \in [PipeProcs -> {0, 1}]
  /\ fd \subseteq PipeProcs

(* The bytes in the ring, oldest first *)
Queue ==
  [i \in 1..(nwrite - nread) % UINT |-> data[(nread + i - 1) % PIPESIZE]]

FifoSpec == INSTANCE Fifo WITH queue <- Queue, Capacity <- PIPESIZE

(* The ring of piperead() and pipewrite() is a bounded first-in first-out  *)
(* queue, also when nread and nwrite wrap around: no byte is overwritten,  *)
(* duplicated or reordered, whoever shares the ends.                       *)
IsFifo == FifoSpec!Spec

(* No reader sleeps while there is something for it: bytes, or the end of  *)
(* the last writer.                                                        *)
ReaderNotForgotten ==
  lock = None => \A p \in Readers : pc[p] = "sleep" => Empty /\ writeopen = 1 /\ killed[p] = 0

(* No writer sleeps while there is room, or when no reader is left.        *)
WriterNotForgotten ==
  lock = None => \A p \in Writers : pc[p] = "sleep" => Full /\ readopen = 1 /\ killed[p] = 0

(* piperead() sleeps only while its pipe is empty and has a writer, and    *)
(* pipewrite() only while it is full and has a reader, whoever shares the  *)
(* ends; its counters stay in range.                                       *)
NobodyForgotten == TypeOK /\ ReaderNotForgotten /\ WriterNotForgotten

(* A read or a write returns as long as the other side uses or closes its  *)
(* end.                                                                    *)
CallReturns == \A p \in PipeProcs : pc[p] = "sleep" ~> pc[p] = "idle"
=============================================================================
