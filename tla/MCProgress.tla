----------------------------- MODULE MCProgress -----------------------------
(***************************************************************************)
(* Small instances of the components whose properties are about what must  *)
(* happen: sleep locks, pipes, the log's space, the disk driver, the       *)
(* console's output, sleep() and the shell.  A behaviour is one of one     *)
(* component, named by part, under the fairness of that component.         *)
(***************************************************************************)
EXTENDS SleepLock, VirtioDisk, Terminal, Shell, Clock

CONSTANTS
  Parts,        \* the components to check
  Off,          \* the value of the variables of a component that is not running
  a1, a2, a3    \* the processes of all components but the shell

VARIABLES
  part,
  pdata, pnread, pnwrite, preadopen, pwriteopen, pilock, ppc, pleft, pkilled, pfd,
  ldisk, ldlog, ldn, ldblock, lcache, lpins, ln, lblock, loutstanding, lcommitting, lstage,
  ltail, lpc, lbuf, lwrote, lpanic

pipeVars ==
  <<pdata, pnread, pnwrite, preadopen, pwriteopen, pilock, ppc, pleft, pkilled, pfd>>
logVars ==
  <<ldisk, ldlog, ldn, ldblock, lcache, lpins, ln, lblock, loutstanding, lcommitting, lstage,
    ltail, lpc, lbuf, lwrote, lpanic>>

(* One reader and one writer of a pipe of one byte, whose counters wrap at *)
(* two.                                                                    *)
Pi == INSTANCE Pipe WITH
  Readers <- {a1}, Writers <- {a2}, Bytes <- {0}, PIPESIZE <- 1, UINT <- 2, MaxLen <- 2,
  data <- pdata, nread <- pnread, nwrite <- pnwrite, readopen <- preadopen,
  writeopen <- pwriteopen, lock <- pilock, pc <- ppc, left <- pleft, killed <- pkilled, fd <- pfd

(* A log with room for two calls, so that the third waits for space; they  *)
(* write one block each, the same one.                                     *)
Lg == INSTANCE Log WITH
  Procs <- {a1, a2, a3}, Blocks <- {"b1"}, Contents <- {"c0"}, MAXOPBLOCKS <- 2,
  LOGSIZE <- 4, nlog <- 4, OpBlocks <- 1, NoBlock <- None,
  disk <- ldisk, dlog <- ldlog, dn <- ldn, dblock <- ldblock, cache <- lcache, pins <- lpins,
  n <- ln, block <- lblock, outstanding <- loutstanding, committing <- lcommitting,
  stage <- lstage, tail <- ltail, pc <- lpc, buf <- lbuf, wrote <- lwrote, panic <- lpanic

-----------------------------------------------------------------------------
ProgressInit ==
  /\ part \in Parts
  /\ Init    \* of the sleep lock, also when another component runs
  /\ IF part = "pipe" THEN Pi!Init
     ELSE /\ pdata = Off /\ pnread = Off /\ pnwrite = Off /\ preadopen = Off /\ pwriteopen = Off
          /\ pilock = Off /\ ppc = Off /\ pleft = Off /\ pkilled = Off /\ pfd = Off
  /\ IF part = "log" THEN Lg!Init
     ELSE /\ ldisk = Off /\ ldlog = Off /\ ldn = Off /\ ldblock = Off /\ lcache = Off
          /\ lpins = Off /\ ln = Off /\ lblock = Off /\ loutstanding = Off /\ lcommitting = Off
          /\ lstage = Off /\ ltail = Off /\ lpc = Off /\ lbuf = Off /\ lwrote = Off /\ lpanic = Off
  /\ IF part = "disk" THEN DriverInit
     ELSE /\ disk = Off /\ dev = Off /\ vproc = Off /\ bdisk = Off /\ bdata = Off /\ sector = Off
          /\ diskPanic = Off
  /\ IF part = "console" THEN TermInit
     ELSE /\ cons = Off /\ reader = Off /\ tx = Off /\ writer = Off /\ handler = Off
          /\ rhr = Off /\ thr = Off /\ uirq = Off /\ put = Off /\ sent = Off
  /\ ClockInit /\ (part # "clock" => ticks = 0)
  /\ IF part = "shell" THEN ShInit
     ELSE sp = Off /\ pfull = Off /\ ahead = Off /\ restarts = Off /\ faults = Off
  /\ line = Off    \* the shell's lines are given by Sessions

Others(p) ==
  /\ UNCHANGED <<part, line>>
  /\ IF p = "lock" THEN TRUE ELSE UNCHANGED vars
  /\ IF p = "pipe" THEN TRUE ELSE UNCHANGED pipeVars
  /\ IF p = "log" THEN TRUE ELSE UNCHANGED logVars
  /\ IF p = "disk" THEN TRUE ELSE UNCHANGED diskVars
  /\ IF p = "console" THEN TRUE ELSE UNCHANGED termVars
  /\ IF p = "clock" THEN TRUE ELSE UNCHANGED clockVars
  /\ IF p = "shell" THEN TRUE ELSE UNCHANGED shVars

ProgressNext ==
  \/ part = "lock" /\ Next /\ Others("lock")
  \/ part = "pipe" /\ Pi!Next /\ Others("pipe")
  \/ part = "log" /\ Lg!Next /\ Others("log")
  \/ part = "disk" /\ DriverNext /\ Others("disk")
  \/ part = "console" /\ OutputNext /\ Others("console")
  \/ part = "clock" /\ ClockNext /\ Others("clock")
  \/ part = "shell" /\ ShNext /\ Others("shell")

progressVars ==
  <<part, line, vars, pipeVars, logVars, diskVars, termVars, clockVars, shVars>>

(***************************************************************************)
(* Fairness: of each component, its own, while it runs.  Only one runs in  *)
(* a behaviour, so one strong fairness condition per process can stand for *)
(* those of all components.                                                *)
(***************************************************************************)
Strong(p) ==
  \/ part = "lock" /\ Step(p) /\ Others("lock")
  \/ part = "pipe" /\ p \in {a1, a2} /\ Pi!Entry(p) /\ Others("pipe")
  \/ part = "pipe" /\ p = a3 /\ Pi!pipewrite_byte(a2) /\ Others("pipe")
  \/ part = "log" /\ Lg!end_op(p) /\ Others("log")
  \/ part = "disk" /\ DriverProgress(p) /\ Others("disk")
  \/ part = "console" /\ p \in TtyWriters /\ WriterStep(p) /\ Others("console")
  \/ part = "console" /\ p = a3 /\ uartintr_start /\ Others("console")

Weak ==
  /\ \A p \in {a1, a2} : WF_pipeVars(part = "pipe" /\ Pi!Step(p))
  /\ WF_logVars(part = "log" /\ Lg!commit) /\ WF_logVars(part = "log" /\ Lg!recover_from_log)
  /\ \A p \in {a1, a2, a3} : /\ WF_logVars(part = "log" /\ Lg!end_op_done(p))
                             /\ WF_logVars(part = "log" /\ Lg!log_write(p))
  /\ WF_diskVars(part = "disk" /\ device_fetch) /\ WF_diskVars(part = "disk" /\ Intr)
  /\ \A p \in DiskProcs : WF_diskVars(part = "disk" /\ device_complete(vproc[p].head))
  /\ WF_termVars(part = "console" /\ uart_send) /\ WF_termVars(part = "console" /\ HandlerStep)
  /\ WF_clockVars(part = "clock" /\ clockintr)
  /\ \A p \in Sleepers : WF_clockVars(part = "clock" /\ SleeperStep(p))
  /\ WF_shVars(part = "shell" /\ \E p \in Pids : ShProc(p))

ProgressSpec ==
  /\ ProgressInit /\ [][ProgressNext]_progressVars
  /\ Weak /\ \A p \in {a1, a2, a3} : SF_progressVars(Strong(p))

-----------------------------------------------------------------------------
(* Arguments of the instances *)

MCNaps == {-3, 0, 1, 3}

MCLines ==
  {<<"e", "|", "c">>, <<"c", "&">>, <<"e", "|", "c", "|", "c">>, <<"e", ">", "f">>,
   <<"(", "e", "&", ")", "|", "c">>, <<"e", ";", "c">>, <<"c", "d", " ", "x">>, <<"x", "(">>, <<"x">>}

(* One line, or a second one while the first runs in the background *)
MCSessions ==
  {<<l>> : l \in MCLines}
    \cup {<<<<"c", "&">>, l>> : l \in {<<"e", "|", "c">>, <<"e", ";", "c">>, <<"c", "&">>}}

-----------------------------------------------------------------------------
(* The properties of the components, each while its component runs; those  *)
(* of the sleep lock and of sleep() are those of their modules.            *)

In(p, P) == part = p => P

(* What processes write to the console comes out once and in order, while  *)
(* echoes use the UART too, which is never overrun.                        *)
Console_OutputInOrder == In("console", OutputInOrder /\ NoOverrun)

(* The shell prompts when all it started in the foreground is done, and no *)
(* program has more than its standard descriptors: none keeps its own pipe *)
(* open.                                                                   *)
Shell_ForegroundDone == In("shell", NoStrayEnds /\ ForegroundDone)

(* A blocked piperead() or pipewrite() returns as long as the other side   *)
(* uses or closes its end.                                                 *)
Pipe_CallReturns ==
  \A p \in {a1, a2} : part = "pipe" /\ ppc[p] = "sleep" ~> part = "pipe" /\ ppc[p] = "idle"

(* A call that waits in begin_op() is woken, whatever the others do, and   *)
(* none finds the log full.  This and the next two are stated of one       *)
(* process: all do the same.                                               *)
Log_WaiterWoken ==
  /\ []In("log", Lg!TypeOK /\ Lg!NoLogPanic)
  /\ part = "log" /\ lpc[a1] = "sleep" ~> part = "log" /\ lpc[a1] # "sleep"

(* Every call of virtio_disk_rw() returns, also when descriptors run out.  *)
Disk_RequestReturns ==
  part = "disk" /\ vproc[a1].pc = "enter" ~> part = "disk" /\ vproc[a1].pc = "out"

(* A writer that waits for room in the ring of uart.c is woken.            *)
Console_WriterServed ==
  part = "console" /\ writer[a1] = "sleep" ~> part = "console" /\ writer[a1] # "sleep"

(* Whoever sleeps in sys_sleep() gets to return.                           *)
Clock_SleepEnds ==
  \A p \in Sleepers : part = "clock" /\ nap[p].pc = "sleeping" ~> part = "clock" /\ nap[p].pc = "user"

(* Whoever sleeps in the kernel is woken and goes on: for a sleep lock,    *)
(* for bytes or room in a pipe, for log space or a commit, for descriptors *)
(* or the disk, for room in the ring of the UART, for the clock.           *)
SleepersWoken ==
  /\ SleeperWoken /\ Pipe_CallReturns /\ Log_WaiterWoken
  /\ Disk_RequestReturns /\ Console_WriterServed /\ Clock_SleepEnds

(* The shell gets its prompt back.                                         *)
Shell_PromptReturns ==
  (part = "shell" /\ \E p \in Pids : sp[p].pc = "wait")
    ~> (part = "shell" /\ \A p \in Pids : sp[p].pc # "wait")

(* Every process that exits is waited for, by init when it is an orphan.   *)
Shell_ZombiesReaped ==
  (part = "shell" /\ \E p \in Pids : sp[p].st = "zombie")
    ~> (part = "shell" /\ \A p \in Pids : sp[p].st # "zombie")

(* The session goes on: after every line, whatever fails in it, the shell  *)
(* prompts again, and every process that exits is waited for, orphans by   *)
(* init.                                                                   *)
Shell_SessionGoesOn == Shell_PromptReturns /\ Shell_ZombiesReaped
=============================================================================
