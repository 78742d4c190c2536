-------------------------------- MODULE Proc --------------------------------
(***************************************************************************)
(* The process table, the scheduler, sleep/wakeup, fork/exit/wait/kill,    *)
(* trap entry and exit, and the co_yield system call of kernel/proc.c and  *)
(* kernel/trap.c, on the one CPU the Makefile configures (CPUS := 1).      *)
(*                                                                         *)
(* Granularity.  A spinlock keeps interrupts off from acquire to release,  *)
(* so on one CPU nothing runs between the two but the code itself.  A step *)
(* of this module is the code from one point where an interrupt or a swtch *)
(* can intervene to the next.  Scans of the table that release one p->lock *)
(* before they take the next (allocproc, find_proc, kill) are one step: a  *)
(* pid never moves to another slot and is never given out twice, so what   *)
(* such a scan finds is what it would have found in one look, taken when   *)
(* it examined the slot in question; where the scan's order could matter   *)
(* the step may pick any matching slot.                                    *)
(***************************************************************************)
EXTENDS Integers

CONSTANTS
  NPROC,    \* number of slots of the process table (param.h)
  MaxPid,   \* bound of the model: pids 1..MaxPid are given out
  Values,   \* the ints user code passes to co_yield
  Calls     \* the system calls user code makes, and whether it faults

ASSUME NPROCAssumption == NPROC \in Nat \ {0}
ASSUME MaxPidAssumption == MaxPid \in Nat \ {0}
ASSUME ValuesAssumption == Values \subseteq Int
ASSUME CallsAssumption ==
  Calls \subseteq {"fork", "exit", "wait", "kill", "sleep", "co_yield", "io", "fault"}

Slots == 1..NPROC
NoProc == 0            \* the null struct proc pointer
initproc == 1          \* userinit() takes the first slot, which is never freed

(***************************************************************************)
(* Sleep channels are addresses: a struct proc for wait(), &p->context for *)
(* co_yield, &ticks for sys_sleep.  io stands for every address the file   *)
(* system, the pipes and the drivers sleep on.                             *)
(***************************************************************************)
noChan == <<"null", 0>>
proc_chan(s) == <<"proc", s>>
co_chan_AsWait(s) == <<"proc", s>>          \* mutant: not a private channel

co_chan(s) == <<"context", s>>
ticks_chan == <<"ticks", 0>>
io_chan == <<"io", 0>>

Channels == {noChan, ticks_chan, io_chan}
              \cup {proc_chan(s) : s \in Slots} \cup {co_chan(s) : s \in Slots}

States == {"UNUSED", "USED", "SLEEPING", "RUNNABLE", "RUNNING", "ZOMBIE"}

(***************************************************************************)
(* Where swtch resumes a saved kernel thread; live means its registers are *)
(* in the CPU.                                                             *)
(***************************************************************************)
Contexts == {"none", "live", "forkret", "yield", "sleep", "co_yield", "exit"}

(***************************************************************************)
(* The code a thread executes next, once it is live.                       *)
(***************************************************************************)
Points == {"none", "user", "syscall", "sysret", "fork_parent",
           "fork_runnable", "wait", "sleep", "io", "exit"}

Panics == {"none", "acquire", "release", "sched_locks", "sched_running",
           "init_exiting", "zombie_exit"}

VARIABLES
  state, pid, parent, chan, killed,  \* struct proc
  a0, a1,    \* trapframe registers, while co_yield uses them (0 otherwise)
  ctx,       \* p->context
  pc,        \* what the thread does next
  np,        \* fork()'s local: the child being made
  copid,     \* co_yield's parameter pid, while it is suspended there
  saved,     \* sched()'s local intena
  nextpid,
  held,      \* the p->locks the CPU holds; its size is mycpu()->noff
  cpuproc,   \* mycpu()->proc
  intena,    \* mycpu()->intena
  intr,      \* interrupts are enabled (sstatus.SIE)
  cur,       \* the kernel thread on the CPU; NoProc is scheduler()
  scan,      \* scheduler()'s loop variable p
  panic      \* the panic the kernel stopped with

table == <<state, pid, parent, chan, killed>>
frame == <<a0, a1, copid>>
thread == <<ctx, pc, np, saved>>
cpu == <<held, cpuproc, intena, intr, cur, scan, panic>>
vars == <<table, frame, thread, nextpid, cpu>>

-----------------------------------------------------------------------------
(* userinit() and the first entry into scheduler() *)

Only1(x, rest) == [s \in Slots |-> IF s = initproc THEN x ELSE rest]

Init ==
  /\ state = Only1("RUNNABLE", "UNUSED")
  /\ pid = Only1(1, 0)
  /\ parent = [s \in Slots |-> NoProc]
  /\ chan = [s \in Slots |-> noChan]
  /\ killed = [s \in Slots |-> 0]
  /\ a0 = [s \in Slots |-> 0]
  /\ a1 = [s \in Slots |-> 0]
  /\ copid = [s \in Slots |-> 0]
  /\ ctx = Only1("forkret", "none")
  /\ pc = Only1("user", "none")
  /\ np = [s \in Slots |-> NoProc]
  /\ saved = [s \in Slots |-> 0]
  /\ nextpid = 2
  /\ held = {}
  /\ cpuproc = NoProc
  /\ intena = 0
  /\ intr = 1
  /\ cur = NoProc
  /\ scan = 1
  /\ panic = "none"

-----------------------------------------------------------------------------
(* The scheduler thread *)

InScheduler == cur = NoProc /\ panic = "none"

(* Advance scheduler()'s loop; the outer loop turns interrupts on. *)
NextSlot(on) ==
  /\ scan' = IF scan = NPROC THEN 1 ELSE scan + 1
  /\ intr' = IF scan = NPROC THEN 1 ELSE on

SchedSkip ==
  /\ InScheduler /\ cpuproc = NoProc
  /\ state[scan] # "RUNNABLE"
  /\ NextSlot(intr)
  /\ panic' = IF scan \in held THEN "acquire" ELSE panic
  /\ UNCHANGED <<table, frame, thread, nextpid, held, cpuproc, intena, cur>>

SchedRun ==
  /\ InScheduler /\ cpuproc = NoProc
  /\ state[scan] = "RUNNABLE"
  /\ state' = [state EXCEPT ![scan] = "RUNNING"]
  /\ held' = held \cup {scan}
  /\ panic' = IF scan \in held THEN "acquire" ELSE panic
  /\ cpuproc' = scan
  /\ cur' = scan
  /\ intena' = intr
  /\ intr' = 0
  /\ UNCHANGED <<pid, parent, chan, killed, frame, thread, nextpid, scan>>

(* Mutants: the lock of the loop variable is released, as before co_yield  *)
(* was added; the scan starts over after every process.                    *)
SchedReturn_ReleasesScan ==
  /\ InScheduler /\ cpuproc # NoProc
  /\ panic' = IF scan \in held THEN panic ELSE "release"
  /\ held' = held \ {scan}
  /\ cpuproc' = NoProc /\ intena' = 0
  /\ NextSlot(intena)
  /\ UNCHANGED <<table, frame, thread, nextpid, cur>>

SchedReturn_StartsOver ==
  /\ InScheduler /\ cpuproc # NoProc
  /\ held' = held \ {cpuproc}
  /\ cpuproc' = NoProc /\ intena' = 0
  /\ scan' = 1 /\ intr' = 1
  /\ UNCHANGED <<table, frame, thread, nextpid, cur, panic>>

(* A process came back: release the lock of c->proc, not of scan. *)
SchedReturn ==
  /\ InScheduler /\ cpuproc # NoProc
  /\ panic' = IF cpuproc \in held THEN panic ELSE "release"
  /\ held' = held \ {cpuproc}
  /\ cpuproc' = NoProc
  /\ NextSlot(intena)
  /\ intena' = 0
  /\ UNCHANGED <<table, frame, thread, nextpid, cur>>

-----------------------------------------------------------------------------
(* Switching away from a process and back *)

Live(s) == cur = s /\ ctx[s] = "live" /\ panic = "none"

(* s is at the start of a system call that syscall() dispatches to, or     *)
(* back at the top of its loop.                                            *)
In(s, call) ==
  Live(s) /\ (pc[s] = call \/ (pc[s] = "syscall" /\ call \in Calls))

(* acquire(p->lock), leave the process in table st, and sched(). *)
Sched(s, st, context) ==
  /\ state' = st
  /\ ctx' = [ctx EXCEPT ![s] = context]
  /\ held' = held \cup {s}
  /\ panic' = CASE s \in held -> "acquire"
                [] s \notin held /\ held # {} -> "sched_locks"
                [] held = {} /\ st[s] = "RUNNING" -> "sched_running"
                [] OTHER -> panic
  /\ cur' = NoProc
  /\ intr' = 0
  /\ UNCHANGED <<cpuproc, scan>>

(* sleep(chan, lk), called in a loop whose top is the point again: the     *)
(* caller took lk with interrupts as they are.                             *)
Sleep(s, ch, again) ==
  /\ chan' = [chan EXCEPT ![s] = ch]
  /\ Sched(s, [state EXCEPT ![s] = "SLEEPING"], "sleep")
  /\ saved' = [saved EXCEPT ![s] = intr]
  /\ intena' = intr
  /\ pc' = [pc EXCEPT ![s] = again]
  /\ UNCHANGED <<pid, parent, killed, frame, np, nextpid>>

(* wakeup(ch), applied to the table st *)
Wakeup(ch, st) ==
  [t \in Slots |-> IF st[t] = "SLEEPING" /\ chan[t] = ch /\ t # cpuproc
                   THEN "RUNNABLE" ELSE st[t]]

(* Every resumed thread releases its own p->lock. *)
ReleaseOwn(s, on) ==
  /\ panic' = IF s \in held THEN panic ELSE "release"
  /\ held' = held \ {s}
  /\ intr' = on
  /\ intena' = 0
  /\ ctx' = [ctx EXCEPT ![s] = "live"]

Resuming(s, context) == cur = s /\ ctx[s] = context /\ panic = "none"

(* forkret(), up to the return to user space *)
ResumeForkret(s) ==
  /\ Resuming(s, "forkret")
  /\ ReleaseOwn(s, 1)
  /\ UNCHANGED <<table, frame, pc, np, saved, nextpid, cpuproc, cur, scan>>

(* sched() returns: to yield() and the interrupt that called it, or, what  *)
(* must never happen, to exit().                                           *)
ResumeYield(s) ==
  /\ Resuming(s, "yield") \/ Resuming(s, "exit")
  /\ IF ctx[s] = "exit"
     THEN panic' = "zombie_exit" /\ UNCHANGED <<held, intr, intena, ctx>>
     ELSE ReleaseOwn(s, 1)
  /\ UNCHANGED <<table, frame, pc, np, saved, nextpid, cpuproc, cur, scan>>

(* Mutant: sched() does not restore intena. *)
ResumeSleep_KeepsIntena(s) ==
  /\ Resuming(s, "sleep")
  /\ chan' = [chan EXCEPT ![s] = noChan]
  /\ saved' = [saved EXCEPT ![s] = 0]
  /\ ReleaseOwn(s, intena)
  /\ UNCHANGED <<state, pid, parent, killed, frame, pc, np, nextpid,
                 cpuproc, cur, scan>>

(* The tail of sleep(); lk is taken again by the step at pc. *)
ResumeSleep(s) ==
  /\ Resuming(s, "sleep")
  /\ chan' = [chan EXCEPT ![s] = noChan]
  /\ saved' = [saved EXCEPT ![s] = 0]
  /\ ReleaseOwn(s, saved[s])
  /\ UNCHANGED <<state, pid, parent, killed, frame, pc, np, nextpid,
                 cpuproc, cur, scan>>

(* The tail of co_yield(): a0 is returned; intena is not restored. *)
ResumeCoYield(s) ==
  /\ Resuming(s, "co_yield")
  /\ chan' = [chan EXCEPT ![s] = noChan]
  /\ a0' = [a0 EXCEPT ![s] = 0]
  /\ a1' = [a1 EXCEPT ![s] = 0]
  /\ copid' = [copid EXCEPT ![s] = 0]
  /\ pc' = [pc EXCEPT ![s] = "sysret"]
  /\ ReleaseOwn(s, intena)
  /\ UNCHANGED <<state, pid, parent, killed, np, saved, nextpid,
                 cpuproc, cur, scan>>

Resume(s) ==
  ResumeForkret(s) \/ ResumeYield(s) \/ ResumeSleep(s) \/ ResumeCoYield(s)

-----------------------------------------------------------------------------
(* Traps *)

Goto(s, point) == pc' = [pc EXCEPT ![s] = point]

(* usertrap(): exit(-1) when killed; interrupts are still off here. *)
ExitFromTrap(s) ==
  /\ Goto(s, "exit")
  /\ intr' = 0
  /\ UNCHANGED <<pid, parent, chan, frame, ctx, np, saved, nextpid, held,
                 cpuproc, intena, cur, scan, panic>>

(* ecall: usertrap() checks killed, turns interrupts on and dispatches. *)
Ecall(s) ==
  /\ Live(s) /\ pc[s] = "user"
  /\ IF killed[s] = 1
     THEN ExitFromTrap(s)
     ELSE /\ Goto(s, "syscall")
          /\ UNCHANGED <<pid, parent, chan, frame, ctx, np, saved, nextpid, cpu>>
  /\ UNCHANGED <<state, killed>>

(* An exception devintr() does not recognise: setkilled and exit(-1). *)
Fault(s) ==
  /\ Live(s) /\ pc[s] = "user" /\ "fault" \in Calls
  /\ killed' = [killed EXCEPT ![s] = 1]
  /\ ExitFromTrap(s)
  /\ UNCHANGED state

(* The end of usertrap() after a system call *)
Sysret(s) ==
  /\ Live(s) /\ pc[s] = "sysret"
  /\ IF killed[s] = 1
     THEN Goto(s, "exit") /\ UNCHANGED intr
     ELSE Goto(s, "user") /\ intr' = 1
  /\ UNCHANGED <<table, frame, ctx, np, saved, nextpid, held, cpuproc, intena,
                 cur, scan, panic>>

(* A timer interrupt: clockintr() wakes sys_sleep, then usertrap() exits a *)
(* killed process and both traps yield(); with interrupts off, intena is 0. *)
Timer(s) ==
  /\ Live(s) /\ intr = 1
  /\ LET woken == Wakeup(ticks_chan, state) IN
     IF pc[s] = "user" /\ killed[s] = 1
     THEN state' = woken /\ ExitFromTrap(s)
     ELSE /\ Sched(s, [woken EXCEPT ![s] = "RUNNABLE"], "yield")
          /\ intena' = 0
          /\ UNCHANGED <<pid, parent, chan, frame, pc, np, saved, nextpid>>
  /\ UNCHANGED killed

(* A device interrupt, which does not give up the CPU *)
Device(s) ==
  /\ Live(s) /\ intr = 1
  /\ state' = Wakeup(io_chan, state)
  /\ IF pc[s] = "user" /\ killed[s] = 1
     THEN ExitFromTrap(s)
     ELSE UNCHANGED <<pid, parent, chan, frame, thread, nextpid, cpu>>
  /\ UNCHANGED killed

(* kerneltrap() while scheduler() runs: there is no process to yield. *)
IdleInterrupt(ch) ==
  /\ InScheduler /\ cpuproc = NoProc /\ intr = 1
  /\ state' = Wakeup(ch, state)
  /\ UNCHANGED <<pid, parent, chan, killed, frame, thread, nextpid, cpu>>

-----------------------------------------------------------------------------
(* fork() *)

(* A system call that returns, leaving the named variables to its caller. *)
Return(s) ==
  /\ Goto(s, "sysret")
  /\ UNCHANGED <<chan, frame, ctx, np, saved, cpu>>

(* allocproc() fills in a slot, whose killed flag it does not touch; the   *)
(* child's lock is dropped before it is linked to its parent.              *)
Fork(s) ==
  /\ In(s, "fork") /\ nextpid <= MaxPid
  /\ \E n \in Slots :
       /\ state[n] = "UNUSED"
       /\ state' = [state EXCEPT ![n] = "USED"]
       /\ pid' = [pid EXCEPT ![n] = nextpid]
       /\ ctx' = [ctx EXCEPT ![n] = "forkret"]
       /\ pc' = [pc EXCEPT ![n] = "user", ![s] = "fork_parent"]
       /\ np' = [np EXCEPT ![s] = n]
  /\ nextpid' = nextpid + 1
  /\ UNCHANGED <<parent, chan, killed, frame, saved, cpu>>

(* kalloc, proc_pagetable or uvmcopy fails: freeproc, but the pid is gone. *)
ForkNoMemory(s) ==
  /\ In(s, "fork") /\ nextpid <= MaxPid
  /\ \E n \in Slots : state[n] = "UNUSED" /\ killed' = [killed EXCEPT ![n] = 0]
  /\ nextpid' = nextpid + 1
  /\ Return(s)
  /\ UNCHANGED <<state, pid, parent>>

ForkTableFull(s) ==
  /\ In(s, "fork")
  /\ \A n \in Slots : state[n] # "UNUSED"
  /\ Return(s)
  /\ UNCHANGED <<state, pid, parent, killed, nextpid>>

ForkSetParent(s) ==
  /\ Live(s) /\ pc[s] = "fork_parent"
  /\ parent' = [parent EXCEPT ![np[s]] = s]
  /\ Goto(s, "fork_runnable")
  /\ UNCHANGED <<state, pid, chan, killed, frame, ctx, np, saved, nextpid, cpu>>

ForkRunnable(s) ==
  /\ Live(s) /\ pc[s] = "fork_runnable"
  /\ state' = [state EXCEPT ![np[s]] = "RUNNABLE"]
  /\ np' = [np EXCEPT ![s] = NoProc]
  /\ Goto(s, "sysret")
  /\ UNCHANGED <<pid, parent, chan, killed, frame, ctx, saved, nextpid, cpu>>

-----------------------------------------------------------------------------
(* exit(), wait(), kill() *)

ExitInit(s) ==
  /\ In(s, "exit") /\ s = initproc
  /\ panic' = "init_exiting"
  /\ UNCHANGED <<table, frame, thread, nextpid, held, cpuproc, intena, intr,
                 cur, scan>>

(* Closing files and iput(cwd) may sleep in the file system. *)
ExitCloseFiles(s) ==
  /\ In(s, "exit") /\ s # initproc
  /\ Sleep(s, io_chan, "exit")

(* reparent(p): p's children become init's, and wakeup(initproc) for each. *)
Reparented(s) == [c \in Slots |-> IF parent[c] = s THEN initproc ELSE parent[c]]
ReparentWakeup(s) ==
  IF \E c \in Slots : parent[c] = s THEN Wakeup(proc_chan(initproc), state) ELSE state

(* Mutant: the parent is not woken. *)
ExitZombie_NoWakeup(s) ==
  /\ In(s, "exit") /\ s # initproc
  /\ parent' = Reparented(s)
  /\ Sched(s, [ReparentWakeup(s) EXCEPT ![s] = "ZOMBIE"], "exit")
  /\ intena' = intr
  /\ UNCHANGED <<pid, chan, killed, frame, pc, np, saved, nextpid>>

(* From acquire(&wait_lock) to sched(): one critical section *)
ExitZombie(s) ==
  /\ In(s, "exit") /\ s # initproc
  /\ parent' = Reparented(s)
  /\ Sched(s, [Wakeup(proc_chan(parent[s]), ReparentWakeup(s)) EXCEPT ![s] = "ZOMBIE"],
           "exit")
  /\ intena' = intr
  /\ UNCHANGED <<pid, chan, killed, frame, pc, np, saved, nextpid>>

ZombieChildren(s) == {c \in Slots : parent[c] = s /\ state[c] = "ZOMBIE"}

(* A zombie child is found and its status copied out: freeproc(c). *)
WaitReap(s) ==
  /\ In(s, "wait")
  /\ \E c \in ZombieChildren(s) :
       /\ state' = [state EXCEPT ![c] = "UNUSED"]
       /\ pid' = [pid EXCEPT ![c] = 0]
       /\ parent' = [parent EXCEPT ![c] = NoProc]
       /\ chan' = [chan EXCEPT ![c] = noChan]
       /\ killed' = [killed EXCEPT ![c] = 0]
       /\ ctx' = [ctx EXCEPT ![c] = "none"]
       /\ pc' = [pc EXCEPT ![c] = "none", ![s] = "sysret"]
  /\ UNCHANGED <<frame, np, saved, nextpid, cpu>>

(* No children, or killed, or copyout of a zombie's status fails: -1 *)
WaitFail(s) ==
  /\ In(s, "wait")
  /\ \/ ZombieChildren(s) # {}
     \/ killed[s] = 1
     \/ \A c \in Slots : parent[c] # s
  /\ Return(s)
  /\ UNCHANGED <<state, pid, parent, killed, nextpid>>

WaitSleep(s) ==
  /\ In(s, "wait")
  /\ ZombieChildren(s) = {} /\ killed[s] = 0
  /\ \E c \in Slots : parent[c] = s
  /\ Sleep(s, proc_chan(s), "wait")

(* Mutant: the victim is not woken. *)
Kill_NoWakeup(s, p) ==
  /\ In(s, "kill")
  /\ killed' = [t \in Slots |-> IF pid[t] = p THEN 1 ELSE killed[t]]
  /\ Return(s)
  /\ UNCHANGED <<state, pid, parent, nextpid>>

(* kill(p) compares pids only: pid 0 is the pid of every UNUSED slot. *)
Kill(s, p) ==
  /\ In(s, "kill")
  /\ IF \E t \in Slots : pid[t] = p
     THEN \E t \in Slots :
            /\ pid[t] = p
            /\ killed' = [killed EXCEPT ![t] = 1]
            /\ state' = IF state[t] = "SLEEPING"
                        THEN [state EXCEPT ![t] = "RUNNABLE"] ELSE state
     ELSE UNCHANGED <<killed, state>>
  /\ Return(s)
  /\ UNCHANGED <<pid, parent, nextpid>>

-----------------------------------------------------------------------------
(* sys_sleep, and the system calls that block in other parts of the kernel *)

(* The tick count is abstracted: the loop's condition may go either way. *)
SleepLoop(s) ==
  /\ In(s, "sleep") /\ killed[s] = 0
  /\ Sleep(s, ticks_chan, "sleep")

SleepDone(s) ==
  /\ In(s, "sleep")
  /\ Return(s)
  /\ UNCHANGED <<state, pid, parent, killed, nextpid>>

IOBlock(s) ==
  /\ In(s, "io")
  /\ Sleep(s, io_chan, "io")

IODone(s) ==
  /\ In(s, "io")
  /\ Return(s)
  /\ UNCHANGED <<state, pid, parent, killed, nextpid>>

-----------------------------------------------------------------------------
(* co_yield() *)

find_proc(p) == {t \in Slots : pid[t] = p /\ state[t] # "UNUSED"}

(* The target waits in co_yield for the caller's slot. *)
PeerWaits(s, t) == state[t] = "SLEEPING" /\ chan[t] = co_chan(s)

(* co_yield's error returns *)
CoYieldFail(s, p) ==
  /\ In(s, "co_yield")
  /\ \/ p <= 0 \/ p = pid[s]
     \/ killed[s] = 1
     \/ \A t \in find_proc(p) :
           killed[t] = 1 \/ ~(PeerWaits(s, t) \/ state[t] = "RUNNABLE")
  /\ Return(s)
  /\ UNCHANGED <<state, pid, parent, killed, nextpid>>

(* Mutant: mycpu()->proc is not updated. *)
SwitchTo_KeepsCpuProc(s, t) ==
  /\ state' = [state EXCEPT ![s] = "SLEEPING", ![t] = "RUNNING"]
  /\ ctx' = [ctx EXCEPT ![s] = "co_yield"]
  /\ cur' = t
  /\ held' = held \cup {t}
  /\ intena' = intr /\ intr' = 0
  /\ copid' = [copid EXCEPT ![s] = pid[t]]
  /\ UNCHANGED <<pid, parent, killed, pc, np, saved, nextpid, cpuproc, scan, panic>>

(* Park the caller on its target and swtch to the target, whose lock the   *)
(* CPU now holds; the caller's own lock is taken and released on the way.  *)
SwitchTo(s, t) ==
  /\ state' = [state EXCEPT ![s] = "SLEEPING", ![t] = "RUNNING"]
  /\ ctx' = [ctx EXCEPT ![s] = "co_yield"]
  /\ cpuproc' = t
  /\ cur' = t
  /\ held' = held \cup {t}
  /\ panic' = IF {s, t} \cap held = {} THEN panic ELSE "acquire"
  /\ intena' = intr
  /\ intr' = 0
  /\ copid' = [copid EXCEPT ![s] = pid[t]]
  /\ UNCHANGED <<pid, parent, killed, pc, np, saved, nextpid, scan>>

CanSwitch(s, t) ==
  /\ In(s, "co_yield")
  /\ t # s /\ killed[s] = 0 /\ killed[t] = 0

(* Mutants: the caller parks without waking its peer; the peer's pending   *)
(* return value is not filled in.                                          *)
CoYieldMeet_NoSwitch(s, t, v) ==
  /\ CanSwitch(s, t) /\ PeerWaits(s, t)
  /\ a1' = [a1 EXCEPT ![s] = v]
  /\ a0' = [a0 EXCEPT ![s] = a1[t]]
  /\ chan' = [chan EXCEPT ![s] = co_chan(t)]
  /\ copid' = [copid EXCEPT ![s] = pid[t]]
  /\ Sched(s, [state EXCEPT ![s] = "SLEEPING"], "co_yield")
  /\ intena' = intr
  /\ UNCHANGED <<pid, parent, killed, pc, np, saved, nextpid>>

CoYieldMeet_NoValue(s, t, v) ==
  /\ CanSwitch(s, t) /\ PeerWaits(s, t)
  /\ a1' = [a1 EXCEPT ![s] = v]
  /\ a0' = [a0 EXCEPT ![s] = a1[t]]
  /\ chan' = [chan EXCEPT ![s] = co_chan(t), ![t] = noChan]
  /\ SwitchTo(s, t)

(* The peer is already waiting: exchange values and switch to it. *)
CoYieldMeet(s, t, v) ==
  /\ CanSwitch(s, t)
  /\ PeerWaits(s, t)
  /\ a1' = [a1 EXCEPT ![s] = v]
  /\ a0' = [a0 EXCEPT ![s] = a1[t], ![t] = IF a0[t] = -1 THEN v ELSE a0[t]]
  /\ chan' = [chan EXCEPT ![s] = co_chan(t), ![t] = noChan]
  /\ SwitchTo(s, t)

(* The first side to arrive parks itself and runs the peer. *)
CoYieldFirst(s, t, v) ==
  /\ CanSwitch(s, t)
  /\ state[t] = "RUNNABLE"
  /\ a1' = [a1 EXCEPT ![s] = v]
  /\ a0' = [a0 EXCEPT ![s] = -1]
  /\ chan' = [chan EXCEPT ![s] = co_chan(t)]
  /\ SwitchTo(s, t)

-----------------------------------------------------------------------------
(* The specification *)

Scheduler == SchedSkip \/ SchedRun \/ SchedReturn

(* Kernel code of a process that has the CPU *)
Kernel(s) ==
  \/ Sysret(s)
  \/ Fork(s) \/ ForkNoMemory(s) \/ ForkTableFull(s) \/ ForkSetParent(s) \/ ForkRunnable(s)
  \/ ExitInit(s) \/ ExitCloseFiles(s) \/ ExitZombie(s)
  \/ WaitReap(s) \/ WaitFail(s) \/ WaitSleep(s)
  \/ SleepLoop(s) \/ SleepDone(s) \/ IOBlock(s) \/ IODone(s)
  \/ \E p \in 0..MaxPid : Kill(s, p) \/ CoYieldFail(s, p)
  \/ \E t \in Slots, v \in Values : CoYieldMeet(s, t, v) \/ CoYieldFirst(s, t, v)

User(s) == Ecall(s) \/ Fault(s)

(* panic() spins for ever. *)
Panicked == panic # "none" /\ UNCHANGED vars

TimerInterrupt == IdleInterrupt(ticks_chan) \/ \E s \in Slots : Timer(s)
DeviceInterrupt == IdleInterrupt(io_chan) \/ \E s \in Slots : Device(s)

Next ==
  \/ Scheduler \/ TimerInterrupt \/ DeviceInterrupt \/ Panicked
  \/ \E s \in Slots : Resume(s) \/ Kernel(s) \/ User(s)

Spec == Init /\ [][Next]_vars

(***************************************************************************)
(* Fairness.  The scheduler loop runs on; an interrupt stays pending until *)
(* it is taken; a process that gets the CPU again and again executes some  *)
(* instructions each time, and what it waits for in another part of the    *)
(* kernel arrives in the end.  User code need not do anything.             *)
(***************************************************************************)
Fairness ==
  /\ WF_vars(Scheduler \/ \E s \in Slots : Resume(s))
  /\ SF_vars(TimerInterrupt)
  /\ SF_vars(DeviceInterrupt)
  /\ \A s \in Slots : SF_vars(Kernel(s)) /\ SF_vars(IODone(s) \/ ExitZombie(s))

FairSpec == Spec /\ Fairness

-----------------------------------------------------------------------------
(* Properties *)

TableOK ==
  /\ state \in [Slots -> States]
  /\ pid \in [Slots -> Nat]
  /\ parent \in [Slots -> Slots \cup {NoProc}]
  /\ chan \in [Slots -> Channels]
  /\ killed \in [Slots -> {0, 1}]

FrameOK == a0 \in [Slots -> Int] /\ a1 \in [Slots -> Int] /\ copid \in [Slots -> Nat]

ThreadOK ==
  /\ ctx \in [Slots -> Contexts]
  /\ pc \in [Slots -> Points]
  /\ np \in [Slots -> Slots \cup {NoProc}]
  /\ saved \in [Slots -> {0, 1}]

CpuOK ==
  /\ held \in SUBSET Slots
  /\ cpuproc \in Slots \cup {NoProc}
  /\ intena \in {0, 1} /\ intr \in {0, 1}
  /\ cur \in Slots \cup {NoProc}
  /\ scan \in Slots
  /\ panic \in Panics

(* The process table, the saved registers, the kernel threads and struct   *)
(* cpu hold what their declarations and the code's constants allow.        *)
TypeOK == TableOK /\ FrameOK /\ ThreadOK /\ CpuOK /\ nextpid \in Nat

(* The CPU runs exactly the process that is RUNNING and that mycpu()->proc *)
(* names, also after a direct co_yield switch that scheduler() never saw,  *)
(* and a p->lock is held at a switch point only: it is the lock of         *)
(* mycpu()->proc, on its way to the thread that will release it.           *)
CpuOwnership ==
  /\ \A s \in Slots : state[s] = "RUNNING" <=> cur = s
  /\ cur # NoProc => cpuproc = cur
  /\ held = IF cpuproc = NoProc \/ (cur # NoProc /\ ctx[cur] = "live")
            THEN {} ELSE {cpuproc}

(* The checks of acquire(), release() and sched(), and the panic after     *)
(* exit()'s sched(), never fire: the only panic is that of init exiting.   *)
OnlyInitPanics == panic \in {"none", "init_exiting"}

CoSleeping(s) == state[s] = "SLEEPING" /\ ctx[s] = "co_yield"

(* Processes parked in co_yield never wait for each other in a circle:     *)
(* some process of every set of them waits for one outside the set.        *)
NoCoYieldCycle ==
  \A S \in SUBSET Slots :
    S # {} => \E s \in S : ~(CoSleeping(s) /\ \E t \in S : chan[s] = co_chan(t))

(* How one step may end a sleep in co_yield: kill() makes the process      *)
(* RUNNABLE, or the process in the slot it waits for runs it directly.     *)
CoSleeperWoken ==
  \A s \in Slots : CoSleeping(s) /\ state'[s] # "SLEEPING" =>
    \/ killed'[s] = 1 /\ state'[s] = "RUNNABLE"
    \/ /\ state'[s] = "RUNNING" /\ cur' = s
       /\ chan[s] = co_chan(cur) /\ state'[cur] = "SLEEPING" /\ chan'[cur] = co_chan(s)

(* A process parked in co_yield leaves SLEEPING only when it is killed, or *)
(* when the process in the slot it waits for switches to it directly and   *)
(* parks on it in turn: no wakeup() of another channel reaches it and the  *)
(* scheduler never sees it RUNNABLE.                                       *)
CoSleeperWakes == [][CoSleeperWoken]_vars

(* co_yield returns to a process that is not killed a value some process   *)
(* passed, never the -1 it parks with as a placeholder in a0.              *)
RendezvousReturnsValue ==
  \A s \in Slots : Resuming(s, "co_yield") /\ killed[s] = 0 => a0[s] \in Values

(* wait() never sleeps through an exit: no process asleep in wait() has a  *)
(* zombie child, whether its own or one that reparent() gave to init.      *)
NoLostExit ==
  \A s \in Slots : state[s] = "SLEEPING" /\ chan[s] = proc_chan(s)
                      => ZombieChildren(s) = {}

(* A process that can run or be reaped has a parent that can still call    *)
(* wait(): fork() links it first, and exit() reparents before ZOMBIE.      *)
ParentAlive ==
  \A s \in Slots \ {initproc} :
    state[s] \notin {"UNUSED", "USED"} =>
      /\ parent[s] # NoProc
      /\ state[parent[s]] \in {"SLEEPING", "RUNNABLE", "RUNNING"}

(* Kernel code of a process that is neither killed nor exiting runs with   *)
(* interrupts on between critical sections, also when it comes out of      *)
(* co_yield with the intena of another process.                            *)
SyscallsInterruptible ==
  \A s \in Slots : Live(s) /\ killed[s] = 0 /\ pc[s] # "exit" => intr = 1

(* No runnable process starves: the round-robin scan and the timer give    *)
(* it the CPU, even while other processes hand it to each other directly.  *)
RunnableRuns ==
  \A s \in Slots : state[s] = "RUNNABLE" ~> state[s] = "RUNNING" \/ panic # "none"

(* A killed process dies, wherever kill() found it, co_yield included.     *)
KilledDies ==
  \A s \in Slots : killed[s] = 1 /\ state[s] # "UNUSED"
     ~> state[s] \in {"ZOMBIE", "UNUSED"} \/ panic # "none"

-----------------------------------------------------------------------------
(* What the documentation says of co_yield and kill, and the code does not do *)

(* agent.md:77: "The `value` passed by the calling process becomes the     *)
(* return value of `co_yield` in the target process": when a caller meets  *)
(* a waiting target, the target resumes with the caller's value in a0.     *)
TargetGetsCallersValue ==
  [][\A s \in Slots : CoSleeping(s) /\ state'[s] = "RUNNING" => a0'[s] = a1'[cur]]_vars

(* ASSIGNMENT_README.md:798: a process sleeping on co_chan(target) waits   *)
(* for target: the caller that meets it is the process whose pid it named, *)
(* not another process that was given the same slot.                       *)
MeetsNamedPid ==
  [][\A s \in Slots : CoSleeping(s) /\ state'[s] = "RUNNING" => pid[cur] = copid[s]]_vars

(* proc.c:697: "Kill the process with the given pid": kill() marks only    *)
(* processes, never a free slot of the table.                              *)
KillMarksProcesses ==
  [][\A s \in Slots : killed[s] = 0 /\ killed'[s] = 1 => state[s] # "UNUSED"]_vars
=============================================================================
