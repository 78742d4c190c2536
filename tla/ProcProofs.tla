----------------------------- MODULE ProcProofs -----------------------------
(***************************************************************************)
(* The safety theorems of module Proc, for every NPROC, MaxPid and set of  *)
(* Values and Calls: first type correctness with the facts on slots, sleep *)
(* channels and wakeup() that all proofs use; then each kind of step, that *)
(* of the scheduler, the interrupts and the resumed threads and those of   *)
(* fork(), wait(), exit(), kill() and co_yield(), preserves the invariant: *)
(* one lemma per kind of step, one step per conjunct.                      *)
(***************************************************************************)
EXTENDS ProcInv, TLAPS

-----------------------------------------------------------------------------
(* Constants, channels and wakeup() *)

(* The names of states, contexts, points and panics the steps below use *)
LEMMA Consts ==
  /\ {"UNUSED", "USED", "SLEEPING", "RUNNABLE", "RUNNING", "ZOMBIE"} \subseteq States
  /\ {"none", "live", "forkret", "yield", "sleep", "co_yield", "exit"} \subseteq Contexts
  /\ {"none", "user", "syscall", "sysret", "fork_parent", "fork_runnable", "wait",
      "sleep", "io", "exit"} \subseteq Points
  /\ {"none", "acquire", "release", "sched_locks", "sched_running", "init_exiting",
      "zombie_exit"} \subseteq Panics
  BY Zenon DEF States, Contexts, Points, Panics

(* The channels are channels. *)
LEMMA Chans ==
  /\ noChan \in Channels /\ ticks_chan \in Channels /\ io_chan \in Channels
  /\ \A s \in Slots : proc_chan(s) \in Channels /\ co_chan(s) \in Channels
  BY Zenon DEF Channels

(* The table has an init slot, no null slot, and the scan wraps around. *)
LEMMA SlotFacts ==
  /\ initproc \in Slots
  /\ NoProc \notin Slots
  /\ \A s \in Slots : (IF s = NPROC THEN 1 ELSE s + 1) \in Slots
  BY NPROCAssumption DEF Slots, initproc, NoProc

(* Channels of different kinds or of different slots are different          *)
(* addresses: co_chan() is private to co_yield, as its comment says.        *)
LEMMA ChanFacts ==
  /\ \A s, t \in Slots : co_chan(s) = co_chan(t) => s = t
  /\ \A s, t \in Slots : proc_chan(s) = proc_chan(t) => s = t
  /\ \A s \in Slots, t \in Slots \cup {NoProc} : co_chan(s) # proc_chan(t)
  /\ \A s \in Slots : co_chan(s) \notin {noChan, ticks_chan, io_chan}
  /\ \A s \in Slots : proc_chan(s) \notin {noChan, ticks_chan, io_chan}
  /\ noChan # ticks_chan /\ noChan # io_chan /\ ticks_chan # io_chan
  BY Zenon DEF co_chan, proc_chan, noChan, ticks_chan, io_chan

(* wakeup() changes SLEEPING processes on its channel to RUNNABLE only. *)
LEMMA WakeupFacts ==
  ASSUME NEW st \in [Slots -> States], NEW ch
  PROVE  /\ Wakeup(ch, st) \in [Slots -> States]
         /\ \A t \in Slots :
              \/ Wakeup(ch, st)[t] = st[t]
              \/ /\ st[t] = "SLEEPING" /\ chan[t] = ch
                 /\ Wakeup(ch, st)[t] = "RUNNABLE"
         /\ \A t \in Slots \ {cpuproc} : Wakeup(ch, st)[t] = "SLEEPING" => chan[t] # ch
  BY Consts, Zenon DEF Wakeup

-----------------------------------------------------------------------------
(* Type correctness *)

(* userinit() leaves a well-typed table. *)
LEMMA TypeInit == Init => TypeOK
  BY Chans, SlotFacts DEF Init, TypeOK, TableOK, FrameOK, ThreadOK, CpuOK, Only1, initproc,
     States, Contexts, Points, Panics

(* Every step of the kernel keeps the table, the threads and the CPU well-typed. *)
LEMMA TypeNext == TypeOK /\ [Next]_vars => TypeOK'
<1> SUFFICES ASSUME TypeOK, [Next]_vars PROVE TypeOK'
  OBVIOUS
<1> USE Chans, Consts, SlotFacts, WakeupFacts
       DEF TypeOK, TableOK, FrameOK, ThreadOK, CpuOK, table, frame, thread, cpu
<1>1. CASE SchedSkip
  BY <1>1, Zenon DEF SchedSkip, NextSlot
<1>2. CASE SchedRun
  BY <1>2 DEF SchedRun
<1>3. CASE SchedReturn
  BY <1>3, Zenon DEF SchedReturn, NextSlot
<1>4. ASSUME NEW ch \in Channels, IdleInterrupt(ch) PROVE TypeOK'
  BY <1>4, Zenon DEF IdleInterrupt
<1>5. ASSUME NEW s \in Slots, Timer(s) PROVE TypeOK'
  BY <1>5 DEF Timer, ExitFromTrap, Goto, Sched
<1>6. ASSUME NEW s \in Slots, Device(s) PROVE TypeOK'
  BY <1>6 DEF Device, ExitFromTrap, Goto
<1>7. ASSUME NEW s \in Slots, Resume(s) PROVE TypeOK'
  <2> USE DEF ReleaseOwn
  <2>1. CASE ResumeForkret(s)
    BY <2>1, Zenon DEF ResumeForkret
  <2>2. CASE ResumeYield(s)
    BY <2>2 DEF ResumeYield
  <2>3. CASE ResumeSleep(s)
    BY <2>3, Zenon DEF ResumeSleep
  <2>4. CASE ResumeCoYield(s)
    BY <2>4 DEF ResumeCoYield
  <2> QED BY <1>7, <2>1, <2>2, <2>3, <2>4, Zenon DEF Resume
<1>8. ASSUME NEW s \in Slots, Kernel(s) PROVE TypeOK'
  <2> USE DEF Goto, Return
  <2>1. CASE Sysret(s)
    BY <2>1 DEF Sysret
  <2>2. CASE Fork(s)
    BY <2>2 DEF Fork
  <2>3. CASE ForkNoMemory(s)
    BY <2>3 DEF ForkNoMemory
  <2>4. CASE ForkTableFull(s)
    BY <2>4, Zenon DEF ForkTableFull
  <2>5. CASE ForkSetParent(s)
    BY <2>5, Zenon DEF ForkSetParent
  <2>6. CASE ForkRunnable(s)
    BY <2>6, Zenon DEF ForkRunnable
  <2>7. CASE ExitInit(s)
    BY <2>7, Zenon DEF ExitInit
  <2>8. ASSUME NEW ch \in Channels, NEW again \in Points, Sleep(s, ch, again) PROVE TypeOK'
    BY <2>8 DEF Sleep, Sched
  <2>9. CASE ExitZombie(s)
    <3>1. Reparented(s) \in [Slots -> Slots \cup {NoProc}]
      BY DEF Reparented
    <3>2. ReparentWakeup(s) \in [Slots -> States]
      BY Zenon DEF ReparentWakeup
    <3>3. Wakeup(proc_chan(parent[s]), ReparentWakeup(s)) \in [Slots -> States]
      BY <3>2, WakeupFacts, Zenon
    <3>4. state' \in [Slots -> States] /\ parent' \in [Slots -> Slots \cup {NoProc}]
      BY <2>9, <3>1, <3>3, Zenon DEF ExitZombie, Sched
    <3>5. ctx' \in [Slots -> Contexts] /\ held' \in SUBSET Slots /\ panic' \in Panics
      BY <2>9 DEF ExitZombie, Sched
    <3> QED BY <2>9, <3>4, <3>5, Zenon DEF ExitZombie, Sched
  <2>10. CASE WaitReap(s)
    BY <2>10 DEF WaitReap, ZombieChildren
  <2>11. CASE WaitFail(s) \/ SleepDone(s) \/ IODone(s)
    BY <2>11 DEF WaitFail, SleepDone, IODone
  <2>12. ASSUME NEW p \in 0..MaxPid, Kill(s, p) PROVE TypeOK'
    BY <2>12 DEF Kill
  <2>13. ASSUME NEW p \in 0..MaxPid, CoYieldFail(s, p) PROVE TypeOK'
    BY <2>13, Zenon DEF CoYieldFail
  <2>14. ASSUME NEW t \in Slots, NEW v \in Values, CoYieldMeet(s, t, v) PROVE TypeOK'
    BY <2>14, ValuesAssumption DEF CoYieldMeet, SwitchTo
  <2>15. ASSUME NEW t \in Slots, NEW v \in Values, CoYieldFirst(s, t, v) PROVE TypeOK'
    BY <2>15, ValuesAssumption DEF CoYieldFirst, SwitchTo
  <2> QED BY <1>8, <2>1, <2>2, <2>3, <2>4, <2>5, <2>6, <2>7, <2>8, <2>9, <2>10, <2>11,
             <2>12, <2>13, <2>14, <2>15, Zenon
          DEF Kernel, ExitCloseFiles, WaitSleep, SleepLoop, IOBlock
<1>9. ASSUME NEW s \in Slots, User(s) PROVE TypeOK'
  BY <1>9 DEF User, Ecall, Fault, ExitFromTrap, Goto
<1>10. CASE Panicked \/ UNCHANGED vars
  BY <1>10 DEF Panicked, vars
<1> QED BY <1>1, <1>2, <1>3, <1>4, <1>5, <1>6, <1>7, <1>8, <1>9, <1>10, Zenon
        DEF Next, Scheduler, TimerInterrupt, DeviceInterrupt

(* No execution of proc.c's scheduler, system calls and traps leaves the   *)
(* states, channels, contexts and CPU fields the code knows.               *)
THEOREM TypeCorrect == Spec => []TypeOK
<1>1. Init => TypeOK
  BY TypeInit, Zenon
<1>2. TypeOK /\ [Next]_vars => TypeOK'
  BY TypeNext, Zenon
<1> QED BY <1>1, <1>2, PTL DEF Spec

-----------------------------------------------------------------------------
(* What the larger actions do, in the form the invariants need *)

(* A timer interrupt wakes sys_sleep and yields, or ends a killed process. *)
TimerEffect(s) ==
  /\ Live(s) /\ intr = 1 /\ intr' = 0
  /\ \A t \in Slots \ {s} :
       \/ state'[t] = state[t]
       \/ state[t] = "SLEEPING" /\ chan[t] = ticks_chan /\ state'[t] = "RUNNABLE"
  /\ UNCHANGED <<pid, parent, chan, killed, frame, np, saved, nextpid, cpuproc, scan>>
  /\ \/ /\ killed[s] = 1 /\ pc[s] = "user" /\ state'[s] = "RUNNING"
        /\ pc' = [pc EXCEPT ![s] = "exit"]
        /\ UNCHANGED <<ctx, held, intena, cur, panic>>
     \/ /\ state'[s] = "RUNNABLE"
        /\ ctx' = [ctx EXCEPT ![s] = "yield"]
        /\ held' = held \cup {s} /\ (held = {} => panic' = panic)
        /\ intena' = 0 /\ cur' = NoProc /\ UNCHANGED pc

(* kerneltrap() and usertrap() have that effect on a timer interrupt. *)
LEMMA TimerFacts ==
  ASSUME IInv, NEW s \in Slots, Timer(s)
  PROVE  TimerEffect(s)
<1>0. state[s] = "RUNNING" /\ TypeOK
  BY Zenon DEF Timer, Live, IInv, Inv, CpuOwnership
<1>1. PICK st \in [Slots -> States] :
        /\ st = Wakeup(ticks_chan, state)
        /\ \A t \in Slots :
             \/ st[t] = state[t]
             \/ state[t] = "SLEEPING" /\ chan[t] = ticks_chan /\ st[t] = "RUNNABLE"
  BY <1>0, WakeupFacts DEF TypeOK, TableOK
<1>2. CASE pc[s] = "user" /\ killed[s] = 1
  BY <1>0, <1>1, <1>2, Zenon DEF TimerEffect, Timer, ExitFromTrap, Goto
<1>3. CASE ~(pc[s] = "user" /\ killed[s] = 1)
  BY <1>1, <1>3, Zenon DEF TimerEffect, Timer, Sched
<1> QED BY <1>2, <1>3, Zenon

(* exit() wakes processes asleep in wait() only, its parent among them, and *)
(* init when init is given a child.                                         *)
ExitEffect(s) ==
  /\ Live(s) /\ s # initproc /\ pc[s] \in {"exit", "syscall"}
  /\ state'[s] = "ZOMBIE"
  /\ \A t \in Slots \ {s} :
       \/ state'[t] = state[t]
       \/ /\ state[t] = "SLEEPING" /\ state'[t] = "RUNNABLE"
          /\ \E c \in Slots \cup {NoProc} : chan[t] = proc_chan(c)
  /\ \A t \in Slots \ {s} : state'[t] = "SLEEPING" => chan[t] # proc_chan(parent[s])
  /\ \A c \in Slots : parent[c] = s /\ state'[initproc] = "SLEEPING" =>
       chan[initproc] # proc_chan(initproc)
  /\ parent' = Reparented(s)
  /\ ctx' = [ctx EXCEPT ![s] = "exit"]
  /\ held' = held \cup {s} /\ (held = {} => panic' = panic)
  /\ cur' = NoProc /\ intr' = 0
  /\ UNCHANGED <<pid, chan, killed, frame, pc, np, saved, cpuproc>>

(* The critical section of exit() has that effect. *)
LEMMA ExitFacts ==
  ASSUME IInv, NEW s \in Slots, ExitZombie(s)
  PROVE  ExitEffect(s)
<1> USE SlotFacts DEF TableOK
<1>1. /\ TableOK /\ Live(s) /\ s # initproc /\ cpuproc = s /\ state[s] = "RUNNING"
      /\ pc[s] \in {"exit", "syscall"}
  BY Zenon DEF ExitZombie, In, Live, IInv, Inv, CpuOwnership, TypeOK
<1>2. PICK rw \in [Slots -> States] :
        /\ rw = ReparentWakeup(s)
        /\ \A t \in Slots :
             \/ rw[t] = state[t]
             \/ state[t] = "SLEEPING" /\ rw[t] = "RUNNABLE" /\ chan[t] = proc_chan(initproc)
        /\ \A c \in Slots : parent[c] = s /\ rw[initproc] = "SLEEPING" =>
              chan[initproc] # proc_chan(initproc)
  <2>1. CASE \E c \in Slots : parent[c] = s
    <3>1. ReparentWakeup(s) = Wakeup(proc_chan(initproc), state)
      BY <2>1, Zenon DEF ReparentWakeup
    <3> QED BY <1>1, <3>1, WakeupFacts
  <2>2. CASE ~ \E c \in Slots : parent[c] = s
    BY <1>1, <2>2, Zenon DEF ReparentWakeup
  <2> QED BY <2>1, <2>2, Zenon
<1>3. PICK st \in [Slots -> States] :
        /\ st = Wakeup(proc_chan(parent[s]), rw)
        /\ \A t \in Slots :
             \/ st[t] = rw[t]
             \/ rw[t] = "SLEEPING" /\ st[t] = "RUNNABLE" /\ chan[t] = proc_chan(parent[s])
        /\ \A t \in Slots \ {s} : st[t] = "SLEEPING" => chan[t] # proc_chan(parent[s])
  BY <1>1, WakeupFacts
<1>4. /\ state' = [st EXCEPT ![s] = "ZOMBIE"]
      /\ parent' = Reparented(s)
      /\ ctx' = [ctx EXCEPT ![s] = "exit"]
      /\ held' = held \cup {s} /\ (held = {} => panic' = panic)
      /\ cur' = NoProc /\ intr' = 0
      /\ UNCHANGED <<pid, chan, killed, frame, pc, np, saved, cpuproc>>
  BY <1>2, <1>3, Zenon DEF ExitZombie, Sched
<1>5. parent[s] \in Slots \cup {NoProc}
  BY <1>1, Zenon
<1>6. \A t \in Slots \ {s} :
        \/ state'[t] = state[t]
        \/ /\ state[t] = "SLEEPING" /\ state'[t] = "RUNNABLE"
           /\ \E c \in Slots \cup {NoProc} : chan[t] = proc_chan(c)
  BY <1>2, <1>3, <1>4, <1>5
<1> QED BY <1>1, <1>2, <1>3, <1>4 DEF ExitEffect

(* Steps of a live process that only move it to another point of its code *)
Quiet(s) ==
  \/ User(s) \/ Sysret(s) \/ ForkNoMemory(s) \/ ForkTableFull(s) \/ WaitFail(s)
  \/ SleepDone(s) \/ IODone(s) \/ \E p \in 0..MaxPid : CoYieldFail(s, p)

QuietEffect(s) ==
  /\ Live(s)
  /\ UNCHANGED <<state, parent, chan, a0, a1, ctx, np, saved>>
  /\ UNCHANGED <<held, cpuproc, intena, cur, scan, panic>>
  /\ intr' = intr \/ intr' = 1 \/ pc'[s] = "exit"
  /\ \A t \in Slots : t # s => pc'[t] = pc[t]
  /\ pc[s] # "exit" /\ pc'[s] \in {"exit", "sysret", "syscall", "user"}
  /\ \A t \in Slots : killed'[t] = 1 \/ killed'[t] = killed[t] \/ state[t] = "UNUSED"

(* Steps that change no process's state, channel, parent or context *)
Still ==
  \/ SchedSkip \/ SchedReturn \/ Panicked \/ UNCHANGED vars
  \/ \E s \in Slots : ExitInit(s) \/ Quiet(s)

StillEffect ==
  /\ UNCHANGED <<state, parent, chan, a0, a1, ctx, np, saved>>
  /\ \A t \in Slots : killed'[t] = 1 \/ killed'[t] = killed[t] \/ state[t] = "UNUSED"
  /\ \A t \in Slots :
       \/ pc'[t] = pc[t]
       \/ ctx[t] = "live" /\ pc'[t] \in {"exit", "sysret", "syscall", "user"}
  /\ intena' = intena \/ cur = NoProc

(* Error returns and trap exits touch the caller's pc and the interrupt flag. *)
LEMMA QuietFacts ==
  ASSUME TypeOK, NEW s \in Slots, Quiet(s)
  PROVE  QuietEffect(s)
<1> USE DEF QuietEffect, TypeOK, TableOK, ThreadOK, In, Live, Return, Goto, table, frame, cpu
<1>1. CASE User(s)
  BY <1>1, Zenon DEF User, Ecall, Fault, ExitFromTrap
<1>2. CASE Sysret(s)
  BY <1>2, Zenon DEF Sysret
<1>3. CASE ForkNoMemory(s)
  BY <1>3, Zenon DEF ForkNoMemory
<1>4. CASE ForkTableFull(s) \/ WaitFail(s) \/ SleepDone(s) \/ IODone(s)
  BY <1>4, Zenon DEF ForkTableFull, WaitFail, SleepDone, IODone
<1>5. ASSUME NEW p \in 0..MaxPid, CoYieldFail(s, p) PROVE QuietEffect(s)
  BY <1>5, Zenon DEF CoYieldFail
<1> HIDE DEF QuietEffect
<1> QED BY <1>1, <1>2, <1>3, <1>4, <1>5, Zenon DEF Quiet

(* The scheduler's bookkeeping and quiet steps leave the process table alone. *)
LEMMA StillFacts ==
  ASSUME TypeOK, Still
  PROVE  StillEffect
<1> USE DEF StillEffect, table, frame, thread, cpu
<1>1. CASE SchedSkip \/ SchedReturn \/ Panicked \/ UNCHANGED vars
  BY <1>1, Zenon DEF SchedSkip, SchedReturn, InScheduler, Panicked, vars
<1>2. ASSUME NEW s \in Slots, ExitInit(s) PROVE StillEffect
  BY <1>2, Zenon DEF ExitInit
<1>3. ASSUME NEW s \in Slots, Quiet(s) PROVE StillEffect
  BY <1>3, QuietFacts, Zenon DEF QuietEffect, Live
<1> HIDE DEF StillEffect
<1> QED BY <1>1, <1>2, <1>3, Zenon DEF Still

(* Every step is one of these cases, which the lemmas below take in turn. *)
LEMMA NextCases ==
  ASSUME [Next]_vars
  PROVE  \/ SchedRun \/ Still
         \/ \E ch \in {ticks_chan, io_chan} : IdleInterrupt(ch)
         \/ \E s \in Slots :
              \/ Timer(s) \/ Device(s)
              \/ Resume(s)
              \/ Fork(s) \/ ForkSetParent(s) \/ ForkRunnable(s)
              \/ ExitCloseFiles(s) \/ SleepLoop(s) \/ IOBlock(s)
              \/ WaitSleep(s) \/ ExitZombie(s) \/ WaitReap(s)
              \/ \E p \in 0..MaxPid : Kill(s, p)
              \/ \E t \in Slots, v \in Values : CoYieldMeet(s, t, v) \/ CoYieldFirst(s, t, v)
  BY Zenon DEF Next, Scheduler, TimerInterrupt, DeviceInterrupt, Kernel, Still, Quiet

-----------------------------------------------------------------------------
(* Two invariants that most steps preserve for the same reason *)

(* No step but a direct switch makes a process a sleeper in co_yield. *)
CoSleepersKept == \A s \in Slots : CoSleeping(s)' => CoSleeping(s) /\ chan'[s] = chan[s]

(* Such steps build no circle of processes parked in co_yield. *)
LEMMA CycleKept ==
  ASSUME NoCoYieldCycle, CoSleepersKept
  PROVE  NoCoYieldCycle'
  BY Zenon DEF NoCoYieldCycle, CoSleepersKept

(* A direct switch parks s on t and makes t RUNNING: a circle of sleepers   *)
(* after it cannot contain t, so it cannot contain s, and was there before. *)
LEMMA CycleSwitch ==
  ASSUME IInv, NEW s \in Slots, NEW t \in Slots,
         SwitchTo(s, t), t # s, chan'[s] = co_chan(t),
         \A u \in Slots \ {s, t} : chan'[u] = chan[u]
  PROVE  NoCoYieldCycle'
<1> SUFFICES ASSUME NEW S \in SUBSET Slots, S # {},
                    \A u \in S : CoSleeping(u)' /\ \E w \in S : chan'[u] = co_chan(w)
             PROVE  FALSE
  BY Zenon DEF NoCoYieldCycle
<1>0. TypeOK /\ NoCoYieldCycle
  BY Zenon DEF IInv, Inv
<1>1. t \notin S
  BY <1>0 DEF SwitchTo, CoSleeping, TypeOK, TableOK
<1>2. s \notin S
  BY <1>1, ChanFacts, Zenon
<1>3. \A u \in S : CoSleeping(u) /\ chan'[u] = chan[u]
  BY <1>0, <1>2 DEF SwitchTo, CoSleeping, TypeOK, TableOK
<1> QED BY <1>0, <1>3, Zenon DEF NoCoYieldCycle

(* No step but wait()'s sleep and exit() can leave a zombie unnoticed. *)
ExitsNoticed ==
  \A s \in Slots :
    /\ state'[s] = "SLEEPING" /\ chan'[s] = proc_chan(s)
         => state[s] = "SLEEPING" /\ chan[s] = proc_chan(s)
    /\ state'[s] = "ZOMBIE" => state[s] = "ZOMBIE" /\ parent'[s] = parent[s]

(* Such steps leave wait() asleep only while it has no zombie to reap. *)
LEMMA ExitsKept ==
  ASSUME NoLostExit, ExitsNoticed
  PROVE  NoLostExit'
  BY DEF NoLostExit, ExitsNoticed, ZombieChildren

-----------------------------------------------------------------------------
(* The scheduler, interrupts, sleep() and the resumption of threads *)

(* What a step has to do: preserve the invariant, and end a sleep in        *)
(* co_yield only as it may.                                                 *)
StepOK == Inv' /\ CoSleeperWoken

(* Starting a RUNNABLE process in scheduler() preserves the invariant. *)
LEMMA SchedRunStep ==
  ASSUME IInv, SchedRun
  PROVE  StepOK
<1> USE SlotFacts DEF SchedRun, InScheduler, table, frame, thread, cpu
<1>1. /\ TypeOK /\ CpuOwnership /\ OnlyInitPanics /\ ContextInv /\ SavedInv /\ ForkInv
      /\ InitAlive /\ ParentAlive /\ NoLostExit /\ SyscallsInterruptible
      /\ CoYieldInv /\ NoCoYieldCycle
  BY Zenon DEF IInv, Inv
<1>2. CpuOwnership' /\ OnlyInitPanics'
  BY <1>1, Zenon DEF TypeOK, TableOK, CpuOK, CpuOwnership, OnlyInitPanics, ContextInv, Parked
<1>3. ContextInv' /\ SavedInv'
  BY <1>1 DEF ContextInv, SavedInv
<1>4. ForkInv'
  BY <1>1 DEF ForkInv, Alive
<1>5. InitAlive' /\ ParentAlive'
  BY <1>1 DEF InitAlive, ParentAlive, Alive
<1>6. SyscallsInterruptible'
  BY <1>1, Zenon DEF ContextInv, Parked, SyscallsInterruptible, Live
<1>7. CoYieldInv'
  BY <1>1 DEF CpuOwnership, CoYieldInv
<1>8. NoLostExit'
  <2>1. ExitsNoticed
    BY DEF ExitsNoticed
  <2> QED BY <1>1, <2>1, ExitsKept, Zenon
<1>9. NoCoYieldCycle'
  <2>1. CoSleepersKept
    BY DEF CoSleeping, CoSleepersKept
  <2> QED BY <1>1, <2>1, CycleKept, Zenon
<1>10. CoSleeperWoken
  BY DEF CoSleeping, CoSleeperWoken
<1> QED BY <1>2, <1>3, <1>4, <1>5, <1>6, <1>7, <1>8, <1>9, <1>10, Zenon DEF StepOK, Inv

(* An interrupt that does not give up the CPU wakes sleepers on a device's  *)
(* channel or the clock's, and may end the killed process it interrupts.    *)
WakeEffect ==
  /\ \A t \in Slots :
       \/ state'[t] = state[t]
       \/ /\ state[t] = "SLEEPING" /\ state'[t] = "RUNNABLE"
          /\ chan[t] = ticks_chan \/ chan[t] = io_chan
  /\ \A t \in Slots : pc'[t] = pc[t] \/ pc'[t] = "exit"
  /\ intr' = intr \/ (cur \in Slots /\ pc'[cur] = "exit")
  /\ UNCHANGED <<parent, chan, killed, a0, a1, ctx, np, saved, held, cpuproc, intena, cur, panic>>

(* The interrupts of scheduler() and of a device have that effect. *)
LEMMA WakeFacts ==
  ASSUME IInv,
         \/ \E ch \in {ticks_chan, io_chan} : IdleInterrupt(ch)
         \/ \E s \in Slots : Device(s)
  PROVE  WakeEffect
<1>1. state \in [Slots -> States] /\ pc \in [Slots -> Points]
  BY Zenon DEF IInv, TypeOK, TableOK, ThreadOK
<1> USE <1>1, WakeupFacts DEF WakeEffect, thread, cpu, frame
<1>2. ASSUME NEW ch \in {ticks_chan, io_chan}, IdleInterrupt(ch) PROVE WakeEffect
  BY <1>2 DEF IdleInterrupt
<1>3. ASSUME NEW s \in Slots, Device(s) PROVE WakeEffect
  BY <1>3 DEF Device, ExitFromTrap, Goto, Live
<1> QED BY <1>2, <1>3, Zenon

(* Such an interrupt preserves the invariant. *)
LEMMA WakeStep ==
  ASSUME IInv, WakeEffect
  PROVE  StepOK
<1>1. /\ CpuOwnership /\ OnlyInitPanics /\ ContextInv /\ SavedInv /\ ForkInv
      /\ InitAlive /\ ParentAlive /\ NoLostExit /\ SyscallsInterruptible
      /\ CoYieldInv /\ NoCoYieldCycle
      /\ parent \in [Slots -> Slots \cup {NoProc}]
  BY Zenon DEF IInv, Inv, TypeOK, TableOK
<1>2. CpuOwnership' /\ OnlyInitPanics'
  BY <1>1, Zenon DEF WakeEffect, CpuOwnership, OnlyInitPanics
<1>3. ContextInv' /\ SavedInv'
  BY <1>1 DEF WakeEffect, ContextInv, SavedInv, Parked
<1>4. ForkInv'
  BY <1>1 DEF WakeEffect, ForkInv, Forking, Alive
<1>5. InitAlive' /\ ParentAlive'
  BY <1>1, SlotFacts DEF WakeEffect, InitAlive, ParentAlive, Alive
<1>6. SyscallsInterruptible'
  BY <1>1, Zenon DEF WakeEffect, SyscallsInterruptible, Live
<1>7. CoYieldInv'
  BY <1>1, ChanFacts DEF WakeEffect, CoYieldInv
<1>8. NoLostExit'
  <2>1. ExitsNoticed
    BY Zenon DEF WakeEffect, ExitsNoticed
  <2> QED BY <1>1, <2>1, ExitsKept, Zenon
<1>9. NoCoYieldCycle'
  <2>1. CoSleepersKept
    BY Zenon DEF WakeEffect, CoSleeping, CoSleepersKept
  <2> QED BY <1>1, <2>1, CycleKept, Zenon
<1>10. CoSleeperWoken
  BY <1>1, ChanFacts DEF WakeEffect, CoYieldInv, CoSleeping, CoSleeperWoken
<1> QED BY <1>2, <1>3, <1>4, <1>5, <1>6, <1>7, <1>8, <1>9, <1>10, Zenon DEF StepOK, Inv

(* A timer interrupt while a process runs preserves the invariant. *)
LEMMA TimerStep ==
  ASSUME IInv, NEW s \in Slots, Timer(s)
  PROVE  StepOK
<1>1. /\ CpuOwnership /\ OnlyInitPanics /\ ContextInv /\ SavedInv /\ ForkInv
      /\ InitAlive /\ ParentAlive /\ NoLostExit /\ SyscallsInterruptible
      /\ CoYieldInv /\ NoCoYieldCycle
      /\ ctx \in [Slots -> Contexts] /\ pc \in [Slots -> Points]
      /\ parent \in [Slots -> Slots \cup {NoProc}]
  BY Zenon DEF IInv, Inv, TypeOK, TableOK, ThreadOK
<1>0. TimerEffect(s)
  BY TimerFacts, Zenon
<1>2. CpuOwnership' /\ OnlyInitPanics'
  BY <1>0, <1>1, SlotFacts DEF TimerEffect, Live, CpuOwnership, OnlyInitPanics
<1>3. ContextInv' /\ SavedInv'
  BY <1>0, <1>1 DEF TimerEffect, Live, ContextInv, Parked, SavedInv
<1>4. ForkInv'
  BY <1>0, <1>1 DEF TimerEffect, Live, CpuOwnership, ForkInv, Forking, Alive
<1>5. InitAlive' /\ ParentAlive'
  BY <1>0, <1>1, SlotFacts DEF TimerEffect, Live, CpuOwnership, InitAlive, ParentAlive, Alive
<1>6. SyscallsInterruptible'
  BY <1>0, SlotFacts, Zenon DEF TimerEffect, SyscallsInterruptible, Live
<1>7. CoYieldInv'
  BY <1>0, <1>1, ChanFacts DEF TimerEffect, frame, Live, CpuOwnership, CoYieldInv
<1>8. NoLostExit'
  <2>1. ExitsNoticed
    BY <1>0, Zenon DEF TimerEffect, ExitsNoticed
  <2> QED BY <1>1, <2>1, ExitsKept, Zenon
<1>9. NoCoYieldCycle'
  <2>1. CoSleepersKept
    BY <1>0, <1>1, Zenon DEF TimerEffect, CoSleeping, CoSleepersKept
  <2> QED BY <1>1, <2>1, CycleKept, Zenon
<1>10. CoSleeperWoken
  BY <1>0, <1>1, ChanFacts DEF TimerEffect, Live, CoYieldInv, CoSleeping, CoSleeperWoken
<1> QED BY <1>2, <1>3, <1>4, <1>5, <1>6, <1>7, <1>8, <1>9, <1>10, Zenon DEF StepOK, Inv

(* A resumed thread gives back its p->lock and runs on, with interrupts on  *)
(* unless it is killed or on its way out.                                   *)
ResumeEffect(s) ==
  /\ cur = s /\ state[s] = "RUNNING" /\ ctx[s] \in Parked
  /\ cpuproc = s /\ held' = {} /\ panic' = "none"
  /\ \A t \in Slots \ {s} :
       /\ chan'[t] = chan[t] /\ ctx'[t] = ctx[t] /\ pc'[t] = pc[t] /\ saved'[t] = saved[t]
       /\ a0'[t] = a0[t] /\ a1'[t] = a1[t]
  /\ ctx'[s] = "live"
  /\ pc'[s] = pc[s] \/ pc'[s] = "sysret"
  /\ killed[s] = 0 /\ pc'[s] # "exit" => intr' = 1
  /\ UNCHANGED <<state, parent, killed, np, cpuproc, cur>>

(* The thread that is switched to finds its own lock held and its process RUNNING. *)
LEMMA ResumingFacts ==
  ASSUME IInv, NEW s \in Slots, cur = s, ctx[s] # "live"
  PROVE  /\ state[s] = "RUNNING" /\ ctx[s] \in Parked
         /\ cpuproc = s /\ held = {s}
<1>1. CpuOwnership /\ ContextInv
  BY Zenon DEF IInv, Inv
<1> QED BY <1>1, SlotFacts, Zenon DEF CpuOwnership, ContextInv

(* The tails of forkret(), yield(), sleep() and co_yield() have that effect. *)
LEMMA ResumeFacts ==
  ASSUME IInv, NEW s \in Slots, Resume(s)
  PROVE  ResumeEffect(s)
<1>0. cur = s /\ ctx[s] # "live" /\ panic = "none"
  BY Zenon DEF Resume, ResumeForkret, ResumeYield, ResumeSleep, ResumeCoYield, Resuming
<1>1. state[s] = "RUNNING" /\ ctx[s] \in Parked /\ cpuproc = s /\ held = {s}
  BY <1>0, ResumingFacts, Zenon
<1>2. /\ SavedInv /\ CoYieldInv
      /\ chan \in [Slots -> Channels] /\ ctx \in [Slots -> Contexts] /\ pc \in [Slots -> Points]
      /\ saved \in [Slots -> {0, 1}] /\ a0 \in [Slots -> Int] /\ a1 \in [Slots -> Int]
      /\ killed \in [Slots -> {0, 1}]
  BY Zenon DEF IInv, Inv, TypeOK, TableOK, ThreadOK, FrameOK
<1> USE <1>0, <1>1, <1>2 DEF ResumeEffect, Resuming, ReleaseOwn, table, frame
<1>3. CASE ResumeForkret(s)
  BY <1>3, Zenon DEF ResumeForkret
<1>4. CASE ResumeYield(s)
  BY <1>4, Zenon DEF ResumeYield, Parked
<1>5. CASE ResumeSleep(s)
  BY <1>5, Zenon DEF ResumeSleep, SavedInv
<1>6. CASE ResumeCoYield(s)
  BY <1>6, Zenon DEF ResumeCoYield, CoYieldInv
<1> QED BY <1>3, <1>4, <1>5, <1>6, Zenon DEF Resume

(* Resuming a thread preserves the invariant. *)
LEMMA ResumeStep ==
  ASSUME IInv, NEW s \in Slots, Resume(s)
  PROVE  StepOK
<1>1. /\ CpuOwnership /\ ContextInv /\ SavedInv /\ ForkInv
      /\ InitAlive /\ ParentAlive /\ NoLostExit /\ SyscallsInterruptible
      /\ CoYieldInv /\ NoCoYieldCycle
  BY Zenon DEF IInv, Inv
<1>0. ResumeEffect(s)
  BY ResumeFacts, Zenon
<1>2. CpuOwnership' /\ OnlyInitPanics'
  BY <1>0, <1>1, Zenon DEF ResumeEffect, CpuOwnership, OnlyInitPanics
<1>3. ContextInv' /\ SavedInv'
  BY <1>0, <1>1 DEF ResumeEffect, ContextInv, SavedInv
<1>4. ForkInv'
  BY <1>0, <1>1 DEF ResumeEffect, ForkInv, Forking
<1>5. InitAlive' /\ ParentAlive'
  BY <1>0, <1>1, Zenon DEF ResumeEffect, InitAlive, ParentAlive
<1>6. SyscallsInterruptible'
  BY <1>0, Zenon DEF ResumeEffect, SyscallsInterruptible, Live
<1>7. CoYieldInv'
  BY <1>0, <1>1 DEF ResumeEffect, CoYieldInv, CpuOwnership
<1>8. NoLostExit'
  <2>1. ExitsNoticed
    BY <1>0, Zenon DEF ResumeEffect, ExitsNoticed
  <2> QED BY <1>1, <2>1, ExitsKept, Zenon
<1>9. NoCoYieldCycle'
  <2>1. CoSleepersKept
    BY <1>0, Zenon DEF ResumeEffect, CoSleeping, CoSleepersKept
  <2> QED BY <1>1, <2>1, CycleKept, Zenon
<1>10. CoSleeperWoken
  BY <1>0, Zenon DEF ResumeEffect, CoSleeping, CoSleeperWoken
<1> QED BY <1>2, <1>3, <1>4, <1>5, <1>6, <1>7, <1>8, <1>9, <1>10, Zenon DEF StepOK, Inv

(* sleep() parks its caller on the clock's, a device's or its own channel,  *)
(* on the last only when it has no zombie child.                            *)
SleepEffect(s) ==
  /\ Live(s) /\ cur' = NoProc
  /\ held' = held \cup {s} /\ (held = {} => panic' = panic)
  /\ state'[s] = "SLEEPING" /\ ctx'[s] = "sleep" /\ saved'[s] = intr
  /\ \/ chan'[s] = ticks_chan \/ chan'[s] = io_chan
     \/ chan'[s] = proc_chan(s) /\ ZombieChildren(s) = {}
  /\ pc'[s] \notin Forking /\ (pc[s] = "exit" => pc'[s] = "exit")
  /\ \A t \in Slots \ {s} :
       /\ state'[t] = state[t] /\ chan'[t] = chan[t]
       /\ ctx'[t] = ctx[t] /\ saved'[t] = saved[t] /\ pc'[t] = pc[t]
  /\ UNCHANGED <<parent, killed, a0, a1, np, cpuproc>>

(* Sleeping in exit(), sys_sleep(), wait() or for a device has that effect. *)
LEMMA SleepFacts ==
  ASSUME IInv, NEW s \in Slots,
         ExitCloseFiles(s) \/ SleepLoop(s) \/ IOBlock(s) \/ WaitSleep(s)
  PROVE  SleepEffect(s)
<1>1. /\ state \in [Slots -> States] /\ chan \in [Slots -> Channels]
      /\ ctx \in [Slots -> Contexts] /\ pc \in [Slots -> Points] /\ saved \in [Slots -> {0, 1}]
  BY Zenon DEF IInv, TypeOK, TableOK, ThreadOK
<1>2. ASSUME NEW ch, NEW again \in {"exit", "sleep", "io", "wait"}, Sleep(s, ch, again)
      PROVE  /\ chan'[s] = ch /\ pc'[s] = again
             /\ held' = held \cup {s} /\ (held = {} => panic' = panic) /\ cur' = NoProc
             /\ state'[s] = "SLEEPING" /\ ctx'[s] = "sleep" /\ saved'[s] = intr
             /\ \A t \in Slots \ {s} :
                  /\ state'[t] = state[t] /\ chan'[t] = chan[t]
                  /\ ctx'[t] = ctx[t] /\ saved'[t] = saved[t] /\ pc'[t] = pc[t]
             /\ UNCHANGED <<parent, killed, a0, a1, np, cpuproc>>
  BY <1>1, <1>2, Zenon DEF Sleep, Sched, frame
<1> USE DEF SleepEffect, In, Live, Forking
<1>3. CASE ExitCloseFiles(s)
  BY <1>2, <1>3, Zenon DEF ExitCloseFiles
<1>4. CASE SleepLoop(s)
  BY <1>2, <1>4, Zenon DEF SleepLoop
<1>5. CASE IOBlock(s)
  BY <1>2, <1>5, Zenon DEF IOBlock
<1>6. CASE WaitSleep(s)
  BY <1>2, <1>6, Zenon DEF WaitSleep
<1> QED BY <1>3, <1>4, <1>5, <1>6, Zenon

(* Going to sleep preserves the invariant. *)
LEMMA SleepStep ==
  ASSUME IInv, NEW s \in Slots,
         ExitCloseFiles(s) \/ SleepLoop(s) \/ IOBlock(s) \/ WaitSleep(s)
  PROVE  StepOK
<1>1. /\ CpuOwnership /\ OnlyInitPanics /\ ContextInv /\ SavedInv /\ ForkInv
      /\ InitAlive /\ ParentAlive /\ NoLostExit /\ SyscallsInterruptible
      /\ CoYieldInv /\ NoCoYieldCycle
      /\ parent \in [Slots -> Slots \cup {NoProc}] /\ killed \in [Slots -> {0, 1}]
  BY Zenon DEF IInv, Inv, TypeOK, TableOK
<1>0. SleepEffect(s)
  BY SleepFacts, Zenon
<1>2. CpuOwnership' /\ OnlyInitPanics'
  BY <1>0, <1>1, SlotFacts DEF SleepEffect, Live, CpuOwnership, OnlyInitPanics
<1>3. ContextInv' /\ SavedInv'
  <2>1. ContextInv'
    <3>1. state'[s] = "SLEEPING" /\ ctx'[s] = "sleep"
          /\ \A t \in Slots \ {s} : state'[t] = state[t] /\ ctx'[t] = ctx[t]
      BY <1>0, Zenon DEF SleepEffect
    <3>2. ContextInv
      BY <1>1, Zenon
    <3> QED BY <3>1, <3>2, Zenon DEF ContextInv
  <2>2. saved'[s] = 1 \/ killed[s] = 1 \/ pc'[s] = "exit"
    BY <1>0, <1>1 DEF SleepEffect, SyscallsInterruptible
  <2>3. SavedInv'
    BY <1>0, <1>1, <2>2, Zenon DEF SleepEffect, SavedInv
  <2> QED BY <2>1, <2>3, Zenon
<1>4. ForkInv'
  BY <1>0, <1>1 DEF SleepEffect, Live, CpuOwnership, ForkInv
<1>5. InitAlive' /\ ParentAlive'
  BY <1>0, <1>1, SlotFacts, Zenon DEF SleepEffect, Live, CpuOwnership, InitAlive, ParentAlive, Alive
<1>6. SyscallsInterruptible'
  BY <1>0, SlotFacts, Zenon DEF SleepEffect, SyscallsInterruptible, Live
<1>7. CoYieldInv'
  <2>1. \A t \in Slots : chan'[s] # co_chan(t)
    BY <1>0, ChanFacts, Zenon DEF SleepEffect
  <2>2. \A t \in Slots \ {s} : state[t] # "RUNNING"
    BY <1>0, <1>1, Zenon DEF SleepEffect, Live, CpuOwnership
  <2>3. ctx'[s] = "sleep" /\ state'[s] = "SLEEPING" /\ UNCHANGED <<killed, a0, a1>>
    BY <1>0, Zenon DEF SleepEffect
  <2>4. \A t \in Slots \ {s} :
          state'[t] = state[t] /\ chan'[t] = chan[t] /\ ctx'[t] = ctx[t]
    BY <1>0, Zenon DEF SleepEffect
  <2>5. ASSUME NEW t \in Slots \ {s}
        PROVE  /\ state'[t] = "SLEEPING" =>
                    (ctx'[t] = "co_yield" <=> \E u \in Slots : chan'[t] = co_chan(u))
               /\ state'[t] = "RUNNABLE" /\ ctx'[t] = "co_yield" => killed'[t] = 1
               /\ ctx'[t] = "co_yield" => a1'[t] \in Values /\ a0'[t] \in Values \cup {-1}
               /\ state'[t] # "RUNNING"
    <3>1. /\ state[t] = "SLEEPING" => (ctx[t] = "co_yield" <=> \E u \in Slots : chan[t] = co_chan(u))
          /\ state[t] = "RUNNABLE" /\ ctx[t] = "co_yield" => killed[t] = 1
          /\ ctx[t] = "co_yield" => a1[t] \in Values /\ a0[t] \in Values \cup {-1}
      BY <1>1, Zenon DEF CoYieldInv
    <3> QED BY <2>2, <2>3, <2>4, <3>1, Zenon
  <2> QED BY <2>1, <2>3, <2>5, Zenon DEF CoYieldInv
<1>8. NoLostExit'
  <2>1. \A t \in Slots : ZombieChildren(t)' \subseteq ZombieChildren(t)
    <3>1. parent' = parent /\ \A t \in Slots : state'[t] = "ZOMBIE" => state[t] = "ZOMBIE"
      BY <1>0, Zenon DEF SleepEffect
    <3> QED BY <3>1, Zenon DEF ZombieChildren
  <2>2. \A t \in Slots : state'[t] = "SLEEPING" /\ chan'[t] = proc_chan(t) => ZombieChildren(t) = {}
    <3>1. chan'[s] = proc_chan(s) => ZombieChildren(s) = {}
      BY <1>0, ChanFacts DEF SleepEffect
    <3> QED BY <1>0, <1>1, <3>1, Zenon DEF SleepEffect, NoLostExit
  <2> QED BY <2>1, <2>2 DEF NoLostExit
<1>9. NoCoYieldCycle'
  <2>1. CoSleepersKept
    BY <1>0, Zenon DEF SleepEffect, CoSleeping, CoSleepersKept
  <2> QED BY <1>1, <2>1, CycleKept, Zenon
<1>10. CoSleeperWoken
  BY <1>0, Zenon DEF SleepEffect, CoSleeping, CoSleeperWoken
<1> QED BY <1>2, <1>3, <1>4, <1>5, <1>6, <1>7, <1>8, <1>9, <1>10, Zenon DEF StepOK, Inv

-----------------------------------------------------------------------------
(* fork(), wait(), exit(), kill() and co_yield(), and the other steps *)

(* Leaving the process table alone preserves the invariant. *)
LEMMA StillStep ==
  ASSUME IInv, Still
  PROVE  StepOK
<1> USE SlotFacts DEF table, frame, thread, cpu
<1>1. /\ TypeOK /\ CpuOwnership /\ OnlyInitPanics /\ ContextInv /\ SavedInv /\ ForkInv
      /\ InitAlive /\ ParentAlive /\ NoLostExit /\ SyscallsInterruptible
      /\ CoYieldInv /\ NoCoYieldCycle
  BY Zenon DEF IInv, Inv
<1>2. StillEffect
  BY <1>1, StillFacts, Zenon
<1>3. CpuOwnership' /\ OnlyInitPanics' /\ SyscallsInterruptible'
  <2> USE <1>1 DEF TypeOK, TableOK, ThreadOK, CpuOK, CpuOwnership, OnlyInitPanics,
                   SyscallsInterruptible, Live, ContextInv, Parked
  <2>1. CASE SchedSkip
    BY <2>1 DEF SchedSkip
  <2>2. CASE SchedReturn
    BY <2>2, Zenon DEF SchedReturn, InScheduler
  <2>3. ASSUME NEW s \in Slots, ExitInit(s)
        PROVE  CpuOwnership' /\ OnlyInitPanics' /\ SyscallsInterruptible'
    BY <2>3, Zenon DEF ExitInit
  <2>4. ASSUME NEW s \in Slots, Quiet(s)
        PROVE  CpuOwnership' /\ OnlyInitPanics' /\ SyscallsInterruptible'
    <3>1. QuietEffect(s)
      BY <2>4, QuietFacts, Zenon
    <3> QED BY <3>1 DEF QuietEffect
  <2>5. CASE Panicked \/ UNCHANGED vars
    BY <2>5 DEF Panicked, vars
  <2> HIDE DEF CpuOwnership, OnlyInitPanics, SyscallsInterruptible
  <2> QED BY <2>1, <2>2, <2>3, <2>4, <2>5, Zenon DEF Still
<1>4. ContextInv' /\ SavedInv'
  BY <1>1, <1>2, Zenon DEF StillEffect, ContextInv, SavedInv
<1>5. ForkInv'
  BY <1>1, <1>2 DEF StillEffect, ForkInv, Forking
<1>6. InitAlive' /\ ParentAlive'
  BY <1>1, <1>2, Zenon DEF StillEffect, InitAlive, ParentAlive
<1>7. CoYieldInv'
  BY <1>1, <1>2 DEF StillEffect, CoYieldInv, CpuOwnership
<1>8. NoLostExit'
  BY <1>1, <1>2, Zenon DEF StillEffect, NoLostExit, ZombieChildren
<1>9. NoCoYieldCycle'
  BY <1>1, <1>2 DEF StillEffect, NoCoYieldCycle, CoSleeping
<1>10. CoSleeperWoken
  BY <1>2, Zenon DEF StillEffect, CoSleeperWoken, CoSleeping
<1> QED BY <1>3, <1>4, <1>5, <1>6, <1>7, <1>8, <1>9, <1>10, Zenon DEF StepOK, Inv

(* allocproc() and the copying of the parent in fork() preserve the invariant. *)
LEMMA ForkStep ==
  ASSUME IInv, NEW s \in Slots, Fork(s)
  PROVE  StepOK
<1> USE SlotFacts DEF Fork, In, Live, table, frame, thread, cpu
<1>1. /\ TypeOK /\ CpuOwnership /\ OnlyInitPanics /\ ContextInv /\ SavedInv /\ ForkInv
      /\ InitAlive /\ ParentAlive /\ NoLostExit /\ SyscallsInterruptible
      /\ CoYieldInv /\ NoCoYieldCycle
  BY Zenon DEF IInv, Inv
<1>2. CpuOwnership' /\ OnlyInitPanics'
  BY <1>1 DEF CpuOwnership, OnlyInitPanics
<1>3. ContextInv' /\ SavedInv'
  BY <1>1 DEF TypeOK, TableOK, ThreadOK, ContextInv, SavedInv
<1>4. ForkInv'
  BY <1>1 DEF TypeOK, TableOK, ThreadOK, CpuOwnership, ForkInv, Forking, Alive
<1>5. InitAlive' /\ ParentAlive'
  BY <1>1 DEF InitAlive, ParentAlive, Alive
<1>6. SyscallsInterruptible'
  BY <1>1, Zenon DEF SyscallsInterruptible
<1>7. CoYieldInv'
  BY <1>1 DEF CoYieldInv
<1>8. NoLostExit'
  <2>1. ExitsNoticed
    BY DEF ExitsNoticed
  <2> QED BY <1>1, <2>1, ExitsKept, Zenon
<1>9. NoCoYieldCycle'
  <2>1. CoSleepersKept
    BY DEF CoSleeping, CoSleepersKept
  <2> QED BY <1>1, <2>1, CycleKept, Zenon
<1>10. CoSleeperWoken
  BY DEF CoSleeping, CoSleeperWoken
<1> QED BY <1>2, <1>3, <1>4, <1>5, <1>6, <1>7, <1>8, <1>9, <1>10, Zenon DEF StepOK, Inv

(* Linking the child to its parent in fork() preserves the invariant. *)
LEMMA ForkSetParentStep ==
  ASSUME IInv, NEW s \in Slots, ForkSetParent(s)
  PROVE  StepOK
<1> USE SlotFacts DEF ForkSetParent, Live, Goto, table, frame, thread, cpu
<1>1. /\ TypeOK /\ CpuOwnership /\ OnlyInitPanics /\ ContextInv /\ SavedInv /\ ForkInv
      /\ InitAlive /\ ParentAlive /\ NoLostExit /\ SyscallsInterruptible
      /\ CoYieldInv /\ NoCoYieldCycle
  BY Zenon DEF IInv, Inv
<1>2. CpuOwnership' /\ OnlyInitPanics'
  BY <1>1, Zenon DEF CpuOwnership, OnlyInitPanics
<1>3. ContextInv' /\ SavedInv'
  BY <1>1 DEF ContextInv, SavedInv
<1>4. ForkInv'
  BY <1>1 DEF TypeOK, TableOK, ForkInv, Forking
<1>5. InitAlive' /\ ParentAlive'
  BY <1>1 DEF CpuOwnership, InitAlive, ParentAlive
<1>6. SyscallsInterruptible'
  BY <1>1, Zenon DEF SyscallsInterruptible
<1>7. CoYieldInv'
  BY <1>1, Zenon DEF CoYieldInv
<1>8. NoLostExit'
  <2>1. ExitsNoticed
    BY <1>1 DEF ExitsNoticed, ForkInv, Forking
  <2> QED BY <1>1, <2>1, ExitsKept, Zenon
<1>9. NoCoYieldCycle'
  <2>1. CoSleepersKept
    BY Zenon DEF CoSleeping, CoSleepersKept
  <2> QED BY <1>1, <2>1, CycleKept, Zenon
<1>10. CoSleeperWoken
  BY Zenon DEF CoSleeping, CoSleeperWoken
<1> QED BY <1>2, <1>3, <1>4, <1>5, <1>6, <1>7, <1>8, <1>9, <1>10, Zenon DEF StepOK, Inv

(* Making the child RUNNABLE in fork() preserves the invariant. *)
LEMMA ForkRunnableStep ==
  ASSUME IInv, NEW s \in Slots, ForkRunnable(s)
  PROVE  StepOK
<1> USE SlotFacts DEF ForkRunnable, Live, Goto, table, frame, thread, cpu
<1>1. /\ TypeOK /\ CpuOwnership /\ OnlyInitPanics /\ ContextInv /\ SavedInv /\ ForkInv
      /\ InitAlive /\ ParentAlive /\ NoLostExit /\ SyscallsInterruptible
      /\ CoYieldInv /\ NoCoYieldCycle
  BY Zenon DEF IInv, Inv
<1>2. CpuOwnership' /\ OnlyInitPanics'
  BY <1>1 DEF CpuOwnership, OnlyInitPanics, ForkInv, Forking
<1>3. ContextInv' /\ SavedInv'
  BY <1>1 DEF ContextInv, Parked, SavedInv, ForkInv, Forking
<1>4. ForkInv'
  BY <1>1 DEF TypeOK, ThreadOK, ForkInv, Forking, Alive
<1>5. InitAlive' /\ ParentAlive'
  BY <1>1 DEF InitAlive, ParentAlive, Alive, ForkInv, Forking
<1>6. SyscallsInterruptible'
  BY <1>1, Zenon DEF SyscallsInterruptible
<1>7. CoYieldInv'
  BY <1>1, ValuesAssumption DEF FrameOK, CpuOwnership, ContextInv, CoYieldInv, ForkInv,
     Forking
<1>8. NoLostExit'
  <2>1. ExitsNoticed
    BY DEF ExitsNoticed
  <2> QED BY <1>1, <2>1, ExitsKept, Zenon
<1>9. NoCoYieldCycle'
  <2>1. CoSleepersKept
    BY DEF CoSleeping, CoSleepersKept
  <2> QED BY <1>1, <2>1, CycleKept, Zenon
<1>10. CoSleeperWoken
  BY <1>1 DEF CoSleeping, CoSleeperWoken, ForkInv, Forking
<1> QED BY <1>2, <1>3, <1>4, <1>5, <1>6, <1>7, <1>8, <1>9, <1>10, Zenon DEF StepOK, Inv

(* exit() from acquire(&wait_lock) on preserves the invariant. *)
LEMMA ExitStep ==
  ASSUME IInv, NEW s \in Slots, ExitZombie(s)
  PROVE  StepOK
<1> USE SlotFacts, ExitFacts DEF ExitEffect, Live, Reparented, table, frame, thread,
       cpu
<1>1. /\ TypeOK /\ CpuOwnership /\ OnlyInitPanics /\ ContextInv /\ SavedInv /\ ForkInv
      /\ InitAlive /\ ParentAlive /\ NoLostExit /\ SyscallsInterruptible
      /\ CoYieldInv /\ NoCoYieldCycle
  BY Zenon DEF IInv, Inv
<1>2. CpuOwnership' /\ OnlyInitPanics'
  BY <1>1 DEF CpuOwnership, OnlyInitPanics
<1>3. ContextInv' /\ SavedInv'
  BY <1>1 DEF TypeOK, ThreadOK, ContextInv, Parked, SavedInv, SyscallsInterruptible
<1>4. ForkInv'
  BY <1>1 DEF CpuOwnership, ForkInv, Forking, Alive
<1>5. InitAlive' /\ ParentAlive'
  BY <1>1 DEF TypeOK, TableOK, CpuOwnership, InitAlive, ParentAlive, Alive
<1>6. SyscallsInterruptible'
  BY DEF SyscallsInterruptible
<1>7. CoYieldInv'
  BY <1>1, ChanFacts DEF TypeOK, ThreadOK, CpuOwnership, CoYieldInv
<1>8. NoLostExit'
  BY <1>1 DEF CpuOwnership, NoLostExit, ZombieChildren
<1>9. NoCoYieldCycle'
  <2>1. CoSleepersKept
    BY <1>1 DEF TypeOK, ThreadOK, CoSleeping, CoSleepersKept
  <2> QED BY <1>1, <2>1, CycleKept, Zenon
<1>10. CoSleeperWoken
  BY <1>1, ChanFacts DEF CoYieldInv, CoSleeping, CoSleeperWoken
<1> QED BY <1>2, <1>3, <1>4, <1>5, <1>6, <1>7, <1>8, <1>9, <1>10, Zenon DEF StepOK, Inv

(* Freeing a zombie child in wait() preserves the invariant. *)
LEMMA WaitReapStep ==
  ASSUME IInv, NEW s \in Slots, WaitReap(s)
  PROVE  StepOK
<1> USE SlotFacts DEF WaitReap, In, Live, ZombieChildren, table, frame, thread, cpu
<1>1. /\ TypeOK /\ CpuOwnership /\ OnlyInitPanics /\ ContextInv /\ SavedInv /\ ForkInv
      /\ InitAlive /\ ParentAlive /\ NoLostExit /\ SyscallsInterruptible
      /\ CoYieldInv /\ NoCoYieldCycle
  BY Zenon DEF IInv, Inv
<1>2. CpuOwnership' /\ OnlyInitPanics'
  BY <1>1 DEF CpuOwnership, OnlyInitPanics
<1>3. ContextInv' /\ SavedInv'
  BY <1>1 DEF TypeOK, TableOK, ThreadOK, ContextInv, SavedInv
<1>4. ForkInv'
  BY <1>1 DEF TypeOK, ThreadOK, ForkInv, Forking
<1>5. InitAlive' /\ ParentAlive'
  BY <1>1 DEF TypeOK, TableOK, InitAlive, ParentAlive, Alive
<1>6. SyscallsInterruptible'
  BY <1>1 DEF ContextInv, SyscallsInterruptible
<1>7. CoYieldInv'
  BY <1>1 DEF CoYieldInv
<1>8. NoLostExit'
  <2>1. ExitsNoticed
    BY <1>1 DEF TypeOK, TableOK, ExitsNoticed
  <2> QED BY <1>1, <2>1, ExitsKept, Zenon
<1>9. NoCoYieldCycle'
  <2>1. CoSleepersKept
    BY DEF CoSleeping, CoSleepersKept
  <2> QED BY <1>1, <2>1, CycleKept, Zenon
<1>10. CoSleeperWoken
  BY DEF CoSleeping, CoSleeperWoken
<1> QED BY <1>2, <1>3, <1>4, <1>5, <1>6, <1>7, <1>8, <1>9, <1>10, Zenon DEF StepOK, Inv

(* Marking and waking the victim in kill() preserves the invariant. *)
LEMMA KillStep ==
  ASSUME IInv, NEW s \in Slots, NEW p \in 0..MaxPid, Kill(s, p)
  PROVE  StepOK
<1> USE SlotFacts DEF Kill, In, Live, Return, Goto, table, frame, thread, cpu
<1>1. /\ TypeOK /\ CpuOwnership /\ OnlyInitPanics /\ ContextInv /\ SavedInv /\ ForkInv
      /\ InitAlive /\ ParentAlive /\ NoLostExit /\ SyscallsInterruptible
      /\ CoYieldInv /\ NoCoYieldCycle
  BY Zenon DEF IInv, Inv
<1>2. CpuOwnership' /\ OnlyInitPanics'
  BY <1>1 DEF TypeOK, TableOK, CpuOwnership, OnlyInitPanics
<1>3. ContextInv' /\ SavedInv'
  BY <1>1 DEF TypeOK, TableOK, ContextInv, Parked, SavedInv
<1>4. ForkInv'
  BY <1>1 DEF TypeOK, TableOK, ForkInv, Forking, Alive
<1>5. InitAlive' /\ ParentAlive'
  BY <1>1 DEF TypeOK, TableOK, InitAlive, ParentAlive, Alive
<1>6. SyscallsInterruptible'
  BY <1>1 DEF TypeOK, TableOK, SyscallsInterruptible
<1>7. CoYieldInv'
  BY <1>1 DEF TypeOK, TableOK, CoYieldInv
<1>8. NoLostExit'
  <2>1. ExitsNoticed
    BY <1>1, Zenon DEF TypeOK, TableOK, ExitsNoticed
  <2> QED BY <1>1, <2>1, ExitsKept, Zenon
<1>9. NoCoYieldCycle'
  <2>1. CoSleepersKept
    BY <1>1 DEF TypeOK, TableOK, CoSleeping, CoSleepersKept
  <2> QED BY <1>1, <2>1, CycleKept, Zenon
<1>10. CoSleeperWoken
  BY <1>1 DEF TypeOK, TableOK, CoSleeping, CoSleeperWoken
<1> QED BY <1>2, <1>3, <1>4, <1>5, <1>6, <1>7, <1>8, <1>9, <1>10, Zenon DEF StepOK, Inv

(* Switching to a waiting peer in co_yield() preserves the invariant. *)
LEMMA CoYieldMeetStep ==
  ASSUME IInv, NEW s \in Slots, NEW t \in Slots, NEW v \in Values, CoYieldMeet(s, t, v)
  PROVE  StepOK
<1> USE SlotFacts DEF CoYieldMeet, CanSwitch, PeerWaits, In, Live, SwitchTo, table,
       frame, thread, cpu
<1>1. /\ TypeOK /\ CpuOwnership /\ OnlyInitPanics /\ ContextInv /\ SavedInv /\ ForkInv
      /\ InitAlive /\ ParentAlive /\ NoLostExit /\ SyscallsInterruptible
      /\ CoYieldInv /\ NoCoYieldCycle
  BY Zenon DEF IInv, Inv
<1>2. CpuOwnership' /\ OnlyInitPanics'
  BY <1>1 DEF TypeOK, TableOK, CpuOwnership, OnlyInitPanics, ContextInv
<1>3. ContextInv' /\ SavedInv'
  BY <1>1, Zenon DEF TypeOK, TableOK, ThreadOK, ContextInv, Parked, SavedInv
<1>4. ForkInv'
  BY <1>1 DEF TypeOK, TableOK, CpuOwnership, ForkInv, Alive
<1>5. InitAlive' /\ ParentAlive'
  BY <1>1, Zenon DEF TypeOK, TableOK, CpuOwnership, InitAlive, ParentAlive, Alive
<1>6. SyscallsInterruptible'
  BY <1>1 DEF CoYieldInv, SyscallsInterruptible
<1>7. CoYieldInv'
  BY <1>1 DEF TypeOK, TableOK, ThreadOK, FrameOK, SyscallsInterruptible, CoYieldInv
<1>8. NoLostExit'
  <2>1. ExitsNoticed
    BY <1>1, ChanFacts, Zenon DEF TypeOK, TableOK, ExitsNoticed
  <2> QED BY <1>1, <2>1, ExitsKept, Zenon
<1>9. NoCoYieldCycle'
  <2>1. /\ SwitchTo(s, t) /\ t # s /\ chan'[s] = co_chan(t)
        /\ \A u \in Slots \ {s, t} : chan'[u] = chan[u]
    BY <1>1, Zenon DEF TypeOK, TableOK
  <2> HIDE DEF SwitchTo
  <2> QED BY <2>1, CycleSwitch, Zenon
<1>10. CoSleeperWoken
  BY <1>1, Zenon DEF TypeOK, TableOK, CoSleeping, CoSleeperWoken
<1> QED BY <1>2, <1>3, <1>4, <1>5, <1>6, <1>7, <1>8, <1>9, <1>10, Zenon DEF StepOK, Inv

(* Parking in co_yield() for a runnable peer preserves the invariant. *)
LEMMA CoYieldFirstStep ==
  ASSUME IInv, NEW s \in Slots, NEW t \in Slots, NEW v \in Values, CoYieldFirst(s, t, v)
  PROVE  StepOK
<1> USE SlotFacts DEF CoYieldFirst, CanSwitch, In, Live, SwitchTo, table, frame,
       thread, cpu
<1>1. /\ TypeOK /\ CpuOwnership /\ OnlyInitPanics /\ ContextInv /\ SavedInv /\ ForkInv
      /\ InitAlive /\ ParentAlive /\ NoLostExit /\ SyscallsInterruptible
      /\ CoYieldInv /\ NoCoYieldCycle
  BY Zenon DEF IInv, Inv
<1>2. CpuOwnership' /\ OnlyInitPanics'
  BY <1>1 DEF TypeOK, TableOK, CpuOwnership, OnlyInitPanics, ContextInv, Parked
<1>3. ContextInv' /\ SavedInv'
  BY <1>1 DEF TypeOK, TableOK, ThreadOK, ContextInv, SavedInv
<1>4. ForkInv'
  BY <1>1 DEF TypeOK, TableOK, CpuOwnership, ForkInv, Alive
<1>5. InitAlive' /\ ParentAlive'
  BY <1>1, Zenon DEF TypeOK, TableOK, CpuOwnership, InitAlive, ParentAlive, Alive
<1>6. SyscallsInterruptible'
  BY <1>1 DEF ContextInv, Parked, SyscallsInterruptible
<1>7. CoYieldInv'
  BY <1>1 DEF TypeOK, TableOK, ThreadOK, FrameOK, SyscallsInterruptible, CoYieldInv
<1>8. NoLostExit'
  <2>1. ExitsNoticed
    BY <1>1, ChanFacts, Zenon DEF TypeOK, TableOK, ExitsNoticed
  <2> QED BY <1>1, <2>1, ExitsKept, Zenon
<1>9. NoCoYieldCycle'
  <2>1. /\ SwitchTo(s, t) /\ t # s /\ chan'[s] = co_chan(t)
        /\ \A u \in Slots \ {s, t} : chan'[u] = chan[u]
    BY <1>1, Zenon DEF TypeOK, TableOK
  <2> HIDE DEF SwitchTo
  <2> QED BY <2>1, CycleSwitch, Zenon
<1>10. CoSleeperWoken
  BY <1>1, Zenon DEF TypeOK, TableOK, CoSleeping, CoSleeperWoken
<1> QED BY <1>2, <1>3, <1>4, <1>5, <1>6, <1>7, <1>8, <1>9, <1>10, Zenon DEF StepOK, Inv

-----------------------------------------------------------------------------
(* The theorems *)

(* The invariant holds when userinit() is done. *)
LEMMA InvInit == Init => IInv
<1> SUFFICES ASSUME Init PROVE IInv
  OBVIOUS
<1> USE SlotFacts DEF Init, Only1
<1>1. TypeOK
  BY TypeInit, Zenon
<1>2. CpuOwnership /\ OnlyInitPanics /\ ContextInv
  BY Zenon DEF CpuOwnership, OnlyInitPanics, ContextInv, Parked
<1>3. CoYieldInv /\ SavedInv /\ ForkInv
  BY Zenon DEF CoYieldInv, SavedInv, ForkInv, Forking
<1>4. InitAlive /\ ParentAlive /\ SyscallsInterruptible
  BY Zenon DEF InitAlive, Alive, ParentAlive, SyscallsInterruptible
<1>5. NoLostExit /\ NoCoYieldCycle
  BY Zenon DEF NoLostExit, NoCoYieldCycle, CoSleeping
<1> QED BY <1>1, <1>2, <1>3, <1>4, <1>5, Zenon DEF IInv, Inv

(* Every step of the kernel preserves the invariant, and ends a sleep in    *)
(* co_yield only as it may.                                                *)
LEMMA InvNext == IInv /\ [Next]_vars => IInv' /\ CoSleeperWoken
<1> SUFFICES ASSUME IInv, [Next]_vars PROVE IInv' /\ CoSleeperWoken
  OBVIOUS
<1>1. TypeOK'
  BY TypeNext, Zenon DEF IInv
<1>2. StepOK
  BY NextCases, StillStep, SchedRunStep, WakeFacts, WakeStep, TimerStep, ResumeStep,
     ForkStep, ForkSetParentStep, ForkRunnableStep,
     SleepStep, ExitStep, WaitReapStep, KillStep, CoYieldMeetStep,
     CoYieldFirstStep, Zenon
<1> QED BY <1>1, <1>2, Zenon DEF IInv, StepOK

(* The inductive invariant of proc.c holds in every execution. *)
THEOREM Invariance == Spec => []IInv
<1>1. Init => IInv
  BY InvInit, Zenon
<1>2. IInv /\ [Next]_vars => IInv'
  BY InvNext, Zenon
<1> QED BY <1>1, <1>2, PTL DEF Spec

(* The RUNNING process, mycpu()->proc and the CPU agree, and a p->lock is  *)
(* held exactly while it is handed over, with scheduler() or without it.   *)
THEOREM CpuOwnershipHolds == Spec => []CpuOwnership
<1>1. IInv => CpuOwnership
  BY Zenon DEF IInv, Inv
<1> QED BY <1>1, Invariance, PTL

(* The panics of acquire(), release(), sched() and exit() are unreachable. *)
THEOREM NoLockPanic == Spec => []OnlyInitPanics
<1>1. IInv => OnlyInitPanics
  BY Zenon DEF IInv, Inv
<1> QED BY <1>1, Invariance, PTL

(* co_yield never builds a circle of processes that wait for each other.   *)
THEOREM CoYieldAcyclic == Spec => []NoCoYieldCycle
<1>1. IInv => NoCoYieldCycle
  BY Zenon DEF IInv, Inv
<1> QED BY <1>1, Invariance, PTL

(* A rendezvous of co_yield returns a value that was passed, never the -1  *)
(* that marks a pending return value.                                      *)
THEOREM RendezvousValue == Spec => []RendezvousReturnsValue
<1>1. IInv => RendezvousReturnsValue
  BY Zenon DEF IInv, Inv, RendezvousReturnsValue, Resuming, CoYieldInv, CpuOwnership
<1> QED BY <1>1, Invariance, PTL

(* wait() never sleeps with a zombie to reap.                              *)
THEOREM ExitNeverLost == Spec => []NoLostExit
<1>1. IInv => NoLostExit
  BY Zenon DEF IInv, Inv
<1> QED BY <1>1, Invariance, PTL

(* Every process that can run or be reaped has a living parent.            *)
THEOREM NoOrphans == Spec => []ParentAlive
<1>1. IInv => ParentAlive
  BY Zenon DEF IInv, Inv
<1> QED BY <1>1, Invariance, PTL

(* A process comes out of every system call with interrupts enabled.       *)
THEOREM Interruptible == Spec => []SyscallsInterruptible
<1>1. IInv => SyscallsInterruptible
  BY Zenon DEF IInv, Inv
<1> QED BY <1>1, Invariance, PTL

(* No wakeup(), interrupt, exit or scheduler step disturbs a process that  *)
(* is parked in co_yield.                                                  *)
THEOREM CoSleepersUndisturbed == Spec => CoSleeperWakes
<1>1. IInv /\ [Next]_vars => [CoSleeperWoken]_vars
  BY InvNext, Zenon
<1> QED BY <1>1, Invariance, PTL DEF Spec, CoSleeperWakes
=============================================================================
