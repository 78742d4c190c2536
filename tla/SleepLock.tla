----------------------------- MODULE SleepLock ------------------------------
(***************************************************************************)
(* A sleep lock of kernel/sleeplock.c on as many CPUs as there are         *)
(* processes, with the spinlocks of kernel/spinlock.c and the handshake of *)
(* sleep() and wakeup() in kernel/proc.c step by step: what must never be  *)
(* lost is the wakeup between the test of lk->locked and the sleep.        *)
(*                                                                         *)
(* Granularity.  A step takes one spinlock, or runs from there to the next *)
(* acquire() or swtch.  A sleeping process has left its CPU to scheduler(), *)
(* which released its p->lock.                                             *)
(***************************************************************************)
EXTENDS Integers

CONSTANTS
  Procs,   \* processes that use the lock
  None     \* no process

ASSUME NoneAssumption == None \notin Procs

VARIABLES
  locked, owner,  \* struct sleeplock; owner is lk->pid
  lk,             \* the process that holds the spinlock lk->lk
  plock,          \* of each process: who holds its p->lock
  state, chan,    \* of each process; chan is "lk" while it sleeps on the lock
  pc,             \* what the process does next
  todo,           \* of a process in wakeup(): the processes it has yet to look at
  panic

vars == <<locked, owner, lk, plock, state, chan, pc, todo, panic>>

Init ==
  /\ locked = 0 /\ owner = None
  /\ lk = None
  /\ plock = [p \in Procs |-> None]
  /\ state = [p \in Procs |-> "RUNNING"]
  /\ chan = [p \in Procs |-> "null"]
  /\ pc = [p \in Procs |-> "idle"]
  /\ todo = [p \in Procs |-> {}]
  /\ panic = "none"

-----------------------------------------------------------------------------
(* Spinlocks: acquire() spins until its atomic swap finds the lock free. *)

acquire_lk(p) == lk = None /\ lk' = p
acquire_plock(p, q) == plock[q] = None /\ plock' = [plock EXCEPT ![q] = p]
release_plock(q) == plock' = [plock EXCEPT ![q] = None]
Goto(p, from, to) ==
  /\ pc[p] = from /\ state[p] = "RUNNING"
  /\ pc' = [pc EXCEPT ![p] = to]

-----------------------------------------------------------------------------
(* acquiresleep(), and the sleep() in its loop *)

acquiresleep(p) ==
  /\ Goto(p, "idle", "test") \/ Goto(p, "reacquire", "test")
  /\ acquire_lk(p)
  /\ UNCHANGED <<locked, owner, plock, state, chan, todo, panic>>

(* Mutant: the lock is taken without looking. *)
TakeLock_Untested(p) ==
  /\ Goto(p, "test", "critical")
  /\ locked' = 1 /\ owner' = p /\ lk' = None
  /\ UNCHANGED <<plock, state, chan, todo, panic>>

(* while (lk->locked) ends. *)
TakeLock(p) ==
  /\ Goto(p, "test", "critical")
  /\ locked = 0
  /\ locked' = 1 /\ owner' = p
  /\ lk' = None
  /\ UNCHANGED <<plock, state, chan, todo, panic>>

(* Mutant: sleep() releases lk without p->lock. *)
sleep_NoLock(p) ==
  /\ Goto(p, "test", "sched")
  /\ locked = 1
  /\ lk' = None
  /\ UNCHANGED <<locked, owner, plock, state, chan, todo, panic>>

(* sleep(): p->lock is taken while lk is still held. *)
sleep(p) ==
  /\ Goto(p, "test", "release")
  /\ locked = 1
  /\ acquire_plock(p, p)
  /\ UNCHANGED <<locked, owner, lk, state, chan, todo, panic>>

sleep_release(p) ==
  /\ Goto(p, "release", "sched")
  /\ lk' = None
  /\ UNCHANGED <<locked, owner, plock, state, chan, todo, panic>>

(* SLEEPING, sched(), and scheduler() releases p->lock. *)
sleep_sched(p) ==
  /\ Goto(p, "sched", "tidy")
  /\ chan' = [chan EXCEPT ![p] = "lk"]
  /\ state' = [state EXCEPT ![p] = "SLEEPING"]
  /\ release_plock(p)
  /\ UNCHANGED <<locked, owner, lk, todo, panic>>

(* scheduler() takes p->lock of a RUNNABLE process and switches to it. *)
scheduler(p) ==
  /\ state[p] = "RUNNABLE"
  /\ acquire_plock(p, p)
  /\ state' = [state EXCEPT ![p] = "RUNNING"]
  /\ UNCHANGED <<locked, owner, lk, chan, pc, todo, panic>>

(* The end of sleep(), up to acquire(lk) *)
sleep_tidy(p) ==
  /\ Goto(p, "tidy", "reacquire")
  /\ chan' = [chan EXCEPT ![p] = "null"]
  /\ release_plock(p)
  /\ UNCHANGED <<locked, owner, lk, state, todo, panic>>

-----------------------------------------------------------------------------
(* holdingsleep(), as brelse() uses it, and releasesleep() *)

holdingsleep(p) ==
  /\ Goto(p, "critical", "releasesleep")
  /\ lk = None
  /\ panic' = IF locked = 1 /\ owner = p THEN panic ELSE "brelse"
  /\ UNCHANGED <<locked, owner, lk, plock, state, chan, todo>>

releasesleep(p) ==
  /\ Goto(p, "releasesleep", "wakeup")
  /\ acquire_lk(p)
  /\ locked' = 0 /\ owner' = None
  /\ todo' = [todo EXCEPT ![p] = Procs \ {p}]
  /\ UNCHANGED <<plock, state, chan, panic>>

(* One process in wakeup()'s loop: its p->lock is free, so it is taken,    *)
(* used and released; while somebody has it the loop spins.                *)
wakeup(p, q) ==
  /\ Goto(p, "wakeup", "wakeup") /\ q \in todo[p]
  /\ plock[q] = None
  /\ state' = IF state[q] = "SLEEPING" /\ chan[q] = "lk"
              THEN [state EXCEPT ![q] = "RUNNABLE"] ELSE state
  /\ todo' = [todo EXCEPT ![p] = @ \ {q}]
  /\ UNCHANGED <<locked, owner, lk, plock, chan, panic>>

releasesleep_done(p) ==
  /\ Goto(p, "wakeup", "idle") /\ todo[p] = {}
  /\ lk' = None
  /\ UNCHANGED <<locked, owner, plock, state, chan, todo, panic>>

(* kill() of a sleeping process wakes it although the lock is not free. *)
kill(q) ==
  /\ state[q] = "SLEEPING" /\ plock[q] = None
  /\ state' = [state EXCEPT ![q] = "RUNNABLE"]
  /\ UNCHANGED <<locked, owner, lk, plock, chan, pc, todo, panic>>

-----------------------------------------------------------------------------
(* A process may leave the lock alone for ever: it stutters while idle. *)
Step(p) ==
  \/ TakeLock(p) \/ sleep(p) \/ sleep_release(p) \/ sleep_sched(p)
  \/ scheduler(p) \/ sleep_tidy(p)
  \/ holdingsleep(p) \/ releasesleep(p) \/ releasesleep_done(p)
  \/ \E q \in Procs : wakeup(p, q)

Next == \E p \in Procs : acquiresleep(p) \/ Step(p) \/ kill(p)

Spec == Init /\ [][Next]_vars

(***************************************************************************)
(* Fairness.  Every CPU executes, scheduler() starts every RUNNABLE        *)
(* process, and no spinlock is starved: the swap of acquire() gives no     *)
(* order, but it succeeds sooner or later.                                 *)
(***************************************************************************)
Fairness == \A p \in Procs : SF_vars(Step(p))

FairSpec == Spec /\ Fairness

-----------------------------------------------------------------------------
(* Properties *)

(* The lock, the processes and their program counters stay well-typed.     *)
TypeOK ==
  /\ locked \in {0, 1} /\ owner \in Procs \cup {None}
  /\ lk \in Procs \cup {None}
  /\ plock \in [Procs -> Procs \cup {None}]
  /\ state \in [Procs -> {"RUNNING", "SLEEPING", "RUNNABLE"}]
  /\ chan \in [Procs -> {"null", "lk"}]
  /\ pc \in [Procs -> {"idle", "test", "release", "sched", "tidy", "reacquire",
                       "critical", "releasesleep", "wakeup"}]
  /\ todo \in [Procs -> SUBSET Procs]
  /\ panic \in {"none", "brelse"}

Holds(p) == pc[p] \in {"critical", "releasesleep"}

(* At most one process is between acquiresleep() and releasesleep().       *)
MutualExclusion == \A p, q \in Procs : Holds(p) /\ Holds(q) => p = q

(* holdingsleep() tells the holder the truth: bwrite() and brelse() do not *)
(* panic.                                                                  *)
HolderKnown == panic = "none"

(* "Once we hold p->lock, we can be guaranteed that we won't miss any      *)
(* wakeup": a process is asleep on the lock only while the lock is taken   *)
(* or its releaser has yet to look at the process.                         *)
NoMissedWakeup ==
  \A p \in Procs : state[p] = "SLEEPING" =>
    \/ locked = 1
    \/ \E q \in Procs : pc[q] = "wakeup" /\ p \in todo[q]

(* A process asleep on the lock is woken, however often others take it.    *)
SleeperWoken == \A p \in Procs : state[p] = "SLEEPING" ~> state[p] = "RUNNING"
=============================================================================
