------------------------------ MODULE ProcInv -------------------------------
(***************************************************************************)
(* The inductive invariant behind the safety properties of module Proc.    *)
(***************************************************************************)
EXTENDS Proc

Alive == {"SLEEPING", "RUNNABLE", "RUNNING"}
Parked == {"forkret", "yield", "sleep", "co_yield"}
Forking == {"fork_parent", "fork_runnable"}

(* Where a kernel thread can be suspended in each state of its process *)
ContextInv ==
  \A s \in Slots :
    /\ state[s] = "UNUSED" => ctx[s] = "none"
    /\ state[s] = "USED" => ctx[s] = "forkret"
    /\ state[s] = "SLEEPING" => ctx[s] \in {"sleep", "co_yield"}
    /\ state[s] = "RUNNABLE" => ctx[s] \in Parked
    /\ state[s] = "RUNNING" => ctx[s] \in Parked \cup {"live"}
    /\ state[s] = "ZOMBIE" => ctx[s] = "exit"

(* Only co_yield sleeps on a co_chan, and only kill() makes it RUNNABLE. *)
CoYieldInv ==
  \A s \in Slots :
    /\ state[s] = "SLEEPING" => (ctx[s] = "co_yield" <=> \E t \in Slots : chan[s] = co_chan(t))
    /\ state[s] = "RUNNABLE" /\ ctx[s] = "co_yield" => killed[s] = 1
    /\ ctx[s] = "co_yield" => a1[s] \in Values /\ a0[s] \in Values \cup {-1}
    /\ state[s] = "RUNNING" /\ ctx[s] = "co_yield" /\ killed[s] = 0 => a0[s] \in Values /\ intena = 1

(* A thread that sleeps with interrupts off is killed or on its way out. *)
SavedInv ==
  \A s \in Slots : ctx[s] = "sleep" => saved[s] = 1 \/ killed[s] = 1 \/ pc[s] = "exit"

(* The child of an unfinished fork() is USED and belongs to that fork(). *)
ForkInv ==
  \A s \in Slots : pc[s] \in Forking =>
    /\ state[s] \in Alive
    /\ np[s] \in Slots /\ state[np[s]] = "USED"
    /\ pc[s] = "fork_runnable" => parent[np[s]] = s
    /\ \A t \in Slots : pc[t] \in Forking /\ np[t] = np[s] => t = s

InitAlive == state[initproc] \in Alive

(* What every step of proc.c and trap.c preserves, given well-typed state *)
Inv ==
  /\ CpuOwnership /\ OnlyInitPanics
  /\ ContextInv /\ SavedInv
  /\ ForkInv /\ InitAlive /\ ParentAlive
  /\ NoLostExit /\ SyscallsInterruptible
  /\ CoYieldInv /\ NoCoYieldCycle

(* The inductive invariant: everything the safety theorems need of a       *)
(* reachable state of the process table, the kernel threads and the CPU.   *)
IInv == TypeOK /\ Inv
=============================================================================
