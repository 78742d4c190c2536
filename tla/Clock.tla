------------------------------- MODULE Clock --------------------------------
(***************************************************************************)
(* The tick counter: clockintr() of kernel/trap.c, sys_sleep() and kill()  *)
(* of a process that sleeps in it.  ticks is an unsigned int, which wraps; *)
(* the int argument of sys_sleep() is converted to one by the comparison.  *)
(***************************************************************************)
EXTENDS Integers

CONSTANTS
  Sleepers,
  WORD,      \* 2^32 in the code
  Naps,      \* the arguments of sys_sleep()
  LAG        \* the clock interrupts a process that can run may have to wait

ASSUME ClockAssumption ==
  /\ WORD \in Nat \ {0} /\ LAG \in Nat
  /\ Naps \subseteq Int /\ \A n \in Naps : (n % WORD) + LAG < WORD

VARIABLES
  ticks,
  nap        \* processes: step, n, ticks0 and killed; ticks since the call,
             \* ticks since it could run, the result

clockVars == <<ticks, nap>>

Awake == [pc |-> "user", n |-> 0, ticks0 |-> 0, killed |-> FALSE, since |-> 0, late |-> 0, ret |-> 0]
ClockInit == ticks \in {0, WORD - 1} /\ nap = [p \in Sleepers |-> Awake]

Unsigned(n) == n % WORD
OneMore(k) == IF k < WORD THEN k + 1 ELSE k

clockintr ==
  /\ \A p \in Sleepers : nap[p].pc = "test" => nap[p].late < LAG
  /\ ticks' = Unsigned(ticks + 1)
  /\ nap' = [p \in Sleepers |->
       IF nap[p].pc \notin {"test", "sleeping"} THEN nap[p]
       ELSE [nap[p] EXCEPT !.pc = "test", !.since = OneMore(@),
                           !.late = IF nap[p].pc = "test" THEN @ + 1 ELSE 0]]

sys_sleep(p) ==
  /\ nap[p].pc = "user" /\ ~nap[p].killed
  /\ \E n \in Naps : nap' = [nap EXCEPT ![p] = [Awake EXCEPT !.pc = "test", !.n = n, !.ticks0 = ticks]]
  /\ UNCHANGED ticks

(* Mutant: the time to wake up is computed, and compared with ticks. *)
sys_sleep_test_Deadline(p) ==
  LET r == nap[p]
      wait == ticks < Unsigned(r.ticks0 + r.n)
  IN  /\ r.pc = "test"
      /\ nap' = [nap EXCEPT ![p] = IF wait /\ ~r.killed THEN [r EXCEPT !.pc = "sleeping", !.late = 0]
                                   ELSE [r EXCEPT !.pc = "done", !.ret = IF wait THEN -1 ELSE 0]]
      /\ UNCHANGED ticks

(* The loop: the test, killed() and sleep(), under tickslock *)
sys_sleep_test(p) ==
  LET r == nap[p]
      wait == Unsigned(ticks - r.ticks0) < Unsigned(r.n)
  IN  /\ r.pc = "test"
      /\ nap' = [nap EXCEPT ![p] = IF wait /\ ~r.killed THEN [r EXCEPT !.pc = "sleeping", !.late = 0]
                                   ELSE [r EXCEPT !.pc = "done", !.ret = IF wait THEN -1 ELSE 0]]
      /\ UNCHANGED ticks

sys_sleep_return(p) ==
  /\ nap[p].pc = "done"
  /\ nap' = [nap EXCEPT ![p] = [Awake EXCEPT !.killed = nap[p].killed]]
  /\ UNCHANGED ticks

kill_sleeper(p) ==
  /\ ~nap[p].killed
  /\ nap' = [nap EXCEPT ![p].killed = TRUE,
                        ![p].pc = IF @ = "sleeping" THEN "test" ELSE @]
  /\ UNCHANGED ticks

SleeperStep(p) == sys_sleep_test(p) \/ sys_sleep_return(p)
ClockNext == clockintr \/ \E p \in Sleepers : SleeperStep(p) \/ sys_sleep(p) \/ kill_sleeper(p)

(* The timer of the machine goes on, the scheduler runs what can run. *)
ClockFairness == WF_clockVars(clockintr) /\ \A p \in Sleepers : WF_clockVars(SleeperStep(p))
ClockSpec == ClockInit /\ [][ClockNext]_clockVars /\ ClockFairness

-----------------------------------------------------------------------------
(* sys_sleep() returns 0 after n ticks, no sooner, and no later than the   *)
(* scheduler makes it, also where the counter wraps in between; -1 only    *)
(* when the process was killed.                                            *)
SleepExact ==
  \A p \in Sleepers : nap[p].pc = "done" =>
    /\ nap[p].ret = 0 => nap[p].since >= Unsigned(nap[p].n)
    /\ nap[p].ret = 0 /\ ~nap[p].killed => nap[p].since <= Unsigned(nap[p].n) + LAG
    /\ nap[p].ret # 0 => nap[p].killed

(* Whoever sleeps gets to return. *)
SleepEnds == \A p \in Sleepers : nap[p].pc = "sleeping" ~> nap[p].pc = "user"
=============================================================================
