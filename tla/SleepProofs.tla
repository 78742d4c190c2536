---------------------------- MODULE SleepProofs -----------------------------
(***************************************************************************)
(* Sleep locks exclude each other and lose no wakeup, for any number of    *)
(* processes on any number of CPUs; sys_sleep() sleeps as long as it was   *)
(* asked to, for any width of the tick counter.                            *)
(***************************************************************************)
EXTENDS SleepLock, Clock, TLAPS

-----------------------------------------------------------------------------
(* Sleep locks *)

(* Which spinlocks a process holds at each point of acquiresleep() and     *)
(* releasesleep(), and that the lock's owner is the one that holds it: the *)
(* invariant behind the properties of the lock.                            *)
LockInv ==
  /\ \A p \in Procs :
       /\ lk = p <=> pc[p] \in {"test", "release", "wakeup"}
       /\ Holds(p) => locked = 1 /\ owner = p
       /\ pc[p] \in {"release", "sched"} => plock[p] = p
       /\ state[p] = "SLEEPING" => chan[p] = "lk"
       /\ state[p] # "RUNNING" => pc[p] = "tidy"
  /\ \A p \in Procs : pc[p] \in {"release", "sched"} =>
       locked = 1 \/ \E q \in Procs : pc[q] = "wakeup" /\ p \in todo[q]

(* The inductive invariant *)
IInv == TypeOK /\ LockInv /\ NoMissedWakeup /\ HolderKnown

(* A fresh lock, as initsleeplock() leaves it, satisfies the invariant. *)
LEMMA LockInit == Init => IInv
  BY NoneAssumption
     DEF Init, IInv, TypeOK, LockInv, NoMissedWakeup, HolderKnown, Holds

(* Every step of acquiresleep(), sleep(), wakeup(), releasesleep() and kill() *)
(* preserves the invariant.                                                  *)
LEMMA LockNext == IInv /\ [Next]_vars => IInv'
<1> SUFFICES ASSUME IInv, [Next]_vars PROVE IInv'
  OBVIOUS
<1> USE NoneAssumption DEF IInv, TypeOK, LockInv, NoMissedWakeup, HolderKnown, Holds,
       Goto, acquire_lk, acquire_plock, release_plock
<1>1. ASSUME NEW p \in Procs, acquiresleep(p) PROVE IInv'
  BY <1>1 DEF acquiresleep
<1>2. ASSUME NEW p \in Procs, TakeLock(p) PROVE IInv'
  BY <1>2 DEF TakeLock
<1>3. ASSUME NEW p \in Procs, sleep(p) PROVE IInv'
  BY <1>3 DEF sleep
<1>4. ASSUME NEW p \in Procs, sleep_release(p) PROVE IInv'
  BY <1>4 DEF sleep_release
<1>5. ASSUME NEW p \in Procs, sleep_sched(p) PROVE IInv'
  BY <1>5 DEF sleep_sched
<1>6. ASSUME NEW p \in Procs, scheduler(p) PROVE IInv'
  BY <1>6 DEF scheduler
<1>7. ASSUME NEW p \in Procs, sleep_tidy(p) PROVE IInv'
  BY <1>7 DEF sleep_tidy
<1>8. ASSUME NEW p \in Procs, holdingsleep(p) PROVE IInv'
  BY <1>8 DEF holdingsleep
<1>9. ASSUME NEW p \in Procs, releasesleep(p) PROVE IInv'
  BY <1>9 DEF releasesleep
<1>10. ASSUME NEW p \in Procs, releasesleep_done(p) PROVE IInv'
  BY <1>10 DEF releasesleep_done
<1>11. ASSUME NEW p \in Procs, NEW q \in Procs, wakeup(p, q) PROVE IInv'
  BY <1>11 DEF wakeup
<1>12. ASSUME NEW p \in Procs, kill(p) PROVE IInv'
  BY <1>12 DEF kill
<1>13. CASE UNCHANGED vars
  BY <1>13, Zenon DEF vars
<1> HIDE DEF IInv
<1> QED BY <1>1, <1>2, <1>3, <1>4, <1>5, <1>6, <1>7, <1>8, <1>9, <1>10, <1>11, <1>12,
           <1>13 DEF Next, Step

(* The invariant of sleep locks holds in every execution. *)
THEOREM LockInvariance == Spec => []IInv
<1> QED BY LockInit, LockNext, PTL DEF Spec

(* Two processes never hold the sleep lock at once. *)
THEOREM SleepLockExcludes == Spec => []MutualExclusion
<1>1. IInv => MutualExclusion
  BY Zenon DEF IInv, LockInv, MutualExclusion
<1> QED BY <1>1, LockInvariance, PTL

(* sleep() on a sleep lock misses no wakeup(). *)
THEOREM SleepMissesNoWakeup == Spec => []NoMissedWakeup
<1>1. IInv => NoMissedWakeup
  BY Zenon DEF IInv
<1> QED BY <1>1, LockInvariance, PTL

(* holdingsleep() is true for the holder. *)
THEOREM HoldingSleepTrue == Spec => []HolderKnown
<1>1. IInv => HolderKnown
  BY Zenon DEF IInv
<1> QED BY <1>1, LockInvariance, PTL

-----------------------------------------------------------------------------
(* sys_sleep() *)

Ticks == 0..WORD - 1

NapType ==
  [pc : {"user", "test", "sleeping", "done"}, n : Int, ticks0 : Ticks, killed : BOOLEAN,
   since : Int, late : Int, ret : {0, -1}]

(* While a process is in the loop of sys_sleep(), the ticks since its call *)
(* are the difference of the counter to ticks0, however often it wrapped:  *)
(* they cannot reach WORD, because one that sleeps has not slept n ticks   *)
(* yet, and one that can run soon does.                                    *)
NapInv(r) ==
  /\ r.pc \in {"test", "sleeping"} =>
       /\ r.n \in Naps /\ r.since \in Ticks /\ r.since = Unsigned(ticks - r.ticks0)
  /\ r.pc = "test" => r.late \in 0..LAG /\ r.since <= Unsigned(r.n) + r.late
  /\ r.pc = "sleeping" => r.late = 0 /\ r.since < Unsigned(r.n)
  /\ r.pc = "done" =>
       /\ r.ret = 0 => Unsigned(r.n) <= r.since /\ r.since <= Unsigned(r.n) + LAG
       /\ r.ret # 0 => r.killed

ClockInv ==
  /\ ticks \in Ticks /\ nap \in [Sleepers -> NapType]
  /\ \A p \in Sleepers : NapInv(nap[p])

LEMMA ClockConstants == WORD \in Nat \ {0} /\ LAG \in Nat /\ Naps \subseteq Int
  BY ClockAssumption, Zenon

(* One more tick, also where the counter wraps *)
LEMMA TickArithmetic ==
  ASSUME NEW t \in Ticks, NEW t0 \in Ticks
  PROVE  /\ Unsigned(t + 1) \in Ticks
         /\ Unsigned(t - t0) \in Ticks
         /\ Unsigned(t - t0) + 1 < WORD => Unsigned(Unsigned(t + 1) - t0) = Unsigned(t - t0) + 1
         /\ Unsigned(t - t) = 0
<1>1. Unsigned(t + 1) = (IF t + 1 = WORD THEN 0 ELSE t + 1) /\ Unsigned(t + 1) \in Ticks
  BY ClockConstants DEF Ticks, Unsigned
<1>2. ASSUME NEW s \in Ticks
      PROVE  Unsigned(s - t0) = IF s >= t0 THEN s - t0 ELSE s - t0 + WORD
  BY ClockConstants DEF Ticks, Unsigned
<1>3. Unsigned(t - t) = 0
  BY ClockConstants DEF Ticks, Unsigned
<1>4. Unsigned(t - t0) = IF t >= t0 THEN t - t0 ELSE t - t0 + WORD
  BY <1>2, Zenon
<1>5. Unsigned(Unsigned(t + 1) - t0) = IF Unsigned(t + 1) >= t0 THEN Unsigned(t + 1) - t0
                                       ELSE Unsigned(t + 1) - t0 + WORD
  BY <1>1, <1>2, Zenon
<1> QED BY <1>1, <1>3, <1>4, <1>5, ClockConstants DEF Ticks

(* An argument of sys_sleep(), converted, leaves room for the wait. *)
LEMMA NapArithmetic ==
  ASSUME NEW n \in Int
  PROVE  Unsigned(n) \in Ticks /\ (n \in Naps => Unsigned(n) + LAG < WORD)
  BY ClockAssumption DEF Unsigned, Ticks

(* The counter starts anywhere, with nobody asleep. *)
LEMMA ClockStart == ClockInit => ClockInv
  BY ClockConstants DEF ClockInit, ClockInv, NapType, NapInv, Awake, Ticks

(* A step that changes the record of one process *)
LEMMA NapStep ==
  ASSUME ClockInv, NEW p \in Sleepers, NEW r \in NapType, UNCHANGED ticks,
         nap' = [nap EXCEPT ![p] = r], NapInv(r)
  PROVE  ClockInv'
  BY DEF ClockInv, NapInv

(* Every step of clockintr(), sys_sleep() and kill() preserves the         *)
(* invariant.                                                              *)
LEMMA ClockStep == ClockInv /\ [ClockNext]_clockVars => ClockInv'
<1> SUFFICES ASSUME ClockInv, [ClockNext]_clockVars PROVE ClockInv'
  OBVIOUS
<1> USE ClockConstants
<1>0. ASSUME NEW p \in Sleepers
      PROVE  /\ nap[p] \in NapType /\ NapInv(nap[p]) /\ ticks \in Ticks
             /\ Unsigned(nap[p].n) \in Ticks
             /\ nap[p].n \in Naps => Unsigned(nap[p].n) + LAG < WORD
  <2>1. nap[p] \in NapType /\ NapInv(nap[p]) /\ ticks \in Ticks
    BY Zenon DEF ClockInv
  <2>2. nap[p].n \in Int
    BY <2>1, Zenon DEF NapType
  <2> QED BY <2>1, <2>2, NapArithmetic, Zenon
<1>1. CASE clockintr
  <2>1. ticks' \in Ticks
    BY <1>1, TickArithmetic, Zenon DEF clockintr, ClockInv
  <2>2. ASSUME NEW p \in Sleepers
        PROVE  nap'[p] \in NapType /\ NapInv(nap[p])'
    <3>1. CASE nap[p].pc \notin {"test", "sleeping"}
      <4>1. nap'[p] = nap[p]
        BY <1>1, <3>1, Zenon DEF clockintr
      <4> QED BY <1>0, <3>1, <4>1, Zenon DEF NapInv
    <3>2. CASE nap[p].pc \in {"test", "sleeping"}
      <4> DEFINE r == nap[p]
                 late == IF r.pc = "test" THEN r.late + 1 ELSE 0
                 s == [r EXCEPT !.pc = "test", !.since = r.since + 1, !.late = late]
      <4>1. r \in NapType /\ NapInv(r) /\ ticks \in Ticks /\ Unsigned(r.n) \in Ticks
            /\ (r.n \in Naps => Unsigned(r.n) + LAG < WORD)
        BY <1>0, Zenon
      <4>2. nap'[p] = [r EXCEPT !.pc = "test", !.since = OneMore(r.since), !.late = late]
        BY <1>1, <3>2, Zenon DEF clockintr
      <4>3. (r.pc = "test" => r.late < LAG) /\ r.pc \in {"test", "sleeping"}
            /\ ticks' = Unsigned(ticks + 1)
        BY <1>1, <3>2, Zenon DEF clockintr
      <4> HIDE DEF r
      <4>4. /\ r.since \in Ticks /\ r.ticks0 \in Ticks /\ r.late \in Int /\ r.n \in Naps
            /\ r.since + 1 < WORD /\ r.since = Unsigned(ticks - r.ticks0)
            /\ late \in 0..LAG /\ r.since + 1 <= Unsigned(r.n) + late
        BY <4>1, <4>3 DEF NapInv, Ticks, NapType
      <4>5. r.since + 1 = Unsigned(ticks' - r.ticks0)
        BY <4>1, <4>3, <4>4, TickArithmetic
      <4>6. OneMore(r.since) = r.since + 1 /\ r.since + 1 \in Ticks /\ late \in Int
        BY <4>4 DEF OneMore, Ticks
      <4> HIDE DEF late
      <4>7. s \in NapType
        <5>1. r.since + 1 \in Int /\ late \in Int
          BY <4>4, <4>6 DEF Ticks
        <5> QED BY <4>1, <5>1, Zenon DEF NapType
      <4>8. /\ s.pc = "test" /\ s.since = r.since + 1 /\ s.n = r.n
            /\ s.ticks0 = r.ticks0 /\ s.late = late
        BY <4>1, Zenon DEF NapType
      <4>9. nap'[p] = s
        BY <4>2, <4>6, Zenon
      <4> HIDE DEF s
      <4> QED BY <4>4, <4>5, <4>6, <4>7, <4>8, <4>9, Zenon DEF NapInv
    <3> QED BY <3>1, <3>2, Zenon
  <2>3. nap' = [p \in Sleepers |-> nap'[p]]
    BY <1>1, Zenon DEF clockintr
  <2> QED BY <2>1, <2>2, <2>3, Zenon DEF ClockInv
<1>2. ASSUME NEW p \in Sleepers, sys_sleep(p) PROVE ClockInv'
  <2> DEFINE r(n) == [Awake EXCEPT !.pc = "test", !.n = n, !.ticks0 = ticks]
  <2>1. PICK n \in Naps : nap' = [nap EXCEPT ![p] = r(n)]
    BY <1>2, Zenon DEF sys_sleep
  <2>2. Unsigned(n) \in Ticks /\ Unsigned(ticks - ticks) = 0 /\ ticks \in Ticks
    BY TickArithmetic, NapArithmetic, Zenon DEF ClockInv
  <2>3. /\ r(n).pc = "test" /\ r(n).n = n /\ r(n).ticks0 = ticks /\ r(n).since = 0
        /\ r(n).late = 0
    BY Zenon DEF Awake
  <2>4. r(n) \in NapType
    <3>1. Awake \in NapType
      BY DEF Awake, NapType, Ticks
    <3>2. n \in Int
      OBVIOUS
    <3> QED BY <2>2, <3>1, <3>2, Zenon DEF NapType
  <2> HIDE DEF r
  <2>5. NapInv(r(n))
    BY <2>2, <2>3 DEF NapInv, Ticks
  <2> QED BY <1>2, <2>1, <2>4, <2>5, NapStep, Zenon DEF sys_sleep
<1>3. ASSUME NEW p \in Sleepers, sys_sleep_test(p) PROVE ClockInv'
  <2> DEFINE r == nap[p]
             wait == Unsigned(ticks - r.ticks0) < Unsigned(r.n)
             s == IF wait /\ ~r.killed THEN [r EXCEPT !.pc = "sleeping", !.late = 0]
                  ELSE [r EXCEPT !.pc = "done", !.ret = IF wait THEN -1 ELSE 0]
  <2>1. r \in NapType /\ NapInv(r) /\ r.pc = "test" /\ Unsigned(r.n) \in Ticks
        /\ nap' = [nap EXCEPT ![p] = s]
    BY <1>0, <1>3, Zenon DEF sys_sleep_test
  <2> HIDE DEF r
  <2>2. CASE wait /\ ~r.killed
    <3>1. s \in NapType
      <4>1. 0 \in Int /\ s = [r EXCEPT !.pc = "sleeping", !.late = 0]
        BY <2>2
      <4> QED BY <2>1, <4>1, Zenon DEF NapType
    <3>2. /\ s.pc = "sleeping" /\ s.since = r.since /\ s.n = r.n /\ s.late = 0
          /\ s.ticks0 = r.ticks0
      BY <2>1, <2>2, Zenon DEF NapType
    <3> HIDE DEF s
    <3>3. NapInv(s)
      BY <2>1, <2>2, <3>2, Zenon DEF NapInv
    <3> QED BY <1>3, <2>1, <3>1, <3>3, NapStep, Zenon DEF sys_sleep_test
  <2>3. CASE ~(wait /\ ~r.killed)
    <3> DEFINE ret == IF wait THEN -1 ELSE 0
    <3>1. ret \in {0, -1} /\ s = [r EXCEPT !.pc = "done", !.ret = ret]
      BY <2>3, Zenon
    <3>2. r.ticks0 \in Ticks /\ Unsigned(ticks - r.ticks0) \in Ticks
      BY <2>1, TickArithmetic, Zenon DEF NapType, ClockInv
    <3>3. (ret = 0 => Unsigned(r.n) <= Unsigned(ticks - r.ticks0)) /\ (ret # 0 => r.killed)
      BY <2>1, <2>3, <3>2 DEF Ticks
    <3> HIDE DEF ret, s
    <3>4. s \in NapType
      BY <2>1, <3>1, Zenon DEF NapType
    <3>5. /\ s.pc = "done" /\ s.since = r.since /\ s.n = r.n /\ s.killed = r.killed /\ s.ret = ret
      BY <2>1, <3>1, Zenon DEF NapType
    <3>6. NapInv(s)
      BY <2>1, <3>3, <3>5 DEF NapInv, Ticks
    <3> QED BY <1>3, <2>1, <3>4, <3>6, NapStep, Zenon DEF sys_sleep_test
  <2> QED BY <2>2, <2>3, Zenon
<1>4. ASSUME NEW p \in Sleepers, sys_sleep_return(p) PROVE ClockInv'
  <2> DEFINE r == [Awake EXCEPT !.killed = nap[p].killed]
  <2>1. r \in NapType /\ NapInv(r)
    BY <1>0 DEF Awake, NapInv, NapType, Ticks
  <2> QED BY <1>4, <2>1, NapStep, Zenon DEF sys_sleep_return
<1>5. ASSUME NEW p \in Sleepers, kill_sleeper(p) PROVE ClockInv'
  <2> DEFINE r == nap[p]
             s == [r EXCEPT !.killed = TRUE, !.pc = IF r.pc = "sleeping" THEN "test" ELSE r.pc]
  <2>1. r \in NapType /\ NapInv(r) /\ Unsigned(r.n) \in Ticks
    BY <1>0, Zenon
  <2>2. nap' = [nap EXCEPT ![p] = s]
    BY <1>5, Zenon DEF kill_sleeper
  <2> HIDE DEF r
  <2>3. s \in NapType
    BY <2>1, Zenon DEF NapType
  <2>4. /\ s.pc = (IF r.pc = "sleeping" THEN "test" ELSE r.pc) /\ s.since = r.since
        /\ s.n = r.n /\ s.ticks0 = r.ticks0 /\ s.late = r.late /\ s.ret = r.ret /\ s.killed
    BY <2>1, Zenon DEF NapType
  <2> HIDE DEF s
  <2>5. NapInv(s)
    BY <2>1, <2>4 DEF NapInv, Ticks
  <2> QED BY <1>5, <2>2, <2>3, <2>5, NapStep, Zenon DEF kill_sleeper
<1>6. CASE UNCHANGED clockVars
  BY <1>6, Zenon DEF clockVars, ClockInv, NapInv
<1> QED BY <1>1, <1>2, <1>3, <1>4, <1>5, <1>6, Zenon DEF ClockNext, SleeperStep

(* sys_sleep() returns after n ticks, no sooner and no later than the      *)
(* scheduler makes it, and -1 only to a killed process, for every width of *)
(* the counter and every argument that leaves room for the wait.           *)
THEOREM ClockSleepExact == ClockSpec => []SleepExact
<1>1. ClockInv => SleepExact
  BY Zenon DEF ClockInv, NapInv, SleepExact
<1> QED BY <1>1, ClockStart, ClockStep, PTL DEF ClockSpec
=============================================================================
