----------------------------- MODULE LogProofs ------------------------------
(***************************************************************************)
(* The invariant of kernel/log.c, for any number of processes and blocks   *)
(* and any size of the log: a call that returned is on the disk once the   *)
(* log is at rest, and the log's pins on cached blocks balance.            *)
(***************************************************************************)
EXTENDS Log, FiniteSetTheorems, TLAPS

-----------------------------------------------------------------------------
(* The inductive invariant *)

Committing == {"write_log", "install", "done"}
InLog(b, from) == \E i \in from..n : block[i] = b

(* outstanding counts the calls in progress; commit() runs in one of them, *)
(* when no other is in progress; nobody runs during recovery.              *)
CallsInv ==
  /\ outstanding = Cardinality(Active)
  /\ \A p \in Procs : pc[p] = "commit" =>
       /\ stage \in Committing /\ committing = 1 /\ Active = {}
       /\ \A q \in Procs : pc[q] = "commit" => q = p
  /\ stage \in Committing => \E p \in Procs : pc[p] = "commit"
  /\ committing = 1 => stage \in Committing
  /\ stage \in Booting => panic = "none" /\ \A p \in Procs : pc[p] = "idle"
  /\ panic \in {"none", "too_big"}
  /\ panic = "too_big" => Active # {}
  /\ \A p \in Procs : pc[p] = "modify" =>
       /\ buf[p] \in Blocks
       /\ \A q \in Procs : pc[q] = "modify" /\ buf[q] = buf[p] => q = p

(* A header lists distinct blocks.  The one on the disk is empty until     *)
(* write_head() and after it the one in memory.  tail blocks of the log    *)
(* are written, or installed.                                              *)
HeadersInv ==
  /\ \A i \in 1..n : block[i] \in Blocks
  /\ \A i, j \in 1..n : block[i] = block[j] => i = j
  /\ \A i \in 1..dn : dblock[i] \in Blocks /\ dlog[i] \in Contents
  /\ \A i, j \in 1..dn : dblock[i] = dblock[j] => i = j
  /\ stage \in {"none", "write_log", "done"} => dn = 0
  /\ stage \in {"install", "recover"} => dn = n /\ \A i \in 1..n : dblock[i] = block[i]
  /\ stage \in {"write_log", "install", "recover"} => tail <= n
  /\ stage = "done" \/ (stage = "none" /\ Active = {}) => n = 0
  /\ stage = "write_log" => \A i \in 1..tail : dlog[i] = cache[block[i]]
  /\ stage \in {"install", "recover"} => \A i \in 1..tail : disk[block[i]] = dlog[i]
  /\ stage = "install" => \A i \in 1..n : cache[block[i]] = dlog[i]

(* The log pins the blocks it has not installed.  A block that is neither  *)
(* in the log nor being modified is in memory as it is on the disk.        *)
BuffersInv ==
  /\ stage \in {"none", "write_log", "done"} =>
       \A b \in Blocks : pins[b] = IF InLog(b, 1) THEN 1 ELSE 0
  /\ stage = "install" =>
       \A b \in Blocks : pins[b] = IF InLog(b, tail + 1) THEN 1 ELSE 0
  /\ stage \in Booting => cache = disk /\ \A b \in Blocks : pins[b] = 0
  /\ stage \notin Booting /\ panic = "none" =>
       \A b \in Blocks : ~InLog(b, 1) /\ ~Locked(b) => cache[b] = disk[b]

LogInv == TypeOK /\ CallsInv /\ HeadersInv /\ BuffersInv

-----------------------------------------------------------------------------
(* What the actions do to a state that satisfies the invariant *)

(* Some call is in progress exactly when outstanding is positive. *)
LEMMA ActiveCounted ==
  ASSUME LogInv
  PROVE  IsFiniteSet(Active) /\ outstanding \in Nat /\ (outstanding = 0 <=> Active = {})
<1>1. IsFiniteSet(Active)
  BY ProcsAssumption, FS_Subset, Zenon DEF Active
<1> QED
  BY <1>1, FS_EmptySet, FS_CardinalityType, Zenon DEF LogInv, CallsInv

(* log_write() panics, finds the block in the log or adds it at the end. *)
LEMMA LogWriteCases ==
  ASSUME LogInv, NEW p \in Procs, log_write(p)
  PROVE  \/ panic' = "too_big" /\ UNCHANGED <<n, block, pins>>
         \/ Absorbed(buf[p]) /\ UNCHANGED <<n, block, pins, panic>>
         \/ /\ n < LOGSIZE /\ n < nlog - 1 /\ ~Absorbed(buf[p])
            /\ n' = n + 1
            /\ block' = [block EXCEPT ![n + 1] = buf[p]]
            /\ pins' = [pins EXCEPT ![buf[p]] = @ + 1]
            /\ UNCHANGED panic
<1>1. p \in Active
  BY Zenon DEF log_write, Active
<1>2. ~(outstanding < 1)
  BY <1>1, ActiveCounted
<1>3. n \in Int /\ LOGSIZE \in Int /\ nlog - 1 \in Int
  BY SizesAssumption DEF LogInv, TypeOK
<1> QED
  BY <1>2, <1>3 DEF log_write

(* commit() and recovery install blocks that are in both headers, and      *)
(* commit() unpins each of them once.                                      *)
LEMMA InstallFacts ==
  ASSUME LogInv, stage \in {"install", "recover"}, tail < n
  PROVE  /\ tail + 1 \in 1..n /\ tail + 1 \in Entries
         /\ block[tail + 1] \in Blocks
         /\ dlog[tail + 1] \in Contents
         /\ stage = "install" => pins[block[tail + 1]] = 1
<1>1. tail + 1 \in 1..n /\ tail + 1 \in Entries
  BY SizesAssumption DEF LogInv, TypeOK, Entries
<1>2. block[tail + 1] \in Blocks /\ dlog[tail + 1] \in Contents
  BY <1>1, Zenon DEF LogInv, HeadersInv
<1>3. ASSUME stage = "install" PROVE pins[block[tail + 1]] = 1
  <2>1. tail + 1 \in tail + 1..n
    BY <1>1 DEF LogInv, TypeOK
  <2> QED BY <1>2, <1>3, <2>1, Zenon DEF LogInv, BuffersInv, InLog
<1> QED BY <1>1, <1>2, <1>3, Zenon

-----------------------------------------------------------------------------
(* Types *)

(* The variables of log.c keep their types, whatever the calls do. *)
LEMMA TypeNext == LogInv /\ [Next]_vars => TypeOK'
<1> SUFFICES ASSUME LogInv, [Next]_vars PROVE TypeOK'
  OBVIOUS
<1>0. TypeOK
  BY Zenon DEF LogInv
<1> USE <1>0, SizesAssumption, NoBlockAssumption DEF TypeOK, Entries, Goto, WakeupLog
<1>1. ASSUME NEW p \in Procs, begin_op(p) PROVE TypeOK'
  BY <1>1 DEF begin_op, persistent, buffers
<1>2. ASSUME NEW p \in Procs, begin_op_sleep(p) PROVE TypeOK'
  BY <1>2, Zenon DEF begin_op_sleep, persistent, buffers, log
<1>3. ASSUME NEW p \in Procs, end_op(p) PROVE TypeOK'
  <2>1. outstanding - 1 \in Nat
    BY <1>3, ActiveCounted DEF end_op, Active
  <2>2. pc' \in [Procs -> {"idle", "begin", "sleep", "op", "modify", "commit"}]
    <3>1. CASE outstanding' = 0
      <4>1. pc' = [pc EXCEPT ![p] = "commit"]
        BY <1>3, <3>1, Zenon DEF end_op
      <4> QED BY <4>1, Zenon
    <3>2. CASE outstanding' # 0
      BY <1>3, <3>2 DEF end_op
    <3> QED BY <3>1, <3>2, Zenon
  <2> QED BY <1>3, <2>1, <2>2 DEF end_op, persistent, buffers, Stages
<1>4. ASSUME NEW p \in Procs, end_op_done(p) PROVE TypeOK'
  BY <1>4, Zenon DEF end_op_done, persistent, buffers, Stages
<1>5. ASSUME NEW p \in Procs, log_write(p) PROVE TypeOK'
  <2>1. buf[p] \in Blocks
    BY <1>5, Zenon DEF log_write, LogInv, CallsInv
  <2>2. /\ n' \in 0..LOGSIZE /\ block' \in [Entries -> Blocks \cup {NoBlock}]
        /\ pins' \in [Blocks -> Nat]
    <3>1. CASE UNCHANGED <<n, block, pins>>
      BY <3>1, Zenon
    <3>2. CASE /\ n < LOGSIZE
               /\ n' = n + 1
               /\ block' = [block EXCEPT ![n + 1] = buf[p]]
               /\ pins' = [pins EXCEPT ![buf[p]] = @ + 1]
      BY <2>1, <3>2
    <3> QED BY <1>5, <3>1, <3>2, LogWriteCases, Zenon
  <2>3. panic' \in {"none", "too_big", "outside_of_trans", "log_committing"}
    BY <1>5, LogWriteCases, Zenon
  <2> QED BY <1>5, <2>2, <2>3, Zenon DEF log_write, persistent
<1>6. ASSUME NEW p \in Procs, NEW b \in Blocks, NEW v \in Contents, modify(p, b, v) PROVE TypeOK'
  BY <1>6, Zenon DEF modify, persistent, log
<1>7. ASSUME NEW b \in Blocks, recycle(b) PROVE TypeOK'
  BY <1>7, Zenon DEF recycle, persistent, log, calls
<1>8. CASE write_log
  BY <1>8 DEF write_log, buffers, log, calls, LogInv, HeadersInv
<1>9. CASE write_head
  BY <1>9 DEF write_head, HeadWritten, buffers, log, calls, Stages
<1>10. ASSUME NEW r \in {0, 1}, stage \in {"install", "recover"}, install_trans(r),
              r = 0 <=> stage = "install" PROVE TypeOK'
  <2>1. tail < n
    BY <1>10, Zenon DEF install_trans
  <2>2. block[tail + 1] \in Blocks /\ dlog[tail + 1] \in Contents /\ tail + 1 \in 0..LOGSIZE
    BY <1>10, <2>1, InstallFacts
  <2>3. pins' \in [Blocks -> Nat]
    BY <1>10, <2>1, <2>2, InstallFacts DEF install_trans
  <2> QED BY <1>10, <2>2, <2>3, Zenon DEF install_trans, log, calls
<1>11. ASSUME NEW s \in {"done", "none"}, clear(s) PROVE TypeOK'
  BY <1>11 DEF clear, HeadWritten, buffers, calls, Stages
<1>12. CASE read_head
  BY <1>12 DEF read_head, persistent, buffers, calls, Stages, Booting
<1>13. CASE Crash
  BY <1>13 DEF Crash, persistent, Stages, Booting
<1>14. CASE UNCHANGED vars
  BY <1>14, Zenon DEF vars, persistent, buffers, log, calls
<1> HIDE DEF TypeOK, Entries, Goto, WakeupLog
<1> QED
  BY <1>1, <1>2, <1>3, <1>4, <1>5, <1>6, <1>7, <1>8, <1>9, <1>10, <1>11, <1>12, <1>13, <1>14
     DEF Next, commit, recover_from_log

-----------------------------------------------------------------------------
(* Calls in progress *)

(* outstanding counts the calls between begin_op() and end_op(), and       *)
(* commit() runs alone.                                                    *)
LEMMA CallsNext == LogInv /\ [Next]_vars => CallsInv'
<1> SUFFICES ASSUME LogInv, [Next]_vars PROVE CallsInv'
  OBVIOUS
<1>0. TypeOK /\ CallsInv
  BY Zenon DEF LogInv
<1>a. IsFiniteSet(Active) /\ outstanding \in Nat /\ (outstanding = 0 <=> Active = {})
  BY ActiveCounted, Zenon
<1> DEFINE frame == UNCHANGED <<outstanding, committing, pc, buf, panic>>
<1>b. ASSUME frame PROVE Active' = Active
  BY <1>b, Zenon DEF Active
<1> USE <1>0, NoBlockAssumption DEF TypeOK, Goto, WakeupLog, Up
<1>1. ASSUME NEW p \in Procs, begin_op(p) PROVE CallsInv'
  <2>1. Active' = Active \cup {p} /\ p \notin Active
    BY <1>1 DEF begin_op, Active
  <2>2. outstanding' = Cardinality(Active')
    BY <1>1, <1>a, <2>1, FS_AddElement, Zenon DEF begin_op, CallsInv
  <2>3. stage \notin Committing
    BY <1>1 DEF begin_op, CallsInv
  <2> QED BY <1>1, <2>1, <2>2, <2>3 DEF begin_op, CallsInv
<1>2. ASSUME NEW p \in Procs, begin_op_sleep(p) PROVE CallsInv'
  <2>1. Active' = Active
    BY <1>2, Zenon DEF begin_op_sleep, Active
  <2> QED BY <1>2, <2>1 DEF begin_op_sleep, CallsInv, log
<1>3. ASSUME NEW p \in Procs, end_op(p) PROVE CallsInv'
  <2>1. p \in Active
    BY <1>3, Zenon DEF end_op, Active
  <2>2. committing = 0 /\ stage = "none" /\ panic' = "none"
    BY <1>3, <2>1, Zenon DEF end_op, CallsInv, Stages, Committing
  <2>3. pc' = IF outstanding' = 0 THEN [pc EXCEPT ![p] = "commit"]
              ELSE [q \in Procs |-> CASE q = p -> "idle"
                                      [] q # p /\ pc[q] = "sleep" -> "begin"
                                      [] OTHER -> pc[q]]
    BY <1>3, Zenon DEF end_op
  <2>4. Active' = Active \ {p}
    BY <2>3, Zenon DEF Active
  <2>5. outstanding' = Cardinality(Active')
    BY <1>3, <1>a, <2>1, <2>4, FS_RemoveElement, Zenon DEF end_op, CallsInv
  <2>6. CASE outstanding' = 0
    <3>1. Active' = {}
      BY <1>a, <2>4, <2>5, <2>6, FS_EmptySet, FS_RemoveElement, Zenon
    <3> QED BY <1>3, <2>2, <2>3, <2>5, <2>6, <3>1 DEF end_op, CallsInv, Committing, Booting
  <2>7. CASE outstanding' # 0
    BY <1>3, <2>2, <2>3, <2>4, <2>5, <2>7 DEF end_op, CallsInv, Committing, Booting
  <2> QED BY <2>6, <2>7, Zenon
<1>4. ASSUME NEW p \in Procs, end_op_done(p) PROVE CallsInv'
  <2>1. Active' = Active
    BY <1>4, Zenon DEF end_op_done, Active
  <2> QED BY <1>4, <2>1 DEF end_op_done, CallsInv, Committing, Booting
<1>5. ASSUME NEW p \in Procs, log_write(p) PROVE CallsInv'
  <2>1. Active' = Active /\ p \in Active
    BY <1>5 DEF log_write, Active
  <2>2. panic' \in {"too_big", panic}
    BY <1>5, LogWriteCases, Zenon
  <2> QED BY <1>5, <2>1, <2>2 DEF log_write, CallsInv
<1>6. ASSUME NEW p \in Procs, NEW b \in Blocks, NEW v \in Contents, modify(p, b, v)
      PROVE CallsInv'
  <2>1. Active' = Active
    BY <1>6, Zenon DEF modify, Active
  <2> QED BY <1>6, <2>1 DEF modify, CallsInv, log, Locked
<1>7. ASSUME frame, UNCHANGED stage PROVE CallsInv'
  BY <1>7, <1>b, Zenon DEF CallsInv
<1>8. CASE write_head
  BY <1>8, <1>b, Zenon DEF write_head, CallsInv, log, calls, Committing, Booting
<1>9. ASSUME clear("done"), stage = "install" PROVE CallsInv'
  BY <1>9, <1>b DEF clear, CallsInv, calls, Committing, Booting
<1>10. ASSUME clear("none"), stage = "recover" PROVE CallsInv'
  BY <1>10, <1>b, Zenon DEF clear, CallsInv, calls, Committing, Booting
<1>11. CASE read_head
  BY <1>11, <1>b, Zenon DEF read_head, CallsInv, calls, Committing, Booting
<1>12. CASE Crash
  <2>1. Active' = {}
    BY <1>12, Zenon DEF Crash, Active
  <2> QED BY <1>12, <2>1, FS_EmptySet DEF Crash, CallsInv, Committing, Booting
<1>13. ASSUME NEW b \in Blocks, recycle(b) PROVE frame /\ UNCHANGED stage
  BY <1>13, Zenon DEF recycle, log, calls
<1>14. CASE write_log
  BY <1>7, <1>14, Zenon DEF write_log, log, calls
<1>15. ASSUME NEW r \in {0, 1}, install_trans(r) PROVE frame /\ UNCHANGED stage
  BY <1>15, Zenon DEF install_trans, log, calls
<1>16. CASE UNCHANGED vars
  BY <1>7, <1>16, Zenon DEF vars, log, calls
<1> HIDE DEF TypeOK, Goto, WakeupLog, Up
<1> QED
  BY <1>1, <1>2, <1>3, <1>4, <1>5, <1>6, <1>7, <1>8, <1>9, <1>10, <1>11, <1>12, <1>13, <1>14,
     <1>15, <1>16
     DEF Next, commit, recover_from_log

-----------------------------------------------------------------------------
(* Headers *)

(* A call is in progress between commits only. *)
LEMMA ActiveStage == ASSUME LogInv, Active # {} PROVE stage = "none"
  BY Zenon DEF LogInv, CallsInv, TypeOK, Stages, Committing, Booting, Active

(* Both headers list distinct blocks, and the log blocks of the disk are   *)
(* those of the committed header.                                          *)
LEMMA HeadersNext == LogInv /\ [Next]_vars => HeadersInv'
<1> SUFFICES ASSUME LogInv, [Next]_vars PROVE HeadersInv'
  OBVIOUS
<1>0. TypeOK /\ CallsInv /\ HeadersInv /\ BuffersInv
  BY Zenon DEF LogInv
<1>a. ASSUME outstanding' # 0 PROVE Active' # {}
  BY <1>a, CallsNext, FS_EmptySet, Zenon DEF CallsInv
<1> USE <1>0, SizesAssumption, NoBlockAssumption DEF TypeOK, Entries
<1>1. ASSUME NEW p \in Procs, begin_op(p) PROVE HeadersInv'
  <2>1. p \in Active'
    BY <1>1, Zenon DEF begin_op, Active, Goto
  <2> QED BY <1>1, <2>1 DEF begin_op, HeadersInv, persistent, buffers
<1>2. ASSUME NEW p \in Procs, begin_op_sleep(p) PROVE HeadersInv'
  <2>1. Active' = Active
    BY <1>2, Zenon DEF begin_op_sleep, Active, Goto
  <2> QED BY <1>2, <2>1 DEF begin_op_sleep, HeadersInv, persistent, buffers, log
<1>3. ASSUME NEW p \in Procs, end_op(p) PROVE HeadersInv'
  <2>1. stage = "none"
    BY <1>3, ActiveStage, Zenon DEF end_op, Active
  <2>2. CASE outstanding' = 0
    BY <1>3, <2>1, <2>2 DEF end_op, HeadersInv, persistent, buffers
  <2>3. CASE outstanding' # 0
    BY <1>3, <1>a, <2>1, <2>3 DEF end_op, HeadersInv, persistent, buffers
  <2> QED BY <2>2, <2>3, Zenon
<1>4. ASSUME NEW p \in Procs, end_op_done(p) PROVE HeadersInv'
  BY <1>4 DEF end_op_done, HeadersInv, persistent, buffers
<1>5. ASSUME NEW p \in Procs, log_write(p) PROVE HeadersInv'
  <2>1. stage = "none" /\ p \in Active'
    BY <1>5, ActiveStage, Zenon DEF log_write, Active, Goto
  <2>2. buf[p] \in Blocks
    BY <1>5, Zenon DEF log_write, CallsInv
  <2>3. CASE UNCHANGED <<n, block>>
    BY <1>5, <2>1, <2>3 DEF log_write, HeadersInv, persistent
  <2>4. CASE /\ n < LOGSIZE /\ ~Absorbed(buf[p])
             /\ n' = n + 1
             /\ block' = [block EXCEPT ![n + 1] = buf[p]]
    <3>1. \A i \in 1..n' : block'[i] = IF i = n + 1 THEN buf[p] ELSE block[i]
      BY <2>4
    <3>2. \A i \in 1..n' : i = n + 1 \/ i \in 1..n
      BY <2>4
    <3> QED BY <1>5, <2>1, <2>2, <2>4, <3>1, <3>2, SMTT(30) DEF log_write, HeadersInv, persistent, Absorbed
  <2> QED BY <1>5, <2>3, <2>4, LogWriteCases, Zenon
<1>6. ASSUME NEW p \in Procs, NEW b \in Blocks, NEW v \in Contents, modify(p, b, v)
      PROVE HeadersInv'
  <2>1. stage = "none" /\ p \in Active'
    BY <1>6, ActiveStage, Zenon DEF modify, Active, Goto
  <2> QED BY <1>6, <2>1 DEF modify, HeadersInv, persistent, log
<1>7. ASSUME NEW b \in Blocks, recycle(b) PROVE HeadersInv'
  <2>1. Active' = Active
    BY <1>7, Zenon DEF recycle, calls, Active
  <2>2. stage = "write_log" => \A i \in 1..n : block[i] # b
    <3>1. stage = "write_log" => ~InLog(b, 1)
      BY <1>7 DEF recycle, BuffersInv
    <3> QED BY <3>1, Zenon DEF InLog
  <2>3. stage = "install" => \A i \in 1..n : block[i] = b => disk[b] = dlog[i]
    <3> SUFFICES ASSUME stage = "install", NEW i \in 1..n, block[i] = b PROVE disk[b] = dlog[i]
      OBVIOUS
    <3>1. ~InLog(b, tail + 1)
      BY <1>7 DEF recycle, BuffersInv
    <3>2. i \notin tail + 1..n
      BY <3>1, Zenon DEF InLog
    <3>3. i \in 1..tail
      BY <3>2
    <3> QED BY <3>3, Zenon DEF HeadersInv
  <2>4. \A c \in Blocks : cache'[c] = IF c = b THEN disk[b] ELSE cache[c]
    BY <1>7, Zenon DEF recycle
  <2> QED BY <1>7, <2>1, <2>2, <2>3, <2>4 DEF recycle, HeadersInv, persistent, log, calls
<1>8. CASE write_log
  <2>1. Active' = Active
    BY <1>8, Zenon DEF write_log, calls, Active
  <2>2. \A i \in 1..tail' : i = tail + 1 \/ i \in 1..tail
    BY <1>8 DEF write_log
  <2> QED BY <1>8, <2>1, <2>2 DEF write_log, HeadersInv, buffers, log, calls
<1>9. CASE write_head
  <2>1. \A i \in 1..n : dlog[i] \in Contents /\ cache[block[i]] = dlog[i]
    BY <1>9 DEF write_head, HeadersInv
  <2>2. dn' = n /\ \A i \in 1..n : dblock'[i] = block[i]
    BY <1>9 DEF write_head, HeadWritten
  <2>3. stage' = "install" /\ tail' = 0 /\ UNCHANGED <<disk, dlog, cache, n, block>>
    BY <1>9, Zenon DEF write_head, buffers, log
  <2> QED BY <2>1, <2>2, <2>3 DEF HeadersInv
<1>10. ASSUME NEW r \in {0, 1}, stage \in {"install", "recover"}, install_trans(r)
       PROVE HeadersInv'
  <2>1. tail < n /\ tail' = tail + 1
    BY <1>10, Zenon DEF install_trans
  <2>2. tail + 1 \in 1..n /\ block[tail + 1] \in Blocks
    BY <1>10, <2>1, InstallFacts, Zenon
  <2>3. \A i \in 1..n : disk'[block[i]] = IF i = tail + 1 THEN dlog[i] ELSE disk[block[i]]
    BY <1>10, <2>2 DEF install_trans, HeadersInv
  <2>4. \A i \in 1..n : cache'[block[i]] = IF i = tail + 1 THEN dlog[i] ELSE cache[block[i]]
    BY <1>10, <2>2 DEF install_trans, HeadersInv
  <2>5. \A i \in 1..tail' : i = tail + 1 \/ i \in 1..tail
    BY <2>1
  <2>6. UNCHANGED <<dlog, dn, dblock, n, block, stage>>
    BY <1>10, Zenon DEF install_trans, log
  <2> QED BY <1>10, <2>1, <2>2, <2>3, <2>4, <2>5, <2>6 DEF HeadersInv
<1>11. ASSUME NEW s \in {"done", "none"}, clear(s) PROVE HeadersInv'
  BY <1>11 DEF clear, HeadWritten, HeadersInv
<1>12. CASE read_head
  <2>1. n' = dn /\ \A i \in 1..dn : block'[i] = dblock[i]
    BY <1>12 DEF read_head
  <2> QED BY <1>12, <2>1 DEF read_head, HeadersInv, persistent, buffers, calls
<1>13. CASE Crash
  BY <1>13 DEF Crash, HeadersInv, persistent
<1>14. CASE UNCHANGED vars
  BY <1>14 DEF vars, persistent, buffers, log, calls, HeadersInv, Active
<1> HIDE DEF TypeOK, Entries
<1> QED
  BY <1>1, <1>2, <1>3, <1>4, <1>5, <1>6, <1>7, <1>8, <1>9, <1>10, <1>11, <1>12, <1>13, <1>14, Zenon DEF Next, commit, recover_from_log

-----------------------------------------------------------------------------
(* Buffers *)

(* The log pins each of its blocks once until it is installed; other       *)
(* blocks are in memory as on the disk, unless a call is modifying them.   *)
LEMMA BuffersNext == LogInv /\ [Next]_vars => BuffersInv'
<1> SUFFICES ASSUME LogInv, [Next]_vars PROVE BuffersInv'
  OBVIOUS
<1>0. TypeOK /\ CallsInv /\ HeadersInv /\ BuffersInv
  BY Zenon DEF LogInv
<1> USE <1>0, SizesAssumption, NoBlockAssumption DEF TypeOK, Entries, Goto
<1>a. ASSUME UNCHANGED <<n, block>>
      PROVE  \A b \in Blocks : InLog(b, 1)' = InLog(b, 1)
  BY <1>a, Zenon DEF InLog
<1>1. ASSUME NEW p \in Procs, begin_op(p) PROVE BuffersInv'
  <2>1. \A b \in Blocks : Locked(b)' = Locked(b)
    BY <1>1, Zenon DEF begin_op, Locked
  <2>2. stage = "none"
    BY <1>1 DEF begin_op, CallsInv, Up, Stages, Committing
  <2> QED BY <1>1, <1>a, <2>1, <2>2, Zenon DEF begin_op, BuffersInv, persistent, buffers
<1>2. ASSUME NEW p \in Procs, begin_op_sleep(p) PROVE BuffersInv'
  <2>1. \A b \in Blocks : Locked(b)' = Locked(b)
    BY <1>2, Zenon DEF begin_op_sleep, Locked
  <2>2. \A b \in Blocks : InLog(b, tail + 1)' = InLog(b, tail + 1)
    BY <1>2, Zenon DEF begin_op_sleep, log, InLog
  <2> QED BY <1>2, <1>a, <2>1, <2>2, Zenon DEF begin_op_sleep, BuffersInv, persistent, buffers, log
<1>3. ASSUME NEW p \in Procs, end_op(p) PROVE BuffersInv'
  <2>1. stage = "none" /\ stage' \in {"none", "write_log", "done"}
    BY <1>3, ActiveStage, Zenon DEF end_op, Active
  <2>2. \A b \in Blocks : Locked(b)' = Locked(b)
    <3>1. CASE outstanding' = 0
      BY <1>3, <3>1, Zenon DEF end_op, Locked
    <3>2. CASE outstanding' # 0
      <4>1. \A q \in Procs : pc'[q] = "modify" <=> pc[q] = "modify"
        BY <1>3, <3>2, SMTT(30) DEF end_op, WakeupLog
      <4> QED BY <1>3, <4>1, Zenon DEF end_op, Locked
    <3> QED BY <3>1, <3>2, Zenon
  <2>3. panic = "none"
    BY <1>3, Zenon DEF end_op, Up
  <2> QED BY <1>3, <1>a, <2>1, <2>2, <2>3, Zenon DEF end_op, BuffersInv, persistent, buffers, Booting
<1>4. ASSUME NEW p \in Procs, end_op_done(p) PROVE BuffersInv'
  <2>1. \A b \in Blocks : Locked(b)' = Locked(b)
    BY <1>4, Zenon DEF end_op_done, Locked, WakeupLog
  <2> QED BY <1>4, <1>a, <2>1, Zenon DEF end_op_done, BuffersInv, persistent, buffers, Booting
<1>5. ASSUME NEW p \in Procs, log_write(p) PROVE BuffersInv'
  <2>1. stage = "none" /\ UNCHANGED <<stage, cache, disk>>
    BY <1>5, ActiveStage, Zenon DEF log_write, Active, persistent
  <2>2. buf[p] \in Blocks /\ panic = "none"
    BY <1>5, Zenon DEF log_write, CallsInv, Up
  <2>3. \A b \in Blocks : Locked(b) => Locked(b)' \/ b = buf[p]
    BY <1>5, Zenon DEF log_write, Locked
  <2>4. CASE panic' = "too_big" /\ UNCHANGED <<n, block, pins>>
    BY <1>a, <2>1, <2>4, Zenon DEF BuffersInv, Booting
  <2>5. CASE Absorbed(buf[p]) /\ UNCHANGED <<n, block, pins, panic>>
    <3>1. InLog(buf[p], 1)
      BY <2>5, Zenon DEF Absorbed, InLog
    <3> QED BY <1>a, <2>1, <2>2, <2>3, <2>5, <3>1, Zenon DEF BuffersInv, Booting
  <2>6. CASE /\ n < LOGSIZE /\ ~Absorbed(buf[p])
             /\ n' = n + 1
             /\ block' = [block EXCEPT ![n + 1] = buf[p]]
             /\ pins' = [pins EXCEPT ![buf[p]] = @ + 1]
             /\ UNCHANGED panic
    <3>1. ~InLog(buf[p], 1)
      BY <2>6, Zenon DEF Absorbed, InLog
    <3>2. \A b \in Blocks : InLog(b, 1)' <=> InLog(b, 1) \/ b = buf[p]
      <4>1. \A i \in 1..n' : i = n + 1 \/ i \in 1..n
        BY <2>6
      <4>2. n + 1 \in 1..n' /\ \A i \in 1..n : i \in 1..n' /\ i # n + 1
        BY <2>6
      <4>3. \A i \in 1..n' : block'[i] = IF i = n + 1 THEN buf[p] ELSE block[i]
        BY <2>6
      <4> QED BY <4>1, <4>2, <4>3, Zenon DEF InLog
    <3>3. \A b \in Blocks : pins'[b] = IF b = buf[p] THEN pins[b] + 1 ELSE pins[b]
      BY <2>6, Zenon
    <3> QED BY <2>1, <2>2, <2>3, <2>6, <3>1, <3>2, <3>3 DEF BuffersInv, Booting
  <2> QED BY <1>5, <2>4, <2>5, <2>6, LogWriteCases, Zenon
<1>6. ASSUME NEW p \in Procs, NEW b \in Blocks, NEW v \in Contents, modify(p, b, v)
      PROVE BuffersInv'
  <2>1. stage = "none" /\ UNCHANGED <<stage, disk, n, block, pins, panic>>
    BY <1>6, ActiveStage, Zenon DEF modify, Active, persistent, log
  <2>2. \A c \in Blocks : Locked(c)' <=> Locked(c) \/ c = b
    BY <1>6, Zenon DEF modify, Locked
  <2> QED BY <1>6, <1>a, <2>1, <2>2 DEF modify, BuffersInv, Booting
<1>7. ASSUME NEW b \in Blocks, recycle(b) PROVE BuffersInv'
  <2>1. \A c \in Blocks : Locked(c)' = Locked(c)
    BY <1>7, Zenon DEF recycle, calls, Locked
  <2>2. \A c \in Blocks : InLog(c, tail + 1)' = InLog(c, tail + 1)
    BY <1>7, Zenon DEF recycle, log, InLog
  <2>3. \A c \in Blocks : cache'[c] = IF c = b THEN disk[b] ELSE cache[c]
    BY <1>7, Zenon DEF recycle
  <2>4. stage \in Booting => cache' = cache
    BY <1>7, Zenon DEF recycle, BuffersInv
  <2> QED BY <1>7, <1>a, <2>1, <2>2, <2>3, <2>4, Zenon DEF recycle, BuffersInv, persistent, log
<1>8. CASE write_log
  <2>1. \A c \in Blocks : Locked(c)' = Locked(c)
    BY <1>8, Zenon DEF write_log, calls, Locked
  <2> QED BY <1>8, <1>a, <2>1, Zenon DEF write_log, BuffersInv, buffers, log, Booting
<1>9. CASE write_head
  <2>1. \A c \in Blocks : Locked(c)' = Locked(c)
    BY <1>9, Zenon DEF write_head, calls, Locked
  <2>2. \A c \in Blocks : InLog(c, tail + 1)' = InLog(c, 1)
    BY <1>9, SMTT(30) DEF write_head, InLog, log
  <2> QED BY <1>9, <1>a, <2>1, <2>2, Zenon DEF write_head, BuffersInv, buffers, log, Booting
<1>10. ASSUME stage = "install", install_trans(0), Up PROVE BuffersInv'
  <2>1. tail < n /\ tail' = tail + 1
    BY <1>10, Zenon DEF install_trans
  <2>2. tail + 1 \in 1..n /\ block[tail + 1] \in Blocks /\ pins[block[tail + 1]] = 1
    BY <1>10, <2>1, InstallFacts, Zenon
  <2>3. \A c \in Blocks : InLog(c, tail + 1)' <=> InLog(c, tail + 1) /\ c # block[tail + 1]
    <3>1. UNCHANGED <<n, block>>
      BY <1>10, Zenon DEF install_trans, log
    <3>2. \A i \in tail + 1..n : i = tail + 1 \/ i \in tail' + 1..n
      BY <2>1
    <3>3. \A i \in tail' + 1..n : i # tail + 1 /\ i \in tail + 1..n /\ i \in 1..n
      BY <2>1
    <3>4. \A i \in tail' + 1..n : block[i] # block[tail + 1]
      <4>1. \A i, j \in 1..n : block[i] = block[j] => i = j
        BY Zenon DEF HeadersInv
      <4> QED BY <2>2, <3>3, <4>1, Zenon
    <3>5. tail + 1 \in tail + 1..n
      BY <2>1
    <3> QED BY <3>1, <3>2, <3>3, <3>4, <3>5, Zenon DEF InLog
  <2>4. \A c \in Blocks : /\ pins'[c] = IF c = block[tail + 1] THEN 0 ELSE pins[c]
                          /\ c # block[tail + 1] => cache'[c] = cache[c] /\ disk'[c] = disk[c]
                          /\ c = block[tail + 1] => cache'[c] = disk'[c]
    BY <1>10, <2>2 DEF install_trans
  <2>5. \A c \in Blocks : Locked(c)' = Locked(c)
    BY <1>10, Zenon DEF install_trans, calls, Locked
  <2> QED BY <1>10, <1>a, <2>3, <2>4, <2>5 DEF install_trans, BuffersInv, log, calls, Booting
<1>11. ASSUME stage = "recover", install_trans(1) PROVE BuffersInv'
  BY <1>11 DEF install_trans, BuffersInv, Booting
<1>12. ASSUME stage = "install", clear("done") PROVE BuffersInv'
  <2>1. \A c \in Blocks : ~InLog(c, tail + 1) /\ ~InLog(c, 1)'
    BY <1>12 DEF clear, InLog
  <2>2. \A c \in Blocks : InLog(c, 1) => cache[c] = disk[c]
    BY <1>12 DEF clear, InLog, HeadersInv
  <2>3. \A c \in Blocks : Locked(c)' = Locked(c)
    BY <1>12, Zenon DEF clear, calls, Locked
  <2> QED BY <1>12, <2>1, <2>2, <2>3, Zenon DEF clear, BuffersInv, buffers, calls, Booting
<1>13. ASSUME stage = "recover", clear("none") PROVE BuffersInv'
  <2>1. \A c \in Blocks : ~InLog(c, 1)'
    BY <1>13 DEF clear, InLog
  <2> QED BY <1>13, <2>1, Zenon DEF clear, BuffersInv, buffers, Booting
<1>14. CASE read_head
  BY <1>14, Zenon DEF read_head, BuffersInv, persistent, buffers, Booting
<1>15. CASE Crash
  BY <1>15, Zenon DEF Crash, BuffersInv, persistent, Booting
<1>16. CASE UNCHANGED vars
  BY <1>16 DEF vars, persistent, buffers, log, calls, BuffersInv, InLog, Locked
<1> HIDE DEF TypeOK, Entries, Goto
<1> QED
  BY <1>1, <1>2, <1>3, <1>4, <1>5, <1>6, <1>7, <1>8, <1>9, <1>10, <1>11, <1>12, <1>13, <1>14,
     <1>15, <1>16
     DEF Next, commit, recover_from_log

(* A file system without a pending transaction satisfies the invariant. *)
LEMMA LogInit == Init => LogInv
<1> SUFFICES ASSUME Init PROVE LogInv
  OBVIOUS
<1> USE SizesAssumption, NoBlockAssumption DEF Init
<1>1. TypeOK
  BY DEF TypeOK, Entries, Stages, Booting
<1>2. Active = {}
  BY Zenon DEF Active
<1>3. CallsInv
  BY <1>2, FS_EmptySet DEF CallsInv, Booting, Committing
<1>4. HeadersInv
  BY DEF HeadersInv
<1>5. BuffersInv
  BY Zenon DEF BuffersInv, Booting
<1> QED BY <1>1, <1>3, <1>4, <1>5, Zenon DEF LogInv

(* The invariant of the log holds in every execution. *)
THEOREM LogInvariance == Spec => []LogInv
<1>1. LogInv /\ [Next]_vars => LogInv'
  BY TypeNext, CallsNext, HeadersNext, BuffersNext, Zenon DEF LogInv
<1> QED BY <1>1, LogInit, PTL DEF Spec

-----------------------------------------------------------------------------
(* Durability *)

(* What recovery would restore: the log where it has the block *)
RestoresLog ==
  \A b \in Blocks :
    /\ \A i \in 1..dn : dblock[i] = b => Recovered[b] = dlog[i]
    /\ (\A i \in 1..dn : dblock[i] # b) => Recovered[b] = disk[b]

(* Recovery finds at most one copy of a block in the log. *)
LEMMA RecoveredIs == LogInv => RestoresLog
<1> SUFFICES ASSUME LogInv, NEW b \in Blocks
             PROVE  /\ \A i \in 1..dn : dblock[i] = b => Recovered[b] = dlog[i]
                    /\ (\A i \in 1..dn : dblock[i] # b) => Recovered[b] = disk[b]
  BY Zenon DEF RestoresLog
<1>1. ASSUME NEW i \in 1..dn, dblock[i] = b PROVE Recovered[b] = dlog[i]
  <2> DEFINE k == CHOOSE j \in 1..dn : dblock[j] = b
  <2>1. k \in 1..dn /\ dblock[k] = b
    BY <1>1, Zenon
  <2>2. k = i
    BY <1>1, <2>1, Zenon DEF LogInv, HeadersInv
  <2>3. Recovered[b] = dlog[k]
    BY <1>1, Zenon DEF Recovered
  <2> QED BY <2>2, <2>3, Zenon
<1>2. ASSUME \A i \in 1..dn : dblock[i] # b PROVE Recovered[b] = disk[b]
  BY <1>2, Zenon DEF Recovered
<1> QED BY <1>1, <1>2, Zenon

(* When the last call has left end_op(), a crash loses nothing. *)
LEMMA AtRest == LogInv => DurableAtRest
<1> SUFFICES ASSUME LogInv, stage = "none", Active = {} PROVE Recovered = cache
  BY Zenon DEF DurableAtRest
<1>1. dn = 0 /\ n = 0 /\ panic = "none"
  BY Zenon DEF LogInv, HeadersInv, CallsInv
<1>2. \A b \in Blocks : ~Locked(b) /\ ~InLog(b, 1)
  BY <1>1 DEF Locked, Active, InLog
<1>3. \A b \in Blocks : cache[b] = disk[b]
  BY <1>1, <1>2, Zenon DEF LogInv, BuffersInv, Booting
<1>4. \A b \in Blocks : Recovered[b] = cache[b]
  BY <1>1, <1>3, RecoveredIs DEF RestoresLog
<1> QED BY <1>4, Zenon DEF Recovered, LogInv, TypeOK

(* When no call is in progress and no commit runs, every write that a call *)
(* made is on the disk or in the committed log.                            *)
THEOREM LogDurable == Spec => []DurableAtRest
<1> QED BY AtRest, LogInvariance, PTL

(* A block of the log has one reference of the log, other blocks none. *)
THEOREM LogPinsBalance == Spec => []PinsBalance
<1>1. LogInv => PinsBalance
  BY Zenon DEF LogInv, BuffersInv, InLog, PinsBalance
<1> QED BY <1>1, LogInvariance, PTL

=============================================================================
