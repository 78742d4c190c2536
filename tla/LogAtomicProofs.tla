--------------------------- MODULE LogAtomicProofs --------------------------
(***************************************************************************)
(* The log of kernel/log.c implements atomic transactions, for any number  *)
(* of processes and blocks and any size of the log: what recovery restores *)
(* changes at write_head() only, and then to what the calls have written.  *)
(* And it has room for the calls it admits, if they write few enough       *)
(* blocks.                                                                 *)
(***************************************************************************)
EXTENDS LogProofs

-----------------------------------------------------------------------------
(* Refinement of Transactions *)

Current == IF stage \in Booting THEN Recovered ELSE cache

(* A step that leaves the disk alone leaves alone what recovery restores. *)
LEMMA RecoveredFrame == ASSUME UNCHANGED persistent PROVE Recovered' = Recovered
BY Zenon DEF Recovered, persistent

(* Every step of log.c is a step of a transaction or changes nothing that  *)
(* a transaction can see.                                                  *)
LEMMA LogStep ==
  LogInv /\ RestoresLog /\ RestoresLog' /\ [Next]_vars
    => [Transaction!Next]_(Transaction!vars)
<1> SUFFICES ASSUME LogInv, RestoresLog, RestoresLog', [Next]_vars
             PROVE  Transaction!Next \/ UNCHANGED <<Recovered, Current, Active>>
  BY Zenon DEF Transaction!vars, Current
<1>0. TypeOK
  BY Zenon DEF LogInv
<1> USE <1>0, SizesAssumption DEF TypeOK, Entries, Goto
<1>a. ASSUME UNCHANGED <<Recovered, cache>>, stage \in Booting <=> stage' \in Booting
      PROVE  UNCHANGED <<Recovered, Current>>
  BY <1>a, Zenon DEF Current
<1>1. ASSUME NEW p \in Procs, begin_op(p) PROVE Transaction!Next
  <2>1. p \notin Active /\ Active' = Active \cup {p}
    BY <1>1 DEF begin_op, Active
  <2>2. UNCHANGED <<Recovered, Current>>
    BY <1>1, <1>a, RecoveredFrame, Zenon DEF begin_op, buffers
  <2>3. Transaction!Begin(p)
    BY <2>1, <2>2, Zenon DEF Transaction!Begin, Current
  <2> QED BY <2>3, Zenon DEF Transaction!Next
<1>2. ASSUME NEW p \in Procs, begin_op_sleep(p) PROVE UNCHANGED <<Recovered, Current, Active>>
  <2>1. Active' = Active
    BY <1>2, Zenon DEF begin_op_sleep, Active
  <2> QED BY <1>2, <1>a, <2>1, RecoveredFrame, Zenon DEF begin_op_sleep, buffers
<1>3. ASSUME NEW p \in Procs, end_op(p) PROVE Transaction!Next
  <2>1. p \in Active
    BY <1>3, Zenon DEF end_op, Active
  <2>2. Active' = Active \ {p}
    <3>1. CASE outstanding' = 0
      BY <1>3, <3>1, Zenon DEF end_op, Active
    <3>2. CASE outstanding' # 0
      BY <1>3, <3>2 DEF end_op, Active, WakeupLog
    <3> QED BY <3>1, <3>2, Zenon
  <2>3. UNCHANGED <<Recovered, Current>>
    <3>1. stage \notin Booting /\ stage' \notin Booting
      BY <1>3, Zenon DEF end_op, Up, Booting
    <3> QED BY <1>3, <1>a, <3>1, RecoveredFrame, Zenon DEF end_op, buffers
  <2>4. Transaction!End(p)
    BY <2>1, <2>2, <2>3, Zenon DEF Transaction!End, Current
  <2> QED BY <2>4, Zenon DEF Transaction!Next
<1>4. ASSUME NEW p \in Procs, end_op_done(p) PROVE UNCHANGED <<Recovered, Current, Active>>
  <2>1. Active' = Active
    BY <1>4, Zenon DEF end_op_done, Active, WakeupLog
  <2> QED BY <1>4, <1>a, <2>1, RecoveredFrame, Zenon DEF end_op_done, buffers, Booting
<1>5. ASSUME NEW p \in Procs, log_write(p) PROVE UNCHANGED <<Recovered, Current, Active>>
  <2>1. Active' = Active
    BY <1>5, Zenon DEF log_write, Active
  <2> QED BY <1>5, <1>a, <2>1, RecoveredFrame, Zenon DEF log_write
<1>6. ASSUME NEW p \in Procs, NEW b \in Blocks, NEW v \in Contents, modify(p, b, v)
      PROVE Transaction!Next
  <2>1. p \in Active /\ Active' = Active
    BY <1>6, Zenon DEF modify, Active
  <2>2. stage \notin Booting /\ stage' = stage
    BY <1>6, Zenon DEF modify, Up
  <2>3. Recovered' = Recovered
    BY <1>6, RecoveredFrame, Zenon DEF modify
  <2>4. Transaction!Write(p, b, v)
    BY <1>6, <2>1, <2>2, <2>3, Zenon DEF modify, Transaction!Write
  <2> QED BY <2>4, Zenon DEF Transaction!Next
<1>7. ASSUME NEW b \in Blocks, recycle(b) PROVE UNCHANGED <<Recovered, Current, Active>>
  <2>1. UNCHANGED <<Recovered, Active, stage>>
    BY <1>7, RecoveredFrame, Zenon DEF recycle, calls, Active
  <2>2. ASSUME stage \notin Booting PROVE cache[b] = disk[b]
    <3>1. CASE InLog(b, 1)
      <4>1. PICK i \in 1..n : block[i] = b
        BY <3>1, Zenon DEF InLog
      <4>2. stage = "install"
        BY <1>7, <2>2, <3>1 DEF recycle, LogInv, BuffersInv, Stages
      <4>3. ~InLog(b, tail + 1)
        BY <1>7, <4>2 DEF recycle, LogInv, BuffersInv
      <4>4. i \in 1..tail
        BY <4>1, <4>3 DEF InLog
      <4> QED BY <4>1, <4>2, <4>4 DEF LogInv, HeadersInv
    <3>2. CASE ~InLog(b, 1)
      BY <1>7, <2>2, <3>2, Zenon DEF recycle, LogInv, BuffersInv
    <3> QED BY <3>1, <3>2, Zenon
  <2>3. stage \notin Booting => cache' = cache
    BY <1>7, <2>2, Zenon DEF recycle
  <2> QED BY <2>1, <2>3, Zenon DEF Current
<1>8. CASE write_log
  <2>1. Active' = Active /\ stage \notin Booting /\ UNCHANGED <<stage, cache>>
    BY <1>8, Zenon DEF write_log, calls, Active, Up, buffers
  <2>2. dn = 0 /\ dn' = 0 /\ disk' = disk
    BY <1>8, Zenon DEF write_log, LogInv, HeadersInv
  <2>3. Recovered' = Recovered
    BY <2>2 DEF Recovered
  <2> QED BY <1>a, <2>1, <2>3, Zenon
<1>9. CASE write_head
  <2>1. stage = "write_log" /\ UNCHANGED <<cache, disk, dlog, n, block, Active>>
    BY <1>9, Zenon DEF write_head, buffers, log, calls, Active
  <2>2. Active = {} /\ panic = "none"
    BY <1>9, <2>1, ActiveStage, Zenon DEF write_head, Up
  <2>3. \A b \in Blocks : ~Locked(b)
    BY <2>2, Zenon DEF Locked, Active
  <2>4. dn' = n /\ \A i \in 1..n : dblock'[i] = block[i]
    BY <1>9 DEF write_head, HeadWritten
  <2>a. \A i \in 1..n : dlog[i] = cache[block[i]]
    BY <1>9, Zenon DEF write_head, LogInv, HeadersInv
  <2>5. ASSUME NEW b \in Blocks PROVE Recovered'[b] = cache[b]
    <3>1. CASE InLog(b, 1)
      <4>1. PICK i \in 1..n : block[i] = b
        BY <3>1, Zenon DEF InLog
      <4>2. Recovered'[b] = dlog'[i]
        BY <2>4, <4>1, Zenon DEF RestoresLog
      <4> QED BY <2>1, <2>a, <4>1, <4>2, Zenon
    <3>2. CASE ~InLog(b, 1)
      <4>1. cache[b] = disk[b]
        BY <2>1, <2>2, <2>3, <3>2, Zenon DEF LogInv, BuffersInv, Booting
      <4>2. \A i \in 1..dn' : dblock'[i] # b
        BY <2>4, <3>2, Zenon DEF InLog
      <4> QED BY <2>1, <4>1, <4>2, Zenon DEF RestoresLog
    <3> QED BY <3>1, <3>2, Zenon
  <2>6. Recovered' = cache
    BY <2>5, Zenon DEF Recovered
  <2>7. Current = cache /\ Current' = cache
    BY <1>9, <2>1, Zenon DEF Current, write_head, Booting
  <2>8. Transaction!Commit
    BY <2>1, <2>2, <2>6, <2>7, Zenon DEF Transaction!Commit, Current
  <2> QED BY <2>8, Zenon DEF Transaction!Next
<1>10. ASSUME NEW r \in {0, 1}, stage \in {"install", "recover"}, install_trans(r)
       PROVE UNCHANGED <<Recovered, Current, Active>>
  <2>1. tail < n /\ UNCHANGED <<dlog, dn, dblock, stage, Active>>
    BY <1>10, Zenon DEF install_trans, calls, Active
  <2>2. tail + 1 \in 1..n /\ block[tail + 1] \in Blocks
    BY <1>10, <2>1, InstallFacts, Zenon
  <2>3. dn = n /\ dblock[tail + 1] = block[tail + 1]
    BY <1>10, <2>2, Zenon DEF LogInv, HeadersInv
  <2>4. \A b \in Blocks : b # block[tail + 1] => disk'[b] = disk[b]
    BY <1>10, <2>2, Zenon DEF install_trans
  <2>5. ASSUME NEW b \in Blocks PROVE Recovered'[b] = Recovered[b]
    <3>1. CASE \E i \in 1..dn : dblock[i] = b
      <4>1. PICK i \in 1..dn : dblock[i] = b
        BY <3>1, Zenon
      <4>2. Recovered[b] = dlog[i]
        BY <4>1 DEF RestoresLog
      <4>3. Recovered'[b] = dlog'[i]
        BY <2>1, <4>1 DEF RestoresLog
      <4> QED BY <2>1, <4>2, <4>3, Zenon
    <3>2. CASE \A i \in 1..dn : dblock[i] # b
      <4>1. Recovered[b] = disk[b]
        BY <3>2, Zenon DEF RestoresLog
      <4>2. Recovered'[b] = disk'[b]
        BY <2>1, <3>2, Zenon DEF RestoresLog
      <4>3. b # block[tail + 1]
        BY <2>2, <2>3, <3>2, Zenon
      <4> QED BY <2>4, <4>1, <4>2, <4>3, Zenon
    <3> QED BY <3>1, <3>2, Zenon
  <2>6. Recovered' = Recovered
    BY <2>5, Zenon DEF Recovered
  <2>7. stage = "install" => cache' = cache
    BY <1>10, <2>2 DEF install_trans, LogInv, HeadersInv
  <2> QED BY <1>10, <2>1, <2>6, <2>7, Zenon DEF Current, Booting
<1>11. ASSUME NEW s \in {"done", "none"}, clear(s), stage \in {"install", "recover"}
       PROVE UNCHANGED <<Recovered, Current, Active>>
  <2>1. tail = n /\ dn' = 0 /\ UNCHANGED <<disk, cache, Active>>
    BY <1>11, Zenon DEF clear, HeadWritten, calls, Active, buffers
  <2>2. \A i \in 1..dn : disk[dblock[i]] = dlog[i]
    BY <1>11, <2>1, Zenon DEF LogInv, HeadersInv
  <2>3. ASSUME NEW b \in Blocks PROVE Recovered'[b] = disk[b] /\ Recovered[b] = disk[b]
    <3>1. Recovered'[b] = disk[b]
      BY <2>1 DEF RestoresLog
    <3>2. CASE \E i \in 1..dn : dblock[i] = b
      BY <2>2, <3>1, <3>2 DEF RestoresLog
    <3>3. CASE ~\E i \in 1..dn : dblock[i] = b
      BY <3>1, <3>3, Zenon DEF RestoresLog
    <3> QED BY <3>2, <3>3, Zenon
  <2>4. Recovered' = disk /\ Recovered = disk
    <3>1. Recovered' = [b \in Blocks |-> Recovered'[b]]
      BY Zenon DEF Recovered
    <3>2. Recovered = [b \in Blocks |-> Recovered[b]]
      BY Zenon DEF Recovered
    <3> QED BY <2>3, <3>1, <3>2
  <2>5. stage = "recover" => cache = disk
    BY Zenon DEF LogInv, BuffersInv, Booting
  <2>6. stage' \notin Booting
    BY <1>11, Zenon DEF clear, Booting
  <2> QED BY <1>11, <2>1, <2>4, <2>5, <2>6, Zenon DEF Current, Booting
<1>12. CASE read_head
  BY <1>12, RecoveredFrame, Zenon DEF read_head, calls, Active, Current, Booting
<1>13. CASE Crash
  <2>1. Active' = {} /\ Recovered' = Recovered
    BY <1>13, RecoveredFrame, Zenon DEF Crash, Active
  <2>2. Current' = Recovered
    BY <1>13, <2>1, Zenon DEF Crash, Current, Booting
  <2>3. Transaction!Crash
    BY <2>1, <2>2, Zenon DEF Transaction!Crash, Current
  <2> QED BY <2>3, Zenon DEF Transaction!Next
<1>14. CASE UNCHANGED vars
  BY <1>14, <1>a, RecoveredFrame, Zenon DEF vars, buffers, calls, Active
<1> HIDE DEF TypeOK, Entries, Goto
<1> QED
  BY <1>1, <1>2, <1>3, <1>4, <1>5, <1>6, <1>7, <1>8, <1>9, <1>10, <1>11, <1>12, <1>13, <1>14, Zenon DEF Next, commit, recover_from_log

(* Recovery of a fresh file system restores the disk. *)
LEMMA LogStart == Init => Transaction!Init
<1> SUFFICES ASSUME Init PROVE Transaction!Init
  OBVIOUS
<1>1. Recovered = disk /\ Active = {}
  BY DEF Init, Recovered, Active
<1> QED BY <1>1, Zenon DEF Init, Transaction!Init, Booting

(* The log implements atomic transactions: whenever the machine stops,     *)
(* recovery leaves the writes of whole groups of calls on the disk.        *)
THEOREM LogIsAtomic == Spec => AtomicCommit
<1> QED BY LogStart, LogStep, LogInvariance, RecoveredIs, PTL
        DEF Spec, AtomicCommit, Transaction!Spec

-----------------------------------------------------------------------------
(* What begin_op() reserves *)

(* p modifies a block that log_write() will add to the log. *)
Adding(p) == pc[p] = "modify" /\ ~Absorbed(buf[p])

(* The entries that p's call may still add to the log *)
Quota(p) == (IF Adding(p) THEN 1 ELSE 0) + MAXOPBLOCKS - Cardinality(wrote[p])

Reserved == {s \in Active \X (1..MAXOPBLOCKS) : s[2] <= Quota(s[1])}

(* Blocks that a call has written are in the log, except the one it is     *)
(* modifying, and the log has room for what calls may still add to it.     *)
RoomInv ==
  /\ \A p \in Procs : IsFiniteSet(wrote[p]) /\ Cardinality(wrote[p]) <= OpBlocks
  /\ \A p \in Active : pc[p] = "modify" => buf[p] \in wrote[p]
  /\ \A p \in Active : \A b \in wrote[p] : Absorbed(b) \/ (pc[p] = "modify" /\ buf[p] = b)
  /\ panic = "none"
  /\ n + Cardinality(Reserved) <= LOGSIZE

(* Calls write few enough blocks: log_write() tests the size of the log    *)
(* before it looks for the block in it, and mkfs counts the header as one  *)
(* of the nlog blocks.                                                     *)
CallsFit ==
  /\ OpBlocks < MAXOPBLOCKS
  /\ LOGSIZE + OpBlocks + 1 < nlog + MAXOPBLOCKS

(* The reserved entries are finite in number. *)
LEMMA ReservedFinite ==
  ASSUME IsFiniteSet(Active)
  PROVE  IsFiniteSet(Reserved) /\ Cardinality(Reserved) \in Nat
<1>1. IsFiniteSet(1..MAXOPBLOCKS)
  BY SizesAssumption, FS_Interval
<1>2. IsFiniteSet(Active \X (1..MAXOPBLOCKS))
  BY <1>1, FS_Product, Zenon
<1> QED BY <1>2, FS_Subset, FS_CardinalityType, Zenon DEF Reserved

(* A process with a quota of k has k entries. *)
LEMMA QuotaCounts ==
  ASSUME NEW p, NEW k \in Nat
  PROVE  Cardinality({p} \X (1..k)) = k
<1> DEFINE S == {p}
           T == 1..k
<1>1. IsFiniteSet(T) /\ Cardinality(T) = k
  BY FS_Interval
<1>2. IsFiniteSet(S) /\ Cardinality(S) = 1
  BY FS_Singleton, Zenon
<1> HIDE DEF S, T
<1>3. Cardinality(S \X T) = Cardinality(S) * Cardinality(T)
  BY <1>1, <1>2, FS_Product, Zenon
<1>4. Cardinality(S \X T) = k
  BY <1>1, <1>2, <1>3
<1> QED BY <1>4, Zenon DEF S, T

(* A quota is a number. *)
LEMMA QuotaType == ASSUME RoomInv PROVE \A p \in Procs : Quota(p) \in Int
  BY SizesAssumption, FS_CardinalityType DEF RoomInv, Quota

(* A step that starts no call and raises no quota needs no more room. *)
LEMMA QuotaShrinks ==
  ASSUME LogInv, RoomInv, Active' \subseteq Active, n' = n,
         \A p \in Active' : Quota(p)' = Quota(p) \/ Quota(p)' = Quota(p) - 1
  PROVE  n' + Cardinality(Reserved)' <= LOGSIZE
<1>1. Reserved' \subseteq Reserved
  BY QuotaType, SizesAssumption DEF Reserved, Active
<1>2. IsFiniteSet(Reserved) /\ Cardinality(Reserved) \in Nat
  BY ActiveCounted, ReservedFinite, Zenon
<1>3. Cardinality(Reserved') \in Nat /\ Cardinality(Reserved') <= Cardinality(Reserved)
  BY <1>1, <1>2, FS_Subset, FS_CardinalityType, Zenon
<1> QED BY <1>2, <1>3, SizesAssumption DEF RoomInv, LogInv, TypeOK

(* A call that writes has a positive quota, so the log is not full. *)
LEMMA RoomLeft ==
  ASSUME CallsFit, LogInv, RoomInv, Active # {}
  PROVE  n < LOGSIZE /\ n < nlog - 1
<1>1. PICK p \in Active : TRUE
  OBVIOUS
<1> DEFINE D == {p} \X (1..MAXOPBLOCKS - OpBlocks)
<1>2. Cardinality(wrote[p]) \in Nat /\ Cardinality(wrote[p]) <= OpBlocks
  BY <1>1, FS_CardinalityType, Zenon DEF RoomInv, Active
<1>3. MAXOPBLOCKS - OpBlocks <= Quota(p)
  BY <1>2, SizesAssumption DEF Quota
<1>4. D \subseteq Reserved
  <2>1. Quota(p) \in Int
    BY <1>1, QuotaType, Zenon DEF Active
  <2> QED BY <1>1, <1>3, <2>1, SizesAssumption DEF Reserved
<1>5. Cardinality(D) = MAXOPBLOCKS - OpBlocks
  <2>1. MAXOPBLOCKS - OpBlocks \in Nat
    BY SizesAssumption DEF CallsFit
  <2> QED BY <2>1, QuotaCounts, Zenon
<1>6. IsFiniteSet(Reserved) /\ Cardinality(Reserved) \in Nat
  BY ActiveCounted, ReservedFinite, Zenon
<1>7. Cardinality(D) <= Cardinality(Reserved)
  BY <1>4, <1>6, FS_Subset, Zenon
<1>8. n + (MAXOPBLOCKS - OpBlocks) <= LOGSIZE
  BY <1>5, <1>6, <1>7, SizesAssumption DEF RoomInv, LogInv, TypeOK
<1> QED BY <1>8, SizesAssumption DEF CallsFit, LogInv, TypeOK

(* Every step keeps room for what begin_op() has promised. *)
LEMMA RoomNext == CallsFit /\ LogInv /\ LogInv' /\ RoomInv /\ [Next]_vars => RoomInv'
<1> SUFFICES ASSUME CallsFit, LogInv, LogInv', RoomInv, [Next]_vars PROVE RoomInv'
  OBVIOUS
<1>0. TypeOK /\ TypeOK' /\ IsFiniteSet(Active) /\ outstanding \in Nat
  BY ActiveCounted, Zenon DEF LogInv
<1>c. \A p \in Procs : IsFiniteSet(wrote[p]) /\ Cardinality(wrote[p]) \in Nat
  BY FS_CardinalityType, Zenon DEF RoomInv
<1>d. IsFiniteSet(1..MAXOPBLOCKS) /\ Cardinality(1..MAXOPBLOCKS) = MAXOPBLOCKS
  BY SizesAssumption, FS_Interval
<1>e. n \in Nat /\ n' \in Nat
  BY <1>0 DEF TypeOK
<1>f. Active \subseteq Procs
  BY Zenon DEF Active
<1>a. \A p \in Procs : Quota(p) \in Int
  BY QuotaType, Zenon
<1>b. ASSUME UNCHANGED <<n, block>> PROVE \A b \in Blocks : Absorbed(b)' = Absorbed(b)
  BY <1>b, Zenon DEF Absorbed
<1>1. ASSUME NEW p \in Procs, begin_op(p) PROVE RoomInv'
  <2>1. Active' = Active \cup {p}
    BY <1>0, <1>1 DEF begin_op, Active, Goto, TypeOK
  <2>2. outstanding' = Cardinality(Active') /\ IsFiniteSet(Active')
    BY <1>0, <2>1, FS_AddElement, Zenon DEF LogInv, CallsInv
  <2>4. /\ IsFiniteSet(Active' \X (1..MAXOPBLOCKS))
        /\ Cardinality(Active' \X (1..MAXOPBLOCKS)) = outstanding' * MAXOPBLOCKS
    BY <1>d, <2>2, FS_Product, Zenon
  <2>5. /\ Cardinality(Reserved') <= outstanding' * MAXOPBLOCKS
        /\ Cardinality(Reserved') \in Nat
    BY <2>4, FS_Subset, FS_CardinalityType DEF Reserved
  <2>6. n' + outstanding' * MAXOPBLOCKS <= LOGSIZE
    BY <1>1, Zenon DEF begin_op, HasRoom
  <2>7. n' + Cardinality(Reserved') <= LOGSIZE
    <3>1. outstanding' * MAXOPBLOCKS \in Int
      BY <1>0, SizesAssumption DEF TypeOK
    <3> QED BY <1>e, <2>5, <2>6, <3>1, SizesAssumption
  <2>8. \A q \in Procs : IsFiniteSet(wrote'[q]) /\ Cardinality(wrote'[q]) <= OpBlocks
    BY <1>0, <1>1, FS_EmptySet, SizesAssumption DEF begin_op, RoomInv, TypeOK
  <2>9. \A q \in Active' : \A b \in wrote'[q] : Absorbed(b)' \/ (pc'[q] = "modify" /\ buf'[q] = b)
    BY <1>0, <1>1, <1>b, <2>1 DEF begin_op, RoomInv, Active, TypeOK, Goto
  <2>10. \A q \in Active' : pc'[q] = "modify" => buf'[q] \in wrote'[q]
    BY <1>0, <1>1, <2>1 DEF begin_op, RoomInv, Active, TypeOK, Goto
  <2> QED BY <1>1, <2>7, <2>8, <2>9, <2>10, Zenon DEF begin_op, RoomInv
<1>2. ASSUME UNCHANGED <<n, block, panic, wrote, buf>>,
             Active' \subseteq Active,
             \A p \in Procs : pc[p] = "modify" <=> pc'[p] = "modify"
      PROVE  RoomInv'
  <2>1. \A p \in Active' : Adding(p)' = Adding(p)
    BY <1>2, Zenon DEF Adding, Absorbed, Active
  <2>2. \A p \in Active' : Quota(p)' = Quota(p)
    BY <1>2, <2>1, Zenon DEF Quota
  <2>3. n' + Cardinality(Reserved)' <= LOGSIZE
    BY <1>2, <2>2, QuotaShrinks, Zenon
  <2> QED BY <1>0, <1>2, <1>b, <2>3 DEF RoomInv, Active, TypeOK
<1>3. ASSUME NEW p \in Procs, begin_op_sleep(p) \/ end_op(p) \/ end_op_done(p) PROVE RoomInv'
  <2>1. UNCHANGED <<n, block, wrote, buf>>
    BY <1>3, Zenon DEF begin_op_sleep, end_op, end_op_done, log
  <2>2. panic' = panic
    BY <1>3, Zenon DEF begin_op_sleep, end_op, end_op_done, LogInv, CallsInv, Up
  <2>3. \A q \in Procs : /\ pc'[q] = "modify" <=> pc[q] = "modify"
                         /\ pc'[q] = "op" => pc[q] = "op"
    <3>1. CASE begin_op_sleep(p)
      BY <1>0, <3>1, Zenon DEF begin_op_sleep, Goto, TypeOK
    <3>2. CASE end_op(p)
      <4>1. CASE outstanding' = 0
        BY <1>0, <3>2, <4>1, Zenon DEF end_op, Goto, TypeOK
      <4>2. CASE outstanding' # 0
        BY <1>0, <3>2, <4>2 DEF end_op, WakeupLog, TypeOK
      <4> QED BY <4>1, <4>2, Zenon
    <3>3. CASE end_op_done(p)
      BY <1>0, <3>3, Zenon DEF end_op_done, WakeupLog, TypeOK
    <3> QED BY <1>3, <3>1, <3>2, <3>3, Zenon
  <2>4. Active' \subseteq Active
    BY <2>3, Zenon DEF Active
  <2> QED BY <1>2, <2>1, <2>2, <2>3, <2>4, Zenon
<1>4. ASSUME NEW p \in Procs, log_write(p) PROVE RoomInv'
  <2>1. /\ p \in Active /\ Active' = Active /\ panic = "none" /\ wrote' = wrote
        /\ \A q \in Procs : q # p => pc'[q] = pc[q] /\ buf'[q] = buf[q]
        /\ pc[p] = "modify" /\ pc'[p] = "op"
    BY <1>0, <1>4 DEF log_write, Active, Up, Goto, TypeOK
  <2>2. buf[p] \in Blocks /\ buf[p] \in wrote[p] /\ \A q \in Procs : wrote[q] \subseteq Blocks
    BY <1>0, <2>1, Zenon DEF LogInv, CallsInv, RoomInv, TypeOK
  <2>3. n < LOGSIZE /\ n < nlog - 1
    BY <2>1, RoomLeft, Zenon
  <2>4. panic' = "none"
    BY <1>0, <1>4, <1>e, <2>1, <2>3, ActiveCounted, SizesAssumption DEF log_write
  <2>5. CASE Absorbed(buf[p]) /\ UNCHANGED <<n, block>>
    <3>1. \A q \in Active : Adding(q)' = Adding(q)
      BY <1>f, <2>1, <2>5 DEF Adding, Absorbed
    <3>2. \A q \in Active : Quota(q)' = Quota(q)
      BY <2>1, <3>1, Zenon DEF Quota
    <3>3. n' + Cardinality(Reserved)' <= LOGSIZE
      BY <2>1, <2>5, <3>2, QuotaShrinks, Zenon
    <3> QED BY <1>b, <1>f, <2>1, <2>2, <2>4, <2>5, <3>3 DEF RoomInv
  <2>6. CASE /\ ~Absorbed(buf[p])
             /\ n' = n + 1
             /\ block' = [block EXCEPT ![n + 1] = buf[p]]
    <3>1. \A b \in Blocks : Absorbed(b)' <=> Absorbed(b) \/ b = buf[p]
      <4>1. n + 1 \in Entries /\ \A i \in 1..n : i \in Entries
        BY <1>e, <2>3, SizesAssumption DEF Entries
      <4>2. block'[n + 1] = buf[p] /\ \A i \in 1..n : block'[i] = block[i]
        BY <1>0, <1>e, <2>6, <4>1 DEF TypeOK
      <4>3. \A i : i \in 1..n' <=> i \in 1..n \/ i = n + 1
        BY <1>e, <2>6
      <4> QED BY <4>2, <4>3, Zenon DEF Absorbed
    <3>2. Adding(p) /\ ~Adding(p)' /\ \A q \in Active : Adding(q)' => Adding(q)
      <4>1. \A q \in Active : pc[q] = "modify" => buf[q] \in Blocks
        BY <1>f, Zenon DEF LogInv, CallsInv
      <4> QED BY <1>f, <2>1, <2>6, <3>1, <4>1, Zenon DEF Adding
    <3>3. Quota(p)' = Quota(p) - 1 /\ \A q \in Active : Quota(q)' \in {Quota(q), Quota(q) - 1}
      BY <1>c, <1>f, <2>1, <3>2, SizesAssumption DEF Quota
    <3>4. 1 <= Quota(p) /\ Quota(p) <= MAXOPBLOCKS
      <4>1. Cardinality(wrote[p]) # 0 /\ Cardinality(wrote[p]) <= OpBlocks
        BY <1>c, <2>2, FS_EmptySet, Zenon DEF RoomInv
      <4> QED BY <1>c, <3>2, <4>1, SizesAssumption DEF Quota, CallsFit
    <3> DEFINE s == <<p, Quota(p)>>
    <3>5. s \in Reserved
      BY <1>a, <2>1, <3>4, SizesAssumption DEF Reserved
    <3>6. Reserved' \subseteq Reserved \ {s}
      BY <1>a, <1>f, <2>1, <3>3, SizesAssumption DEF Reserved
    <3>7. IsFiniteSet(Reserved) /\ Cardinality(Reserved) \in Nat
      BY <1>0, ReservedFinite, Zenon
    <3>8. IsFiniteSet(Reserved \ {s}) /\ Cardinality(Reserved \ {s}) = Cardinality(Reserved) - 1
      BY <3>5, <3>7, FS_RemoveElement, Zenon
    <3>9. Cardinality(Reserved') \in Nat /\ Cardinality(Reserved') <= Cardinality(Reserved) - 1
      BY <3>6, <3>8, FS_Subset, FS_CardinalityType
    <3>10. n' + Cardinality(Reserved') <= LOGSIZE
      BY <1>e, <2>6, <3>7, <3>9, SizesAssumption DEF RoomInv
    <3> QED BY <1>f, <2>1, <2>2, <2>4, <3>1, <3>10 DEF RoomInv
  <2> QED BY <1>4, <2>4, <2>5, <2>6, LogWriteCases, Zenon
<1>5. ASSUME NEW p \in Procs, NEW b \in Blocks, NEW v \in Contents, modify(p, b, v) PROVE RoomInv'
  <2>1. /\ p \in Active /\ Active' = Active /\ panic = "none" /\ pc[p] = "op"
        /\ UNCHANGED <<n, block, panic>>
    BY <1>0, <1>5 DEF modify, Active, Up, log, Goto, TypeOK
  <2>2. \A q \in Procs : q # p => wrote'[q] = wrote[q] /\ pc'[q] = pc[q] /\ buf'[q] = buf[q]
    BY <1>0, <1>5 DEF modify, Goto, TypeOK
  <2>3. wrote'[p] = wrote[p] \cup {b} /\ buf'[p] = b /\ pc'[p] = "modify"
    BY <1>0, <1>5 DEF modify, Goto, TypeOK
  <2>4. IsFiniteSet(wrote[p]) /\ Cardinality(wrote[p]) \in Nat
    BY <1>c, Zenon
  <2>5. /\ IsFiniteSet(wrote'[p])
        /\ Cardinality(wrote'[p]) = IF b \in wrote[p] THEN Cardinality(wrote[p])
                                                      ELSE Cardinality(wrote[p]) + 1
    <3>1. /\ IsFiniteSet(wrote[p] \cup {b})
          /\ Cardinality(wrote[p] \cup {b}) = IF b \in wrote[p] THEN Cardinality(wrote[p])
                                                               ELSE Cardinality(wrote[p]) + 1
      BY <2>4, FS_AddElement, Zenon
    <3> QED BY <2>3, <3>1, Zenon
  <2>6. Cardinality(wrote'[p]) <= OpBlocks
    BY <1>5, <2>3, Zenon DEF modify
  <2>7. b \in wrote[p] => Absorbed(b)
    BY <2>1, Zenon DEF RoomInv
  <2>8. ASSUME NEW q \in Active' PROVE Quota(q)' = Quota(q) \/ Quota(q)' = Quota(q) - 1
    <3>1. CASE q = p
      <4>1. ~Adding(p) /\ (Adding(p)' <=> ~Absorbed(b))
        BY <1>b, <2>1, <2>3, Zenon DEF Adding
      <4> QED BY <2>4, <2>5, <2>7, <3>1, <4>1, SizesAssumption DEF Quota
    <3>2. CASE q # p
      <4>1. Adding(q)' = Adding(q)
        BY <2>1, <2>2, <3>2, Zenon DEF Adding, Absorbed, Active
      <4> QED BY <2>2, <3>2, <4>1, Zenon DEF Quota, Active
    <3> QED BY <3>1, <3>2, Zenon
  <2>9. n' + Cardinality(Reserved)' <= LOGSIZE
    BY <2>1, <2>8, QuotaShrinks, Zenon
  <2>10. \A q \in Procs : IsFiniteSet(wrote'[q]) /\ Cardinality(wrote'[q]) <= OpBlocks
    BY <2>2, <2>5, <2>6, Zenon DEF RoomInv
  <2>11. \A q \in Active' : pc'[q] = "modify" => buf'[q] \in wrote'[q]
    BY <1>f, <2>1, <2>2, <2>3, Zenon DEF RoomInv
  <2>12. \A q \in Active' : \A c \in wrote'[q] :
           Absorbed(c)' \/ (pc'[q] = "modify" /\ buf'[q] = c)
    <3> SUFFICES ASSUME NEW q \in Active', NEW c \in wrote'[q]
                 PROVE  Absorbed(c)' \/ (pc'[q] = "modify" /\ buf'[q] = c)
      OBVIOUS
    <3>1. c \in Blocks
      BY <1>0, <1>f, <2>1, Zenon DEF TypeOK
    <3> QED BY <1>b, <1>f, <2>1, <2>2, <2>3, <3>1 DEF RoomInv
  <2> QED BY <2>1, <2>9, <2>10, <2>11, <2>12, Zenon DEF RoomInv
<1>6. ASSUME NEW b \in Blocks, recycle(b) PROVE RoomInv'
  BY <1>2, <1>6, Zenon DEF recycle, log, calls, Active
<1>7. CASE write_log \/ write_head
  BY <1>2, <1>7, Zenon DEF write_log, write_head, log, calls, Active
<1>8. ASSUME NEW r \in {0, 1}, install_trans(r) PROVE RoomInv'
  BY <1>2, <1>8, Zenon DEF install_trans, log, calls, Active
<1>9. ASSUME Active' = {}, panic' = "none",
             \A p \in Procs : wrote'[p] = wrote[p] \/ wrote'[p] = {}
      PROVE  RoomInv'
  <2>1. Reserved' = {}
    BY <1>9, Zenon DEF Reserved
  <2>2. Cardinality(Reserved') = 0
    BY <2>1, FS_EmptySet, Zenon
  <2>3. \A p \in Procs : IsFiniteSet(wrote'[p]) /\ Cardinality(wrote'[p]) <= OpBlocks
    <3> SUFFICES ASSUME NEW p \in Procs
                 PROVE  IsFiniteSet(wrote'[p]) /\ Cardinality(wrote'[p]) <= OpBlocks
      OBVIOUS
    <3>1. CASE wrote'[p] = wrote[p]
      BY <3>1, Zenon DEF RoomInv
    <3>2. CASE wrote'[p] = {}
      BY <3>2, FS_EmptySet, SizesAssumption
    <3> QED BY <1>9, <3>1, <3>2, Zenon
  <2>4. n' + Cardinality(Reserved') <= LOGSIZE
    BY <1>0, <2>2 DEF TypeOK
  <2> QED BY <1>9, <2>3, <2>4, Zenon DEF RoomInv
<1>10. ASSUME NEW s \in {"done", "none"}, clear(s), stage \in {"install", "recover"} PROVE RoomInv'
  BY <1>9, <1>10, ActiveStage, Zenon DEF clear, calls, Active, RoomInv
<1>11. CASE read_head
  BY <1>9, <1>11, ActiveStage, Zenon DEF read_head, calls, Active, RoomInv
<1>12. CASE Crash
  BY <1>9, <1>12, Zenon DEF Crash, Active
<1>13. CASE UNCHANGED vars
  BY <1>2, <1>13, Zenon DEF vars, log, calls, Active
<1> QED
  BY <1>1, <1>3, <1>4, <1>5, <1>6, <1>7, <1>8, <1>10, <1>11, <1>12, <1>13, Zenon DEF Next, commit, recover_from_log

(* As long as every call writes few enough blocks, log_write() and         *)
(* end_op() never panic.                                                   *)
THEOREM LogSuffices == CallsFit => (Spec => []NoLogPanic)
<1> SUFFICES ASSUME CallsFit PROVE Spec => []NoLogPanic
  OBVIOUS
<1>1. Init => RoomInv
  <2> SUFFICES ASSUME Init PROVE RoomInv
    OBVIOUS
  <2>1. Active = {} /\ Reserved = {}
    BY Zenon DEF Init, Active, Reserved
  <2>2. Cardinality(Reserved) = 0
    BY <2>1, FS_EmptySet, Zenon
  <2> QED BY <2>1, <2>2, FS_EmptySet, SizesAssumption DEF Init, RoomInv
<1>2. Spec => []RoomInv
  BY <1>1, RoomNext, LogInvariance, PTL DEF Spec
<1>3. RoomInv => NoLogPanic
  BY Zenon DEF RoomInv, NoLogPanic
<1> QED BY <1>2, <1>3, PTL
=============================================================================
