----------------------------- MODULE VirtioDisk -----------------------------
(***************************************************************************)
(* The disk driver of kernel/virtio_disk.c, its interrupt handler and the  *)
(* device it shares three structures with: descriptors, the ring of        *)
(* requests ("avail") and the ring of completions ("used").                *)
(*                                                                         *)
(* Granularity.  A step runs under vdisk_lock up to the next sleep() or    *)
(* barrier; the device, which takes no lock, moves between any two.  A     *)
(* ring slot that was consumed is forgotten (Nobody): a step that reads it *)
(* again has nothing to go on.                                             *)
(***************************************************************************)
EXTENDS Integers, FiniteSets

CONSTANTS
  DiskProcs, Bufs, Blocks, Values,
  NUM,      \* descriptors, and slots of each ring
  IDX,      \* bound of the model: ring indices are modulo IDX, not 2^16
  Nobody    \* no process, buffer, descriptor, request

ASSUME RingAssumption == NUM \in Nat /\ IDX \in Nat /\ NUM >= 3 /\ IDX >= NUM /\ IDX % NUM = 0
ASSUME DriverAssumption ==
  /\ IsFiniteSet(DiskProcs) /\ "intr" \notin DiskProcs /\ Nobody # "intr"
  /\ Nobody \notin DiskProcs /\ Nobody \notin Bufs /\ Nobody \notin Blocks /\ Nobody \notin 0..NUM - 1

VARIABLES
  disk,       \* struct disk; lock is vdisk_lock, free a set
  dev,        \* the device: how far it read avail, what it works on, its interrupt
  vproc,      \* of each process: its step in the driver, its request, its chain
  bdisk,      \* b->disk
  bdata,      \* b->data
  sector,     \* the contents of the disk
  diskPanic

diskVars == <<disk, dev, vproc, bdisk, bdata, sector, diskPanic>>

Ids == 0..NUM - 1
FreeDesc == [addr |-> Nobody, next |-> Nobody]
Outside == [pc |-> "out", b |-> Nobody, block |-> Nobody, write |-> 0, head |-> Nobody]

DiskInit ==
  /\ disk = [free |-> Ids, desc |-> [i \in Ids |-> FreeDesc],
             ops |-> [i \in Ids |-> Nobody], info |-> [i \in Ids |-> [b |-> Nobody, status |-> 0]],
             avail |-> [i \in Ids |-> Nobody], availIdx |-> 0,
             used |-> [i \in Ids |-> Nobody], usedIdx |-> 0, used_idx |-> 0, lock |-> Nobody]
  /\ dev = [seen |-> 0, inflight |-> {}, irq |-> FALSE]
  /\ vproc = [p \in DiskProcs |-> Outside]
  /\ bdisk = [b \in Bufs |-> 0]
  /\ sector \in [Blocks -> Values]
  /\ diskPanic = FALSE

-----------------------------------------------------------------------------
(* virtio_disk_rw(b, write) *)

(* alloc_desc() takes the lowest one. *)
Lowest(S) == CHOOSE i \in S : \A j \in S : i <= j

AtStep(p, pc) == vproc[p].pc = pc /\ disk.lock = Nobody

(* The call, with the buffer locked; write is 1 or 0. *)
virtio_disk_rw(p, b, block, write) ==
  vproc' = [vproc EXCEPT ![p] = [Outside EXCEPT !.pc = "enter", !.b = b, !.block = block, !.write = write]]

(* wakeup(&disk.free[0]), and p goes on as r *)
WakeDescWaiters(p, r) ==
  vproc' = [q \in DiskProcs |-> IF q = p THEN r
                            ELSE IF vproc[q].pc = "wdesc" THEN [vproc[q] EXCEPT !.pc = "enter"]
                            ELSE vproc[q]]

(* alloc3_desc() fails: what it took it gives back, and free_desc() wakes  *)
(* those who wait for a descriptor; then p waits itself.                   *)
alloc3_desc_fail(p) ==
  /\ AtStep(p, "enter") /\ Cardinality(disk.free) < 3
  /\ IF disk.free = {} THEN vproc' = [vproc EXCEPT ![p].pc = "wdesc"]
                       ELSE WakeDescWaiters(p, [vproc[p] EXCEPT !.pc = "wdesc"])
  /\ UNCHANGED <<disk, dev, bdisk, bdata, sector, diskPanic>>

(* The three descriptors, linked: header, buffer, and the status byte in   *)
(* the record of the first; and the ring slot.                             *)
Formatted(p, i0, i1, i2) ==
  [disk EXCEPT !.free = @ \ {i0, i1, i2}, !.lock = p,
     !.ops[i0] = [write |-> vproc[p].write, block |-> vproc[p].block],
     !.desc[i0] = [addr |-> i0, next |-> i1],
     !.desc[i1] = [addr |-> vproc[p].b, next |-> i2],
     !.desc[i2] = [addr |-> i0, next |-> Nobody],
     !.info[i0] = [b |-> vproc[p].b, status |-> 255],
     !.avail[disk.availIdx % NUM] = i0]

(* alloc3_desc() has three descriptors. *)
virtio_disk_fill(p) ==
  /\ AtStep(p, "enter") /\ Cardinality(disk.free) >= 3
  /\ LET i0 == Lowest(disk.free)
         i1 == Lowest(disk.free \ {i0})
         i2 == Lowest(disk.free \ {i0, i1})
     IN  disk' = Formatted(p, i0, i1, i2) /\ vproc' = [vproc EXCEPT ![p].pc = "publish", ![p].head = i0]
  /\ bdisk' = [bdisk EXCEPT ![vproc[p].b] = 1]
  /\ UNCHANGED <<dev, bdata, sector, diskPanic>>

(* Past the barrier: the device may look.  b->disk is 1 as long as p holds *)
(* vdisk_lock, so p sleeps.                                                *)
virtio_disk_publish(p) ==
  /\ vproc[p].pc = "publish"
  /\ disk' = [disk EXCEPT !.availIdx = (@ + 1) % IDX, !.lock = Nobody]
  /\ vproc' = [vproc EXCEPT ![p].pc = "wbuf"]
  /\ UNCHANGED <<dev, bdisk, bdata, sector, diskPanic>>

(* Awake, but b->disk is still 1: it was a kill(). *)
virtio_disk_again(p) ==
  /\ AtStep(p, "woken") /\ bdisk[vproc[p].b] = 1
  /\ vproc' = [vproc EXCEPT ![p].pc = "wbuf"]
  /\ UNCHANGED <<disk, dev, bdisk, bdata, sector, diskPanic>>

(* The descriptors free_chain() walks through *)
Chain(i) ==
  LET j == disk.desc[i].next
  IN  {i, j} \cup (IF j = Nobody THEN {} ELSE {disk.desc[j].next})

(* Mutant: nobody is told that the descriptors are free. *)
virtio_disk_done_Silent(p) ==
  /\ AtStep(p, "woken") /\ bdisk[vproc[p].b] = 0
  /\ disk' = [disk EXCEPT !.free = @ \cup Chain(vproc[p].head), !.info[vproc[p].head].b = Nobody]
  /\ vproc' = [vproc EXCEPT ![p] = Outside]
  /\ UNCHANGED <<dev, bdisk, bdata, sector, diskPanic>>

(* The request is finished: its chain is free again; free_desc() panics if *)
(* it already was.                                                         *)
virtio_disk_done(p) ==
  /\ AtStep(p, "woken") /\ bdisk[vproc[p].b] = 0
  /\ LET chain == Chain(vproc[p].head)
     IN  /\ diskPanic' = (diskPanic \/ chain \cap disk.free # {})
         /\ disk' = [disk EXCEPT !.free = @ \cup chain,
                       !.desc = [i \in Ids |-> IF i \in chain THEN FreeDesc ELSE @[i]],
                       !.info[vproc[p].head].b = Nobody, !.ops[vproc[p].head] = Nobody]
  /\ WakeDescWaiters(p, Outside)
  /\ UNCHANGED <<dev, bdisk, bdata, sector>>

(* kill() makes a sleeper RUNNABLE whatever it sleeps on. *)
kill_in_disk(p) ==
  /\ vproc[p].pc \in {"wdesc", "wbuf"}
  /\ vproc' = [vproc EXCEPT ![p].pc = IF @ = "wdesc" THEN "enter" ELSE "woken"]
  /\ UNCHANGED <<disk, dev, bdisk, bdata, sector, diskPanic>>

-----------------------------------------------------------------------------
(* The device.  It starts requests in order and completes them in any. *)

device_fetch ==
  /\ dev.seen # disk.availIdx
  /\ dev' = [dev EXCEPT !.inflight = @ \cup {disk.avail[dev.seen % NUM]}, !.seen = (@ + 1) % IDX]
  /\ disk' = [disk EXCEPT !.avail[dev.seen % NUM] = Nobody]
  /\ UNCHANGED <<vproc, bdisk, bdata, sector, diskPanic>>

(* It follows the chain: header, data, status. *)
device_complete(i) ==
  /\ i \in dev.inflight
  /\ LET data == disk.desc[disk.desc[i].next].addr
         status == disk.desc[disk.desc[disk.desc[i].next].next].addr
         op == disk.ops[i]
     IN  /\ IF op.write = 1
            THEN sector' = [sector EXCEPT ![op.block] = bdata[data]] /\ UNCHANGED bdata
            ELSE bdata' = [bdata EXCEPT ![data] = sector[op.block]] /\ UNCHANGED sector
         /\ disk' = [disk EXCEPT !.info[status].status = 0,
                       !.used[disk.usedIdx % NUM] = i, !.usedIdx = (@ + 1) % IDX]
  /\ dev' = [dev EXCEPT !.inflight = @ \ {i}, !.irq = TRUE]
  /\ UNCHANGED <<vproc, bdisk, diskPanic>>

-----------------------------------------------------------------------------
(* virtio_disk_intr() *)

(* The handler starts: the interrupt is acknowledged first. *)
virtio_disk_intr ==
  /\ dev.irq /\ disk.lock = Nobody
  /\ disk' = [disk EXCEPT !.lock = "intr"]
  /\ dev' = [dev EXCEPT !.irq = FALSE]
  /\ UNCHANGED <<vproc, bdisk, bdata, sector, diskPanic>>

(* Mutant: one completion for each interrupt. *)
virtio_disk_intr_one_If ==
  /\ disk.lock = "intr" /\ disk.used_idx # disk.usedIdx
  /\ LET b == disk.info[disk.used[disk.used_idx % NUM]].b
     IN  /\ bdisk' = [bdisk EXCEPT ![b] = 0]
         /\ vproc' = [q \in DiskProcs |-> IF vproc[q].pc = "wbuf" /\ vproc[q].b = b
                                      THEN [vproc[q] EXCEPT !.pc = "woken"] ELSE vproc[q]]
  /\ disk' = [disk EXCEPT !.used_idx = (@ + 1) % IDX, !.lock = Nobody]
  /\ UNCHANGED <<dev, bdata, sector, diskPanic>>

virtio_disk_intr_one ==
  /\ disk.lock = "intr" /\ disk.used_idx # disk.usedIdx
  /\ LET id == disk.used[disk.used_idx % NUM]
         b == disk.info[id].b
     IN  /\ diskPanic' = (diskPanic \/ disk.info[id].status # 0)
         /\ bdisk' = [bdisk EXCEPT ![b] = 0]
         /\ vproc' = [q \in DiskProcs |-> IF vproc[q].pc = "wbuf" /\ vproc[q].b = b
                                      THEN [vproc[q] EXCEPT !.pc = "woken"] ELSE vproc[q]]
  /\ disk' = [disk EXCEPT !.used[disk.used_idx % NUM] = Nobody, !.used_idx = (@ + 1) % IDX]
  /\ UNCHANGED <<dev, bdata, sector>>

virtio_disk_intr_end ==
  /\ disk.lock = "intr" /\ disk.used_idx = disk.usedIdx
  /\ disk' = [disk EXCEPT !.lock = Nobody]
  /\ UNCHANGED <<dev, vproc, bdisk, bdata, sector, diskPanic>>

DriverStep(p) ==
  \/ alloc3_desc_fail(p) \/ virtio_disk_fill(p) \/ virtio_disk_publish(p)
  \/ virtio_disk_again(p) \/ virtio_disk_done(p)
Device == device_fetch \/ \E i \in Ids : device_complete(i)
Intr == virtio_disk_intr \/ virtio_disk_intr_one \/ virtio_disk_intr_end

DiskStep == Device \/ Intr \/ \E p \in DiskProcs : DriverStep(p) \/ kill_in_disk(p)

(***************************************************************************)
(* The driver by itself: every process has a buffer of its own, into which *)
(* it reads.  Fairness.  The device completes what it was given,           *)
(* interrupts are taken, and a process that finds the descriptors it needs *)
(* or its request done time and again is not always too late for the lock. *)
(***************************************************************************)
Request(p) ==
  /\ vproc[p].pc = "out"
  /\ \E k \in Blocks : virtio_disk_rw(p, p, k, 0)
  /\ UNCHANGED <<disk, dev, bdisk, bdata, sector, diskPanic>>

DriverInit == DiskInit /\ bdata \in [Bufs -> Values]
DriverNext == DiskStep \/ \E p \in DiskProcs : Request(p)
DriverProgress(p) == virtio_disk_fill(p) \/ virtio_disk_publish(p) \/ virtio_disk_done(p)
DriverFairness ==
  /\ WF_diskVars(device_fetch) /\ WF_diskVars(Intr)
  /\ \A p \in DiskProcs :
       WF_diskVars(device_complete(vproc[p].head)) /\ SF_diskVars(DriverProgress(p))
DriverSpec == DriverInit /\ [][DriverNext]_diskVars /\ DriverFairness
-----------------------------------------------------------------------------
(* Properties *)

(* Every descriptor is free or belongs to the chain of exactly one process *)
(* that is inside virtio_disk_rw(): none leaks, none is used twice.        *)
DescriptorsOwned ==
  LET users == {p \in DiskProcs : vproc[p].head # Nobody}
  IN  /\ \A p \in users : Cardinality(Chain(vproc[p].head) \ (disk.free \cup {Nobody})) = 3
      /\ \A p, q \in users : p # q => Chain(vproc[p].head) \cap Chain(vproc[q].head) = {}
      /\ Cardinality(disk.free) + 3 * Cardinality(users) = NUM

(* Neither free_desc() nor the interrupt handler panics.                   *)
NoDiskPanic == ~diskPanic

(* A completion is never lost: while a process sleeps for its buffer, its  *)
(* request is with the device or on its way back, and in the latter case   *)
(* the handler runs or an interrupt is pending.                            *)
CompletionNotLost ==
  \A p \in DiskProcs : vproc[p].pc = "wbuf" =>
    \/ vproc[p].head \in dev.inflight
    \/ \E k \in Ids : disk.avail[k] = vproc[p].head
    \/ /\ \E k \in Ids : disk.used[k] = vproc[p].head
       /\ dev.irq \/ disk.lock = "intr"

(* Requests and descriptors are kept track of: no descriptor leaks or is   *)
(* used for two requests, neither free_desc() nor virtio_disk_intr()       *)
(* panics, and while a process sleeps for its buffer, its request is with  *)
(* the device, or an interrupt for it is pending or being handled.         *)
RequestsKept == DescriptorsOwned /\ NoDiskPanic /\ CompletionNotLost

(* Every call of virtio_disk_rw() returns, also when the descriptors run   *)
(* out and whoever fails to get three wakes the others.                    *)
RequestReturns == \A p \in DiskProcs : vproc[p].pc = "enter" ~> vproc[p].pc = "out"
=============================================================================
