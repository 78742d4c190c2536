---------------------------- MODULE StoreProofs -----------------------------
(***************************************************************************)
(* The buffer cache over the disk driver is a store of blocks, for any     *)
(* number of buffers, blocks, processes and descriptors.                   *)
(***************************************************************************)
EXTENDS CacheProofs, DiskProofs

-----------------------------------------------------------------------------
(* What the driver does to data: a request is carried out once, before its *)
(* process returns from virtio_disk_rw().                                  *)

(* p is in the driver and its request is not carried out. *)
ToDo == Queued \cup dev.inflight
Waiting(p) == vproc[p].pc # "out" /\ (Busy(p) => vproc[p].head \in ToDo)

(* A process may move, and requests be queued or started. *)
LEMMA StillWaits ==
  ASSUME ProcShape, NEW q \in DiskProcs, Waiting(q), Busy(q) => vproc[q].head \in ToDo',
         \/ vproc'[q] = vproc[q]
         \/ \E c : c # "out" /\ vproc'[q] = [vproc[q] EXCEPT !.pc = c]
  PROVE  Waiting(q)'
<1>1. "pc" \in DOMAIN vproc[q] /\ "head" \in DOMAIN vproc[q]
  BY DEF ProcShape, ProcOk, ProcFields
<1>2. vproc'[q].head = vproc[q].head /\ vproc'[q].pc # "out"
  <2>1. CASE vproc'[q] = vproc[q]
    BY <2>1, Zenon DEF Waiting
  <2>2. ASSUME NEW c, c # "out", vproc'[q] = [vproc[q] EXCEPT !.pc = c] 
        PROVE  vproc'[q].head = vproc[q].head /\ vproc'[q].pc # "out"
    BY <1>1, <2>2
  <2> QED BY <2>1, <2>2, Zenon
<1> QED BY <1>2, Zenon DEF Waiting, Busy

LEMMA WaiterOwns ==
  ASSUME DiskInv, NEW q \in DiskProcs, Busy(q), Waiting(q)
  PROVE  vproc[q].head \in Ids /\ vproc[q].head \notin Completed /\ Owns(q, vproc[q].head)
<1>1. ProcShape /\ ChainInv /\ ChainsApart /\ PlaceInv /\ RequestInv
  BY Zenon DEF DiskInv
<1>2. PICK i : i = vproc[q].head
  OBVIOUS
<1>3. i \in Pending /\ i \in Ids /\ i \notin Completed
  BY <1>1, <1>2, Zenon DEF Waiting, ToDo, Pending, PlaceInv, Queued, Entries
<1>4. PICK r \in DiskProcs : Owns(r, i)
  BY <1>1, <1>3, PendingOwned, Zenon
<1>5. r = q
  BY <1>1, <1>2, <1>4, HeadsDiffer, Zenon DEF Owns
<1> QED BY <1>2, <1>3, <1>4, <1>5, Zenon

LEMMA FillWaits ==
  ASSUME DiskInv, NEW p \in DiskProcs, virtio_disk_fill(p), NEW q \in DiskProcs, Waiting(q)
  PROVE  Waiting(q)'
<1>1. PICK h, j, k \in Ids : FillEffect(p, h, j, k)
  BY FillFacts, Zenon
<1>2. DiskInv' /\ dev' = dev /\ disk'.used = disk.used /\ FillProcs(p, h) /\ vproc[p].pc = "enter"
      /\ bdisk' = [bdisk EXCEPT ![vproc[p].b] = 1] /\ h \in disk.free
  BY <1>1, FillKeeps, Zenon DEF FillEffect
<1>3. ProcShape /\ ChainInv /\ ChainsApart /\ PlaceInv /\ RequestInv /\ DiskShape /\ RequestInv'
  BY <1>2, Zenon DEF DiskInv
<1>4. bdisk'[vproc[p].b] = 1 /\ \A b \in Bufs : bdisk[b] = 1 => bdisk'[b] = 1
  BY <1>2, <1>3, Zenon DEF DiskShape, ProcShape, ProcOk
<1>5. Completed' = Completed
  BY <1>2, Zenon DEF Completed
<1>6. ASSUME NEW i \in Ids, Owns(q, i)', i \notin Completed, vproc'[q].pc # "out" PROVE Waiting(q)'
  BY <1>3, <1>5, <1>6, Zenon DEF Waiting, RequestInv, Pending, Owns, ToDo
<1>7. CASE q = p
  <2>1. Owns(q, h)' /\ vproc'[q].pc # "out"
    BY <1>2, <1>4, <1>7 DEF FillProcs, Owns
  <2>2. h \notin Completed
    BY <1>2, <1>3, PendingOwned, Zenon DEF Pending
  <2> QED BY <1>6, <2>1, <2>2, Zenon
<1>8. CASE q # p
  <2>1. vproc'[q] = vproc[q]
    BY <1>2, <1>8, Zenon DEF FillProcs
  <2>2. CASE ~Busy(q)
    BY <2>1, <2>2, Zenon DEF Waiting, Busy
  <2>3. CASE Busy(q)
    <3>1. PICK i : i = vproc[q].head
      OBVIOUS
    <3>2. i \in Ids /\ i \notin Completed /\ Owns(q, i)
      BY <2>3, <3>1, WaiterOwns, Zenon
    <3>4. vproc[q].b \in Bufs /\ vproc[q].pc # "out"
      BY <1>3, Zenon DEF Waiting, ProcShape, ProcOk
    <3>5. Owns(q, i)'
      BY <1>4, <2>1, <3>2, <3>4, Zenon DEF Owns
    <3> QED BY <1>6, <2>1, <3>2, <3>4, <3>5, Zenon
  <2> QED BY <2>2, <2>3, Zenon
<1> QED BY <1>7, <1>8, Zenon

LEMMA FetchWaits == ASSUME DiskInv, device_fetch, NEW q \in DiskProcs, Waiting(q) PROVE Waiting(q)'
<1>1. PICK n : n = dev.seen % NUM
  OBVIOUS
<1>2. PICK x : x = disk.avail[n]
  OBVIOUS
<1>3. /\ {"seen", "inflight"} \subseteq DOMAIN dev /\ "avail" \in DOMAIN disk /\ ProcShape
      /\ DOMAIN disk.avail = Ids
  <2>1. PICK s, m \in Nat : AvailAt(s, m)
    BY Zenon DEF DiskInv, AvailInv
  <2>2. DOMAIN disk.avail = Ids
    BY <2>1, Zenon DEF AvailAt, HasEntries
  <2> QED BY <2>2 DEF DiskInv, DiskShape, DiskFields
<1>4. dev'.inflight = dev.inflight \cup {x} /\ disk'.avail = [disk.avail EXCEPT ![n] = Nobody] /\ vproc' = vproc
  BY <1>1, <1>2, <1>3 DEF device_fetch
<1>5. \A k \in Ids : k # n => disk'.avail[k] = disk.avail[k]
  BY <1>3, <1>4, Zenon
<1>6. ASSUME NEW i \in ToDo PROVE i \in ToDo'
  <2>1. CASE i \in dev.inflight
    BY <1>4, <2>1, Zenon DEF ToDo
  <2>2. ASSUME NEW k \in Ids, i \in Ids, disk.avail[k] = i PROVE i \in ToDo'
    BY <1>2, <1>4, <1>5, <2>2, Zenon DEF ToDo, Queued, Entries
  <2> QED BY <2>1, <2>2, Zenon DEF ToDo, Queued, Entries
<1> QED BY <1>3, <1>4, <1>6, StillWaits, Zenon DEF Waiting

(* A step that carries no request out leaves the data alone, and whoever   *)
(* waits goes on waiting.                                                  *)
LEMMA StepWaits ==
  ASSUME DiskInv, DiskStep, \A i \in Ids : ~device_complete(i)
  PROVE  UNCHANGED <<bdata, sector>> /\ \A q \in DiskProcs : Waiting(q) => Waiting(q)'
<1>1. DiskFields \subseteq DOMAIN disk /\ {"seen", "inflight", "irq"} \subseteq DOMAIN dev
      /\ ProcShape /\ RequestInv
  BY Zenon DEF DiskInv, DiskShape
<1>2. ASSUME disk'.avail = disk.avail, dev'.inflight = dev.inflight PROVE ToDo' = ToDo
  BY <1>2, Zenon DEF ToDo, Queued
<1>3. CASE device_fetch
  BY <1>3, FetchWaits, Zenon DEF device_fetch
<1>4. CASE Intr
  <2>1. UNCHANGED <<bdata, sector>> /\ (dev' = dev \/ dev' = [dev EXCEPT !.irq = FALSE])
    <3>1. CASE virtio_disk_intr
      BY <3>1, Zenon DEF virtio_disk_intr
    <3>2. CASE virtio_disk_intr_one
      BY <3>2, Zenon DEF virtio_disk_intr_one
    <3>3. CASE virtio_disk_intr_end
      BY <3>3, Zenon DEF virtio_disk_intr_end
    <3> QED BY <1>4, <3>1, <3>2, <3>3, Zenon DEF Intr
  <2>2. dev'.inflight = dev.inflight
    BY <1>1, <2>1
  <2>3. disk'.avail = disk.avail
    <3>1. CASE virtio_disk_intr
      BY <1>1, <3>1 DEF virtio_disk_intr, DiskFields
    <3>2. CASE virtio_disk_intr_one
      BY <1>1, <3>2 DEF virtio_disk_intr_one, DiskFields
    <3>3. CASE virtio_disk_intr_end
      BY <1>1, <3>3 DEF virtio_disk_intr_end, DiskFields
    <3> QED BY <1>4, <3>1, <3>2, <3>3, Zenon DEF Intr
  <2>4. \A q \in DiskProcs : vproc'[q] = vproc[q] \/ vproc'[q] = [vproc[q] EXCEPT !.pc = "woken"]
    BY <1>4, Zenon DEF Intr, virtio_disk_intr, virtio_disk_intr_one, virtio_disk_intr_end
  <2> QED BY <1>1, <1>2, <2>1, <2>2, <2>3, <2>4, StillWaits, Zenon DEF Waiting
<1>5. ASSUME NEW p \in DiskProcs, alloc3_desc_fail(p) \/ virtio_disk_again(p) \/ kill_in_disk(p)
      PROVE  UNCHANGED <<bdata, sector>> /\ \A q \in DiskProcs : Waiting(q) => Waiting(q)'
  <2>1. UNCHANGED <<disk, dev, bdata, sector>>
    BY <1>5, Zenon DEF alloc3_desc_fail, virtio_disk_again, kill_in_disk
  <2>2. \A q \in DiskProcs : Waiting(q) => vproc'[q].head = vproc[q].head /\ vproc'[q].pc # "out"
    BY <1>5, MoveFacts, Zenon DEF MoveEffect, SameRequest, Waiting
  <2>3. ToDo' = ToDo
    BY <1>2, <2>1, Zenon
  <2> QED BY <2>1, <2>2, <2>3, Zenon DEF Waiting, Busy
<1>6. ASSUME NEW p \in DiskProcs, virtio_disk_fill(p)
      PROVE  UNCHANGED <<bdata, sector>> /\ \A q \in DiskProcs : Waiting(q) => Waiting(q)'
  BY <1>6, FillWaits, Zenon DEF virtio_disk_fill
<1>7. ASSUME NEW p \in DiskProcs, virtio_disk_publish(p)
      PROVE  UNCHANGED <<bdata, sector>> /\ \A q \in DiskProcs : Waiting(q) => Waiting(q)'
  <2>1. disk'.avail = disk.avail
    BY <1>1, <1>7 DEF virtio_disk_publish, DiskFields
  <2>2. UNCHANGED <<dev, bdata, sector>> /\ vproc' = [vproc EXCEPT ![p].pc = "wbuf"]
    BY <1>7, Zenon DEF virtio_disk_publish
  <2>3. \A q \in DiskProcs : vproc'[q] = vproc[q] \/ vproc'[q] = [vproc[q] EXCEPT !.pc = "wbuf"]
    BY <1>1, <2>2, Zenon DEF ProcShape
  <2> QED BY <1>1, <1>2, <2>1, <2>2, <2>3, StillWaits, Zenon DEF Waiting
<1>8. ASSUME NEW p \in DiskProcs, virtio_disk_done(p)
      PROVE  UNCHANGED <<bdata, sector>> /\ \A q \in DiskProcs : Waiting(q) => Waiting(q)'
  <2>1. disk'.avail = disk.avail
    BY <1>1, <1>8 DEF virtio_disk_done, DiskFields
  <2>2. UNCHANGED <<dev, bdata, sector>> /\ vproc[p].pc = "woken" /\ bdisk[vproc[p].b] = 0
    BY <1>8, Zenon DEF virtio_disk_done, AtStep
  <2>3. \A q \in DiskProcs : q # p => vproc'[q] = vproc[q] \/ vproc'[q] = [vproc[q] EXCEPT !.pc = "enter"]
    BY <1>8, Zenon DEF virtio_disk_done, WakeDescWaiters
  <2>4. ~Waiting(p)
    <3>1. Busy(p)
      BY <1>1, <2>2, DriverAssumption, Zenon DEF ProcShape, ProcOk, Busy, Ids
    <3> QED BY <2>2, <3>1, WaiterOwns DEF Owns
  <2> QED BY <1>1, <1>2, <2>1, <2>2, <2>3, <2>4, StillWaits, Zenon DEF Waiting
<1> QED BY <1>3, <1>4, <1>5, <1>6, <1>7, <1>8, Zenon DEF DiskStep, DriverStep, Device

(* The device carries one request out, and all others go on waiting. *)
CarriesOut(q) ==
  /\ vproc' = vproc /\ vproc[q].pc # "out"
  /\ IF vproc[q].write = 1
     THEN sector' = [sector EXCEPT ![vproc[q].block] = bdata[vproc[q].b]] /\ bdata' = bdata
     ELSE bdata' = [bdata EXCEPT ![vproc[q].b] = sector[vproc[q].block]] /\ sector' = sector
  /\ \A r \in DiskProcs : r # q /\ Waiting(r) => Waiting(r)'

LEMMA CompleteCarriesOut ==
  ASSUME DiskInv, NEW i \in Ids, device_complete(i) PROVE \E q \in DiskProcs : CarriesOut(q)
<1>1. i \in dev.inflight /\ i \in Pending /\ vproc' = vproc
  BY Zenon DEF device_complete, Pending
<1>2. PICK q \in DiskProcs :
        /\ Owns(q, i) /\ Busy(q) /\ vproc[q].pc # "out"
        /\ disk.desc[disk.desc[i].next].addr = vproc[q].b
        /\ disk.ops[i] = [write |-> vproc[q].write, block |-> vproc[q].block]
  BY <1>1, DeviceFollows, Zenon
<1>3. disk.ops[i].write = vproc[q].write /\ disk.ops[i].block = vproc[q].block
  BY <1>2
<1>4. IF vproc[q].write = 1
      THEN sector' = [sector EXCEPT ![vproc[q].block] = bdata[vproc[q].b]] /\ bdata' = bdata
      ELSE bdata' = [bdata EXCEPT ![vproc[q].b] = sector[vproc[q].block]] /\ sector' = sector
  BY <1>2, <1>3, Zenon DEF device_complete
<1>5. /\ DiskFields \subseteq DOMAIN disk /\ {"seen", "inflight", "irq"} \subseteq DOMAIN dev
      /\ ChainsApart /\ ProcShape
  BY Zenon DEF DiskInv, DiskShape
<1>6. disk'.avail = disk.avail /\ dev'.inflight = dev.inflight \ {i}
  <2>1. PICK j \in {disk.desc[disk.desc[disk.desc[i].next].next].addr} :
          disk' = [disk EXCEPT !.info[j].status = 0,
                     !.used[disk.usedIdx % NUM] = i, !.usedIdx = (@ + 1) % IDX]
    BY Zenon DEF device_complete
  <2>2. disk'.avail = disk.avail
    <3>1. "avail" \in DOMAIN disk
      BY <1>5 DEF DiskFields
    <3> QED BY <2>1, <3>1
  <2>3. dev'.inflight = dev.inflight \ {i}
    <3>1. dev' = [dev EXCEPT !.inflight = @ \ {i}, !.irq = TRUE]
      BY Zenon DEF device_complete
    <3>2. "inflight" \in DOMAIN dev
      BY <1>5
    <3> QED BY <3>1, <3>2
  <2> QED BY <2>2, <2>3, Zenon
<1>7. ASSUME NEW r \in DiskProcs, r # q, Waiting(r) PROVE Waiting(r)'
  <2>1. Busy(r) => vproc[r].head # i
    BY <1>2, <1>5, <1>7, HeadsDiffer, Zenon DEF Owns
  <2>2. \A j : j \in ToDo /\ j # i => j \in ToDo'
    BY <1>6, Zenon DEF ToDo, Queued
  <2> QED BY <1>1, <1>5, <1>7, <2>1, <2>2, StillWaits, Zenon DEF Waiting
<1> QED BY <1>1, <1>2, <1>4, <1>7, Zenon DEF CarriesOut

-----------------------------------------------------------------------------
(* The invariant of the cache with the driver *)

DataType == bdata \in [Bufs -> Values] /\ sector \in [Blocks -> Values]

(* b has what the disk has. *)
Same(b) == bdata[b] = sector[buf[b].blockno]

(* A process is in the driver only to fill or to write its buffer; *)
InDriver(q) ==
  vproc[q].pc # "out" =>
    /\ user[q].pc \in {"fill", "write"} /\ vproc[q].b = user[q].b
    /\ vproc[q].block = buf[user[q].b].blockno
    /\ vproc[q].write = IF user[q].pc = "write" THEN 1 ELSE 0

(* the buffer is valid from the end of the fill on; *)
Filled(q) ==
  /\ user[q].pc = "fill" => buf[user[q].b].valid # 1
  /\ user[q].pc \in {"held", "write"} => buf[user[q].b].valid = 1

(* once the request is carried out, buffer and disk agree, *)
Carried(q) == user[q].pc \in {"fill", "write"} => Waiting(q) \/ Same(user[q].b)

(* and they do so until the buffer is changed, and pinned or written. *)
Writing(c) == \E q \in DiskProcs : user[q].pc = "write" /\ user[q].b = c
Clean(c) ==
  buf[c].valid = 1 /\ buf[c].blockno \in Blocks /\ buf[c].blockno \notin pinned /\ ~Writing(c) => Same(c)

UsersSound == \A q \in DiskProcs : InDriver(q) /\ Filled(q) /\ Carried(q)
AllClean == \A c \in Bufs : Clean(c)
StoreInv == DiskInv /\ CacheInv /\ DataType /\ UsersSound /\ AllClean

-----------------------------------------------------------------------------
(* What a block reads as and who has it *)

Copy(c, k) == buf[c].blockno = k /\ buf[c].valid = 1
Copies(k) == {b \in Cached(k) : buf[b].valid = 1}
Holds(q, k) == user[q].pc \in {"held", "write"} /\ buf[user[q].b].blockno = k

Some(S) == CHOOSE x \in S : TRUE

LEMMA SomeIn == \A S : S # {} => Some(S) \in S
  BY Zenon DEF Some

LEMMA ContentExpands ==
  ASSUME NEW k
  PROVE  /\ Content(k) = IF Copies(k) = {} THEN sector[k] ELSE bdata[Some(Copies(k))]
         /\ HolderOf(k) = IF Holders(k) = {} THEN Nobody ELSE Some(Holders(k))
         /\ Content(k)' = IF Copies(k)' = {} THEN sector'[k] ELSE bdata'[Some(Copies(k)')]
         /\ HolderOf(k)' = IF Holders(k)' = {} THEN Nobody ELSE Some(Holders(k)')
  BY Zenon DEF Content, HolderOf, Copies, Some

LEMMA ContentSame ==
  ASSUME NEW k, \A c \in Bufs : Copy(c, k)' <=> Copy(c, k),
         \A c \in Bufs : Copy(c, k) => bdata'[c] = bdata[c],
         (\E c \in Bufs : Copy(c, k)) \/ sector'[k] = sector[k]
  PROVE  Content(k)' = Content(k)
<1>1. Copies(k)' = Copies(k) /\ \A c : c \in Copies(k) <=> c \in Bufs /\ Copy(c, k)
  BY Zenon DEF Copies, Cached, Copy
<1> QED BY <1>1, SomeIn, ContentExpands, Zenon

LEMMA HolderSame ==
  ASSUME NEW k, \A q \in DiskProcs : Holds(q, k)' <=> Holds(q, k) PROVE HolderOf(k)' = HolderOf(k)
<1>1. Holders(k)' = Holders(k)
  BY Zenon DEF Holders, Holds
<1> QED BY <1>1, ContentExpands, Zenon

(* A block that has a valid copy reads as the copy, any other as the disk. *)
ContentOK ==
  \A k \in Blocks : /\ \A c \in Bufs : Copy(c, k) => Content(k) = bdata[c]
                    /\ (\A c \in Bufs : ~Copy(c, k)) => Content(k) = sector[k]

(* Its holder is the one process that has it between bread() and brelse(). *)
HolderOK ==
  \A k \in Blocks : /\ \A q \in DiskProcs : Holds(q, k) => HolderOf(k) = q
                    /\ (\A q \in DiskProcs : ~Holds(q, k)) => HolderOf(k) = Nobody

LEMMA ContentIs == CacheInv => ContentOK /\ HolderOK
<1> SUFFICES ASSUME CacheInv, NEW k \in Blocks
             PROVE  /\ \A c \in Bufs : Copy(c, k) => Content(k) = bdata[c]
                    /\ (\A c \in Bufs : ~Copy(c, k)) => Content(k) = sector[k]
                    /\ \A q \in DiskProcs : Holds(q, k) => HolderOf(k) = q
                    /\ (\A q \in DiskProcs : ~Holds(q, k)) => HolderOf(k) = Nobody
  BY Zenon DEF ContentOK, HolderOK
<1>1. BlockInv /\ HoldInv /\ UserType
  BY Zenon DEF CacheInv
<1>2. ASSUME NEW c \in Bufs, Copy(c, k) PROVE Content(k) = bdata[c]
  <2>1. Copies(k) = {c}
    BY <1>1, <1>2, Zenon DEF BlockInv, Copies, Cached, Copy
  <2> QED BY <2>1, SomeIn, ContentExpands, Zenon
<1>3. ASSUME \A c \in Bufs : ~Copy(c, k) PROVE Content(k) = sector[k]
  <2>1. Copies(k) = {}
    BY <1>3, Zenon DEF Copies, Cached, Copy
  <2> QED BY <2>1, ContentExpands, Zenon
<1>4. ASSUME NEW q \in DiskProcs, Holds(q, k) PROVE HolderOf(k) = q
  <2>1. ASSUME NEW r \in DiskProcs, Holds(r, k) PROVE r = q
    <3>1. /\ user[r].b \in Bufs /\ buf[user[r].b].lock = r /\ buf[user[r].b].blockno = k
          /\ user[q].b \in Bufs /\ buf[user[q].b].lock = q /\ buf[user[q].b].blockno = k
      BY <1>1, <1>4, <2>1, Zenon DEF Holds, UserType, HoldInv
    <3> QED BY <1>1, <3>1, Zenon DEF BlockInv
  <2>2. Holders(k) = {q}
    BY <1>4, <2>1, Zenon DEF Holders, Holds
  <2> QED BY <2>2, SomeIn, ContentExpands, Zenon
<1>5. ASSUME \A q \in DiskProcs : ~Holds(q, k) PROVE HolderOf(k) = Nobody
  <2>1. Holders(k) = {}
    BY <1>5, Zenon DEF Holders, Holds
  <2> QED BY <2>1, ContentExpands, Zenon
<1> QED BY <1>2, <1>3, <1>4, <1>5, Zenon

LEMMA ContentIsNext == CacheInv' => ContentOK' /\ HolderOK'
  BY ContentIs, PTL

(* The steps of the store, and none *)
ContentKept == \A k \in Blocks : Content(k)' = Content(k)
HoldersKept == \A k \in Blocks : HolderOf(k)' = HolderOf(k)

Stutters == ContentKept /\ HoldersKept
Takes(p, k) ==
  /\ ContentKept /\ HolderOf(k) = Nobody /\ HolderOf(k)' = p
  /\ \A h \in Blocks : h # k => HolderOf(h)' = HolderOf(h)
Writes(p, k) ==
  /\ HoldersKept /\ HolderOf(k) = p /\ Content(k)' \in Values
  /\ \A h \in Blocks : h # k => Content(h)' = Content(h)
GivesBack(p, k) ==
  /\ ContentKept /\ HolderOf(k) = p /\ HolderOf(k)' = Nobody
  /\ \A h \in Blocks : h # k => HolderOf(h)' = HolderOf(h)

StoreStep == Stutters \/ \E p \in DiskProcs, k \in Blocks : Takes(p, k) \/ Writes(p, k) \/ GivesBack(p, k)

LEMMA StoreSteps ==
  ASSUME StoreStep
  PROVE  Store!Next \/ UNCHANGED <<[k \in Blocks |-> Content(k)], [k \in Blocks |-> HolderOf(k)]>>
<1>1. ContentKept => [k \in Blocks |-> Content(k)]' = [k \in Blocks |-> Content(k)]
  BY Zenon DEF ContentKept
<1>2. HoldersKept => [k \in Blocks |-> HolderOf(k)]' = [k \in Blocks |-> HolderOf(k)]
  BY Zenon DEF HoldersKept
<1>3. CASE Stutters
  BY <1>1, <1>2, <1>3, Zenon DEF Stutters
<1>4. ASSUME NEW p \in DiskProcs, NEW k \in Blocks, Takes(p, k) PROVE Store!Next
  <2>1. [h \in Blocks |-> HolderOf(h)]' = [[h \in Blocks |-> HolderOf(h)] EXCEPT ![k] = p]
    BY <1>4, Zenon DEF Takes
  <2>2. Store!Hold(p, k)
    BY <1>1, <1>4, <2>1, Zenon DEF Store!Hold, Takes
  <2> QED BY <2>2, Zenon DEF Store!Next
<1>5. ASSUME NEW p \in DiskProcs, NEW k \in Blocks, Writes(p, k) PROVE Store!Next
  <2>1. [h \in Blocks |-> Content(h)]' = [[h \in Blocks |-> Content(h)] EXCEPT ![k] = Content(k)']
    BY <1>5, Zenon DEF Writes
  <2>2. Store!Write(p, k)
    BY <1>2, <1>5, <2>1, Zenon DEF Store!Write, Writes
  <2> QED BY <2>2, Zenon DEF Store!Next
<1>6. ASSUME NEW p \in DiskProcs, NEW k \in Blocks, GivesBack(p, k) PROVE Store!Next
  <2>1. [h \in Blocks |-> HolderOf(h)]' = [[h \in Blocks |-> HolderOf(h)] EXCEPT ![k] = Nobody]
    BY <1>6, Zenon DEF GivesBack
  <2>2. Store!Release(p, k)
    BY <1>1, <1>6, <2>1, Zenon DEF Store!Release, GivesBack
  <2> QED BY <2>2, Zenon DEF Store!Next
<1> QED BY <1>3, <1>4, <1>5, <1>6, Zenon DEF StoreStep

-----------------------------------------------------------------------------
(* A step of the driver: the fill and the write-back of a buffer do not    *)
(* change what its block reads as.                                         *)

LEMMA DiskStepStores ==
  ASSUME StoreInv, DiskStep, UNCHANGED cacheVars, CacheInv'
  PROVE  StoreInv' /\ Stutters
<1>1. UNCHANGED <<buf, user, pinned>> /\ DiskInv /\ DiskInv' /\ BlockInv /\ UserType /\ DataType
  BY DiskStepKeeps, Zenon DEF cacheVars, StoreInv, CacheInv
<1>2. \A q \in DiskProcs : InDriver(q)' /\ Filled(q)'
  BY <1>1, StepKeepsRequest, Zenon DEF StoreInv, UsersSound, InDriver, Filled
<1>3. HoldersKept
  BY <1>1, HolderSame, Zenon DEF HoldersKept, Holds
<1>4. \A c \in Bufs, k \in Blocks : Copy(c, k)' <=> Copy(c, k)
  BY <1>1, Zenon DEF Copy
<1>5. CASE \A i \in Ids : ~device_complete(i)
  <2>1. UNCHANGED <<bdata, sector>> /\ \A q \in DiskProcs : Waiting(q) => Waiting(q)'
    BY <1>1, <1>5, StepWaits, Zenon
  <2>2. \A c \in Bufs : Same(c)' <=> Same(c)
    BY <1>1, <2>1, Zenon DEF Same
  <2>3. \A q \in DiskProcs : Carried(q)'
    BY <1>1, <2>1, <2>2, Zenon DEF StoreInv, UsersSound, Carried, UserType
  <2>4. AllClean' /\ DataType'
    BY <1>1, <2>1, <2>2, Zenon DEF StoreInv, AllClean, Clean, Writing, DataType
  <2>5. ContentKept
    BY <1>4, <2>1, ContentSame, Zenon DEF ContentKept
  <2> QED BY <1>1, <1>2, <1>3, <2>3, <2>4, <2>5, Zenon DEF StoreInv, UsersSound, Stutters
<1>6. ASSUME NEW i \in Ids, device_complete(i) PROVE StoreInv' /\ Stutters
  <2>1. PICK q \in DiskProcs : CarriesOut(q)
    BY <1>1, <1>6, CompleteCarriesOut, Zenon
  <2>2. PICK b, k : b = vproc[q].b /\ k = vproc[q].block
    OBVIOUS
  <2>3. /\ b \in Bufs /\ k \in Blocks /\ buf[b].blockno = k /\ b = user[q].b
        /\ vproc[q].write = 1 => buf[b].valid = 1
        /\ vproc[q].write # 1 => buf[b].valid # 1
    BY <1>1, <2>1, <2>2 DEF StoreInv, UsersSound, InDriver, Filled, UserType, BlockInv, CarriesOut
  <2>4. /\ Same(b)'
        /\ \A c \in Bufs : c # b => bdata'[c] = bdata[c]
        /\ \A h \in Blocks : h # k => sector'[h] = sector[h]
        /\ buf[b].valid = 1 => bdata'[b] = bdata[b]
        /\ buf[b].valid # 1 => sector'[k] = sector[k]
        /\ DataType'
    <3>1. CASE vproc[q].write = 1
      BY <1>1, <2>1, <2>2, <2>3, <3>1, Zenon DEF CarriesOut, Same, DataType
    <3>2. CASE vproc[q].write # 1
      BY <1>1, <2>1, <2>2, <2>3, <3>2, Zenon DEF CarriesOut, Same, DataType
    <3> QED BY <3>1, <3>2, Zenon
  <2>5. ASSUME NEW c \in Bufs, buf[c].blockno \in Blocks, Same(c) PROVE Same(c)'
    <3>1. CASE c = b
      BY <2>4, <3>1, Zenon
    <3>2. CASE c # b
      <4>1. buf[c].blockno # k
        BY <1>1, <2>3, <2>5, <3>2, Zenon DEF BlockInv
      <4> QED BY <1>1, <2>4, <2>5, <3>2, <4>1, Zenon DEF Same
    <3> QED BY <3>1, <3>2, Zenon
  <2>6. AllClean'
    BY <1>1, <2>5, Zenon DEF StoreInv, AllClean, Clean, Writing
  <2>7. ASSUME NEW r \in DiskProcs PROVE Carried(r)'
    <3>1. CASE r = q
      BY <1>1, <2>3, <2>4, <3>1, Zenon DEF Carried
    <3>2. CASE r # q
      <4>1. Waiting(r) => Waiting(r)'
        BY <2>1, <3>2, Zenon DEF CarriesOut
      <4>2. ASSUME user[r].pc \in {"fill", "write"} PROVE user[r].b \in Bufs /\ buf[user[r].b].blockno \in Blocks
        BY <1>1, <4>2 DEF UserType, BlockInv
      <4> QED BY <1>1, <2>5, <4>1, <4>2, Zenon DEF Carried, StoreInv, UsersSound
    <3> QED BY <3>1, <3>2, Zenon
  <2>8. ContentKept
    <3>1. ASSUME NEW h \in Blocks PROVE Content(h)' = Content(h)
      <4>1. \A c \in Bufs : Copy(c, h) => bdata'[c] = bdata[c]
        BY <2>4, Zenon DEF Copy
      <4>2. (\E c \in Bufs : Copy(c, h)) \/ sector'[h] = sector[h]
        BY <2>3, <2>4, Zenon DEF Copy
      <4> QED BY <1>4, <4>1, <4>2, ContentSame, Zenon
    <3> QED BY <3>1, Zenon DEF ContentKept
  <2> QED BY <1>1, <1>2, <1>3, <2>4, <2>6, <2>7, <2>8, Zenon DEF StoreInv, UsersSound, Stutters
<1> QED BY <1>5, <1>6, Zenon

-----------------------------------------------------------------------------
(* A step of the cache by p *)

SameBlock(c) == buf'[c].blockno = buf[c].blockno /\ buf'[c].valid = buf[c].valid
KeepsData(c) == SameBlock(c) /\ bdata'[c] = bdata[c]

LEMMA BlockChanged ==
  ASSUME BufferType, NEW b \in Bufs
  PROVE  /\ \A r : buf' = [buf EXCEPT ![b].refcnt = r] => \A c \in Bufs : SameBlock(c)
         /\ \A l : buf' = [buf EXCEPT ![b].lock = l] => \A c \in Bufs : SameBlock(c)
         /\ \A v : buf' = [buf EXCEPT ![b].valid = v]
              => /\ buf'[b].blockno = buf[b].blockno /\ buf'[b].valid = v
                 /\ \A c \in Bufs : c # b => SameBlock(c)
         /\ \A k, v : buf' = [buf EXCEPT ![b].blockno = k, ![b].valid = v, ![b].refcnt = 1]
              => buf'[b].blockno = k /\ buf'[b].valid = v /\ \A c \in Bufs : c # b => SameBlock(c)
<1>1. ASSUME NEW r, buf' = [buf EXCEPT ![b].refcnt = r], NEW c \in Bufs PROVE SameBlock(c)
  BY <1>1, Zenon DEF SameBlock, BufferType
<1>2. ASSUME NEW l, buf' = [buf EXCEPT ![b].lock = l], NEW c \in Bufs PROVE SameBlock(c)
  BY <1>2, Zenon DEF SameBlock, BufferType
<1>3. ASSUME NEW v, buf' = [buf EXCEPT ![b].valid = v]
      PROVE  /\ buf'[b].blockno = buf[b].blockno /\ buf'[b].valid = v
             /\ \A c \in Bufs : c # b => SameBlock(c)
  BY <1>3, Zenon DEF SameBlock, BufferType
<1>4. ASSUME NEW k, NEW v, buf' = [buf EXCEPT ![b].blockno = k, ![b].valid = v, ![b].refcnt = 1]
      PROVE  buf'[b].blockno = k /\ buf'[b].valid = v /\ \A c \in Bufs : c # b => SameBlock(c)
  BY <1>4, Zenon DEF SameBlock, BufferType
<1> QED BY <1>1, <1>2, <1>3, <1>4, Zenon

(* What it leaves of the other processes and of the disk *)
OthersKept(p) ==
  /\ UNCHANGED <<disk, dev, sector>>
  /\ \A q \in DiskProcs : q # p => user'[q] = user[q] /\ vproc'[q] = vproc[q]
  /\ \A q \in DiskProcs : q # p /\ user[q].pc \in {"fill", "held", "write"} => KeepsData(user[q].b)
OthersHold(p) == \A q \in DiskProcs, k \in Blocks : q # p => (Holds(q, k)' <=> Holds(q, k))

LEMMA OthersSound ==
  ASSUME StoreInv, NEW p \in DiskProcs, OthersKept(p)
  PROVE  OthersHold(p) /\ \A q \in DiskProcs : q # p => InDriver(q)' /\ Filled(q)' /\ Carried(q)'
<1>1. OthersHold(p)
  BY Zenon DEF OthersHold, OthersKept, Holds, KeepsData, SameBlock
<1>2. ASSUME NEW q \in DiskProcs, q # p PROVE InDriver(q)' /\ Filled(q)' /\ Carried(q)'
  <2>1. InDriver(q) /\ Filled(q) /\ Carried(q)
    BY Zenon DEF StoreInv, UsersSound
  <2>2. user'[q] = user[q] /\ vproc'[q] = vproc[q] /\ UNCHANGED <<disk, dev, sector>>
    BY <1>2, Zenon DEF OthersKept
  <2>3. user[q].pc \in {"fill", "held", "write"} => KeepsData(user[q].b)
    BY <1>2, Zenon DEF OthersKept
  <2>4. InDriver(q)' /\ Filled(q)'
    BY <2>1, <2>2, <2>3, Zenon DEF InDriver, Filled, KeepsData, SameBlock
  <2>5. Waiting(q) => Waiting(q)'
    BY <2>2, Zenon DEF Waiting, Busy, ToDo, Queued
  <2>6. user[q].pc \in {"fill", "write"} /\ Same(user[q].b) => Same(user[q].b)'
    BY <2>2, <2>3, Zenon DEF Same, KeepsData, SameBlock
  <2> QED BY <2>1, <2>2, <2>4, <2>5, <2>6, Zenon DEF Carried
<1> QED BY <1>1, <1>2, Zenon

(* Whoever takes or has the lock of a buffer is alone with it. *)
LEMMA LockedAlone ==
  ASSUME CacheInv, NEW p \in DiskProcs, NEW b \in Bufs, buf[b].lock \in {p, Nobody},
         NEW q \in DiskProcs, q # p, user[q].pc \in {"fill", "held", "write"}
  PROVE  user[q].b \in Bufs /\ user[q].b # b
<1>1. user[q].b \in Bufs /\ buf[user[q].b].lock = q
  BY Zenon DEF CacheInv, UserType, HoldInv
<1> QED BY <1>1, DriverAssumption, Zenon

LEMMA CleanSame ==
  ASSUME StoreInv, sector' = sector, NEW c \in Bufs, KeepsData(c), NEW p \in DiskProcs,
         \A q \in DiskProcs : q # p => user'[q] = user[q], user[p].pc # "write" \/ user[p].b # c,
         buf[c].blockno \in pinned => buf[c].blockno \in pinned'
  PROVE  Clean(c)'
<1>1. Writing(c) => Writing(c)'
  BY Zenon DEF Writing
<1>2. Clean(c)
  BY Zenon DEF StoreInv, AllClean
<1> QED BY <1>1, <1>2, Zenon DEF Clean, KeepsData, SameBlock, Same

LEMMA ContentStays ==
  ASSUME sector' = sector, \A c \in Bufs : KeepsData(c) PROVE ContentKept
<1>1. \A c \in Bufs, k \in Blocks : (Copy(c, k)' <=> Copy(c, k)) /\ bdata'[c] = bdata[c]
  BY Zenon DEF Copy, KeepsData, SameBlock
<1> QED BY <1>1, ContentSame, Zenon DEF ContentKept

(* Holders *)
LEMMA HoldersStay ==
  ASSUME NEW p \in DiskProcs, OthersHold(p), \A k \in Blocks : Holds(p, k)' <=> Holds(p, k)
  PROVE  HoldersKept
<1>1. \A k \in Blocks : \A q \in DiskProcs : Holds(q, k)' <=> Holds(q, k)
  BY Zenon DEF OthersHold
<1> QED BY <1>1, HolderSame, Zenon DEF HoldersKept

LEMMA HolderComes ==
  ASSUME CacheInv, CacheInv', NEW p \in DiskProcs, OthersHold(p), NEW k \in Blocks,
         \A h \in Blocks : ~Holds(p, h) /\ (Holds(p, h)' <=> h = k), \A q \in DiskProcs : ~Holds(q, k)
  PROVE  /\ HolderOf(k) = Nobody /\ HolderOf(k)' = p
         /\ \A h \in Blocks : h # k => HolderOf(h)' = HolderOf(h)
<1>1. HolderOf(k) = Nobody /\ HolderOf(k)' = p
  BY ContentIs, ContentIsNext, Zenon DEF HolderOK
<1>2. \A h \in Blocks : h # k => \A q \in DiskProcs : Holds(q, h)' <=> Holds(q, h)
  BY Zenon DEF OthersHold
<1> QED BY <1>1, <1>2, HolderSame, Zenon

LEMMA HolderGoes ==
  ASSUME CacheInv, CacheInv', NEW p \in DiskProcs, OthersHold(p), NEW k \in Blocks,
         \A h \in Blocks : ~Holds(p, h)' /\ (Holds(p, h) <=> h = k)
  PROVE  /\ HolderOf(k) = p /\ HolderOf(k)' = Nobody
         /\ \A h \in Blocks : h # k => HolderOf(h)' = HolderOf(h)
<1>1. HolderOf(k) = p
  BY ContentIs, Zenon DEF HolderOK
<1>2. \A q \in DiskProcs : q # p => ~Holds(q, k)
  BY <1>1, ContentIs, Zenon DEF HolderOK
<1>3. \A q \in DiskProcs : ~Holds(q, k)'
  BY <1>2, Zenon DEF OthersHold
<1>4. HolderOf(k)' = Nobody
  BY <1>3, ContentIsNext, Zenon DEF HolderOK
<1>5. \A h \in Blocks : h # k => \A q \in DiskProcs : Holds(q, h)' <=> Holds(q, h)
  BY Zenon DEF OthersHold
<1> QED BY <1>1, <1>4, <1>5, HolderSame, Zenon

LEMMA DriverIdle ==
  ASSUME DiskInv, UNCHANGED <<disk, dev, vproc, bdisk, diskPanic>>, DOMAIN bdata' = Bufs, DOMAIN sector' = Blocks
  PROVE  DiskInv'
<1>1. MoveEffect
  BY Zenon DEF MoveEffect, SameRequest, DiskInv, ProcShape, ProcOk
<1> QED BY <1>1, MoveKeeps, Zenon

(* A step that leaves the driver and the data alone *)
LEMMA QuietStores ==
  ASSUME StoreInv, CacheInv', UNCHANGED diskVars, \A c \in Bufs : SameBlock(c), NEW p \in DiskProcs,
         \A q \in DiskProcs : q # p => user'[q] = user[q], InDriver(p)', Filled(p)', Carried(p)', AllClean'
  PROVE  StoreInv' /\ ContentKept /\ OthersHold(p)
<1>1. UNCHANGED <<disk, dev, vproc, bdisk, bdata, sector, diskPanic>>
  BY Zenon DEF diskVars
<1>2. DiskInv' /\ DataType'
  BY <1>1, DriverIdle, Zenon DEF StoreInv, DataType, DiskInv, DiskShape
<1>3. \A c \in Bufs : KeepsData(c)
  BY <1>1, Zenon DEF KeepsData
<1>4. OthersKept(p)
  BY <1>1, <1>3, Zenon DEF OthersKept, StoreInv, CacheInv, UserType
<1>5. OthersHold(p) /\ UsersSound'
  BY <1>4, OthersSound, Zenon DEF UsersSound
<1>6. ContentKept
  BY <1>1, <1>3, ContentStays, Zenon
<1> QED BY <1>2, <1>5, <1>6, Zenon DEF StoreInv

(* bget() of a cached block, its panic, and the end of brelse() *)
LEMMA UnlockedStores ==
  ASSUME StoreInv, CacheInv', UNCHANGED diskVars, pinned' = pinned, \A c \in Bufs : SameBlock(c),
         NEW p \in DiskProcs, NEW s, NEW d, Moves(p, s, d),
         user[p].pc \in {"idle", "unref"}, s \in {"idle", "panic", "lock"}
  PROVE  StoreInv' /\ Stutters
<1>1. /\ user'[p].pc = s /\ \A q \in DiskProcs : q # p => user'[q] = user[q]
      /\ UNCHANGED <<vproc, bdata, sector>>
  BY Zenon DEF Moves, diskVars
<1>2. vproc'[p].pc = "out"
  BY <1>1 DEF StoreInv, UsersSound, InDriver
<1>3. InDriver(p)' /\ Filled(p)' /\ Carried(p)'
  BY <1>1, <1>2 DEF InDriver, Filled, Carried
<1>4. AllClean'
  <2>1. user[p].pc # "write"
    OBVIOUS
  <2> QED BY <1>1, <2>1, CleanSame, Zenon DEF AllClean, KeepsData
<1>5. StoreInv' /\ ContentKept /\ OthersHold(p)
  BY <1>1, <1>3, <1>4, QuietStores, Zenon
<1>6. \A k \in Blocks : ~Holds(p, k) /\ ~Holds(p, k)'
  BY <1>1 DEF Holds
<1> QED BY <1>5, <1>6, HoldersStay, Zenon DEF Stutters

LEMMA HitStores ==
  ASSUME StoreInv, CacheInv', NEW p \in DiskProcs, NEW k \in Blocks, bget_hit(p, k)
  PROVE  StoreInv' /\ Stutters
<1>1. PICK b \in Cached(k) : buf' = [buf EXCEPT ![b].refcnt = @ + 1] /\ ToStep(p, "lock", b)
  BY Zenon DEF bget_hit
<1>2. b \in Bufs /\ user[p].pc = "idle" /\ UNCHANGED <<diskVars, pinned>> /\ BufferType /\ UserType
  BY <1>1, Zenon DEF Cached, bget_hit, StoreInv, CacheInv
<1>3. Moves(p, "lock", b) /\ \A c \in Bufs : SameBlock(c)
  BY <1>1, <1>2, Moved, BlockChanged, Zenon
<1> QED BY <1>2, <1>3, UnlockedStores, Zenon

LEMMA PanicStores ==
  ASSUME StoreInv, CacheInv', NEW p \in DiskProcs, NEW k \in Blocks, bget_panic(p, k)
  PROVE  StoreInv' /\ Stutters
<1>1. user[p].pc = "idle" /\ ToStep(p, "panic", Nobody) /\ UNCHANGED <<diskVars, pinned, buf>> /\ UserType
  BY Zenon DEF bget_panic, StoreInv, CacheInv
<1>2. Moves(p, "panic", Nobody) /\ \A c \in Bufs : SameBlock(c)
  BY <1>1, Moved, Zenon DEF SameBlock
<1> QED BY <1>1, <1>2, UnlockedStores, Zenon

LEMMA UnrefStores ==
  ASSUME StoreInv, CacheInv', NEW p \in DiskProcs, brelse_unref(p)
  PROVE  StoreInv' /\ Stutters
<1>1. /\ user[p].pc = "unref" /\ ToStep(p, "idle", Nobody) /\ UNCHANGED <<diskVars, pinned>>
      /\ UserType /\ BufferType /\ buf' = [buf EXCEPT ![user[p].b].refcnt = @ - 1] /\ user[p].b \in Bufs
  BY Zenon DEF brelse_unref, StoreInv, CacheInv, UserType
<1>2. Moves(p, "idle", Nobody) /\ \A c \in Bufs : SameBlock(c)
  BY <1>1, Moved, BlockChanged, Zenon
<1> QED BY <1>1, <1>2, UnlockedStores, Zenon

(* The least recently used buffer agrees with the disk. *)
LEMMA RecycleStores ==
  ASSUME StoreInv, CacheInv', NEW p \in DiskProcs, NEW k \in Blocks, bget_recycle(p, k)
  PROVE  StoreInv' /\ Stutters
<1>1. PICK b \in LeastRecent :
         buf' = [buf EXCEPT ![b].blockno = k, ![b].valid = 0, ![b].refcnt = 1] /\ ToStep(p, "lock", b)
  BY Zenon DEF bget_recycle
<1>2. /\ b \in Bufs /\ buf[b].refcnt = 0 /\ user[p].pc = "idle" /\ UNCHANGED <<diskVars, pinned>>
      /\ \A c \in Bufs : buf[c].blockno # k
  BY <1>1 DEF bget_recycle, Cached, LeastRecent, UnusedBuf, StoreInv, CacheInv, ListInv
<1>3. BufferType /\ UserType /\ RefcntExact /\ BlockInv
  BY Zenon DEF StoreInv, CacheInv
<1>4. /\ Moves(p, "lock", b) /\ buf'[b].blockno = k /\ buf'[b].valid = 0
      /\ \A c \in Bufs : c # b => SameBlock(c)
  <2>1. Moves(p, "lock", b)
    BY <1>1, <1>2, <1>3, Moved, Zenon
  <2>2. \A j, v : buf' = [buf EXCEPT ![b].blockno = j, ![b].valid = v, ![b].refcnt = 1]
          => buf'[b].blockno = j /\ buf'[b].valid = v /\ \A c \in Bufs : c # b => SameBlock(c)
    BY <1>2, <1>3, BlockChanged, Zenon
  <2>3. buf'[b].blockno = k /\ buf'[b].valid = 0 /\ \A c \in Bufs : c # b => SameBlock(c)
    BY <1>1, <2>2, Zenon
  <2> QED BY <2>1, <2>3, Zenon
<1>5. buf[b].blockno \notin pinned /\ \A q \in DiskProcs : user[q].b # b
  BY <1>2, <1>3, Unreferenced, Zenon
<1>6. UNCHANGED <<disk, dev, vproc, bdisk, bdata, sector, diskPanic>>
  BY <1>2, Zenon DEF diskVars
<1>7. DiskInv' /\ DataType'
  BY <1>6, DriverIdle, Zenon DEF StoreInv, DataType, DiskInv, DiskShape
<1>8. OthersKept(p)
  BY <1>3, <1>4, <1>5, <1>6, Zenon DEF OthersKept, Moves, KeepsData, UserType
<1>9. InDriver(p)' /\ Filled(p)' /\ Carried(p)' /\ user'[p].pc = "lock"
  <2>1. vproc'[p].pc = "out" /\ user'[p].pc = "lock"
    BY <1>2, <1>4, <1>6 DEF StoreInv, UsersSound, InDriver, Moves
  <2> QED BY <2>1 DEF InDriver, Filled, Carried
<1>10. OthersHold(p) /\ UsersSound'
  BY <1>8, <1>9, OthersSound, Zenon DEF UsersSound
<1>11. AllClean'
  <2>1. Clean(b)'
    BY <1>4 DEF Clean
  <2>2. user[p].pc # "write" /\ \A q \in DiskProcs : q # p => user'[q] = user[q]
    BY <1>2, <1>4 DEF Moves
  <2>3. \A c \in Bufs : c # b => Clean(c)'
    BY <1>2, <1>4, <1>6, <2>2, CleanSame, Zenon DEF KeepsData
  <2> QED BY <2>1, <2>3, Zenon DEF AllClean
<1>12. HoldersKept
  <2>1. \A h \in Blocks : ~Holds(p, h) /\ ~Holds(p, h)'
    BY <1>2, <1>9 DEF Holds
  <2> QED BY <1>10, <2>1, HoldersStay, Zenon
<1>13. ASSUME NEW h \in Blocks PROVE Content(h)' = Content(h)
  <2>1. ~Copy(b, h)' /\ \A c \in Bufs : c # b => (Copy(c, h)' <=> Copy(c, h))
    BY <1>4 DEF Copy, SameBlock
  <2>2. CASE ~Copy(b, h)
    <3>1. \A c \in Bufs : Copy(c, h)' <=> Copy(c, h)
      BY <2>1, <2>2, Zenon
    <3> QED BY <1>6, <3>1, ContentSame, Zenon
  <2>3. CASE Copy(b, h)
    <3>1. Content(h) = bdata[b]
      BY <1>2, <2>3, ContentIs, Zenon DEF StoreInv, ContentOK
    <3>2. bdata[b] = sector[h]
      <4>1. ~Writing(b) /\ Clean(b)
        BY <1>2, <1>5, Zenon DEF Writing, StoreInv, AllClean
      <4> QED BY <1>5, <2>3, <4>1, Zenon DEF Copy, Clean, Same
    <3>3. \A c \in Bufs : ~Copy(c, h)'
      BY <1>2, <1>3, <2>1, <2>3, Zenon DEF Copy, BlockInv
    <3>4. Content(h)' = sector'[h]
      BY <3>3, ContentIsNext, Zenon DEF ContentOK
    <3> QED BY <1>6, <3>1, <3>2, <3>4, Zenon
  <2> QED BY <2>2, <2>3, Zenon
<1> QED BY <1>7, <1>10, <1>11, <1>12, <1>13, Zenon DEF StoreInv, Stutters, ContentKept

(* p has buffer b, which has block k. *)
Has(p, b, k) == user[p].b = b /\ b \in Bufs /\ buf[b].blockno = k /\ k \in Blocks

LEMMA HasBuffer ==
  ASSUME StoreInv, NEW p \in DiskProcs, user[p].pc \in {"lock", "fill", "held", "write"}
  PROVE  /\ BufferType /\ UserType /\ BlockInv /\ HoldInv /\ CacheInv
         /\ \E b, k : Has(p, b, k)
         /\ InDriver(p) /\ Filled(p) /\ Carried(p)
BY DEF StoreInv, UsersSound, CacheInv, UserType, BlockInv, Has

LEMMA ReleaseStores ==
  ASSUME StoreInv, CacheInv', NEW p \in DiskProcs, brelse(p) PROVE StoreInv' /\ StoreStep
<1>1. /\ user[p].pc = "held" /\ buf' = [buf EXCEPT ![user[p].b].lock = Nobody]
      /\ ToStep(p, "unref", user[p].b) /\ UNCHANGED <<diskVars, pinned>>
  BY Zenon DEF brelse
<1>2. PICK b, k : Has(p, b, k)
  BY <1>1, HasBuffer, Zenon
<1>3. /\ b \in Bufs /\ k \in Blocks /\ user[p].b = b /\ buf[b].blockno = k
      /\ BufferType /\ UserType /\ InDriver(p) /\ CacheInv
  BY <1>1, <1>2, HasBuffer, Zenon DEF Has
<1>4. Moves(p, "unref", b) /\ \A c \in Bufs : SameBlock(c)
  BY <1>1, <1>3, Moved, BlockChanged, Zenon
<1>5. /\ user'[p].pc = "unref" /\ \A q \in DiskProcs : q # p => user'[q] = user[q]
      /\ UNCHANGED <<vproc, bdata, sector>>
  BY <1>1, <1>4, Zenon DEF Moves, diskVars
<1>6. InDriver(p)' /\ Filled(p)' /\ Carried(p)'
  <2>1. vproc'[p].pc = "out"
    BY <1>1, <1>3, <1>5 DEF InDriver
  <2> QED BY <1>5, <2>1 DEF InDriver, Filled, Carried
<1>7. AllClean'
  <2>1. user[p].pc # "write"
    BY <1>1
  <2> QED BY <1>1, <1>4, <1>5, <2>1, CleanSame, Zenon DEF AllClean, KeepsData
<1>8. StoreInv' /\ ContentKept /\ OthersHold(p)
  BY <1>1, <1>4, <1>5, <1>6, <1>7, QuietStores, Zenon
<1>9. \A h \in Blocks : ~Holds(p, h)' /\ (Holds(p, h) <=> h = k)
  BY <1>1, <1>3, <1>5 DEF Holds
<1>10. GivesBack(p, k)
  BY <1>3, <1>8, <1>9, HolderGoes, Zenon DEF GivesBack
<1> QED BY <1>3, <1>8, <1>10, Zenon DEF StoreStep

(* After the write-back the buffer agrees with the disk. *)
LEMMA WrittenStores ==
  ASSUME StoreInv, CacheInv', NEW p \in DiskProcs, bunpin(p) \/ bwrite_done(p) PROVE StoreInv' /\ Stutters
<1>1. /\ user[p].pc = "write" /\ vproc[p].pc = "out"
      /\ buf' = buf \/ buf' = [buf EXCEPT ![user[p].b].refcnt = @ - 1]
      /\ pinned' = pinned \ {buf[user[p].b].blockno}
      /\ ToStep(p, "held", user[p].b) /\ UNCHANGED diskVars
  BY Zenon DEF bunpin, bwrite_done
<1>2. PICK b, k : Has(p, b, k)
  BY <1>1, HasBuffer, Zenon
<1>3. /\ b \in Bufs /\ k \in Blocks /\ user[p].b = b /\ buf[b].blockno = k
      /\ BufferType /\ UserType /\ BlockInv /\ Filled(p) /\ Carried(p)
  BY <1>1, <1>2, HasBuffer, Zenon DEF Has
<1>4. Moves(p, "held", b) /\ \A c \in Bufs : SameBlock(c)
  <2>1. Moves(p, "held", b)
    BY <1>1, <1>3, Moved, Zenon
  <2>2. CASE buf' = buf
    BY <2>1, <2>2, Zenon DEF SameBlock
  <2>3. CASE buf' = [buf EXCEPT ![b].refcnt = @ - 1]
    BY <1>3, <2>1, <2>3, BlockChanged, Zenon
  <2> QED BY <1>1, <1>3, <2>2, <2>3, Zenon
<1>5. /\ user'[p].pc = "held" /\ user'[p].b = b /\ \A q \in DiskProcs : q # p => user'[q] = user[q]
      /\ UNCHANGED <<vproc, bdata, sector>>
  BY <1>1, <1>4, Zenon DEF Moves, diskVars
<1>6. InDriver(p)' /\ Filled(p)' /\ Carried(p)'
  BY <1>1, <1>3, <1>4, <1>5 DEF InDriver, Filled, Carried, SameBlock
<1>7. AllClean'
  <2>1. Same(b)
    BY <1>1, <1>3, Zenon DEF Carried, Waiting
  <2>2. Clean(b)'
    BY <1>3, <1>4, <1>5, <2>1, Zenon DEF Clean, Same, SameBlock
  <2>3. ASSUME NEW c \in Bufs, c # b PROVE Clean(c)'
    <3>1. buf[c].blockno # k
      BY <1>3, <2>3, Zenon DEF BlockInv
    <3>2. buf[c].blockno \in pinned => buf[c].blockno \in pinned'
      BY <1>1, <1>3, <3>1, Zenon
    <3> QED BY <1>3, <1>4, <1>5, <2>3, <3>2, CleanSame, Zenon DEF KeepsData
  <2> QED BY <2>2, <2>3, Zenon DEF AllClean
<1>8. StoreInv' /\ ContentKept /\ OthersHold(p)
  BY <1>1, <1>4, <1>5, <1>6, <1>7, QuietStores, Zenon
<1>9. \A h \in Blocks : Holds(p, h)' <=> Holds(p, h)
  BY <1>1, <1>3, <1>4, <1>5 DEF Holds, SameBlock
<1> QED BY <1>8, <1>9, HoldersStay, Zenon DEF Stutters

(* bread() of a valid buffer *)
LEMMA ReadStores ==
  ASSUME StoreInv, CacheInv', NEW p \in DiskProcs, bread(p), buf[user[p].b].valid = 1
  PROVE  StoreInv' /\ StoreStep
<1>1. /\ user[p].pc = "lock" /\ buf[user[p].b].lock = Nobody /\ buf' = [buf EXCEPT ![user[p].b].lock = p]
      /\ ToStep(p, "held", user[p].b) /\ UNCHANGED <<diskVars, pinned>>
  BY Zenon DEF bread
<1>2. PICK b, k : Has(p, b, k)
  BY <1>1, HasBuffer, Zenon
<1>3. /\ b \in Bufs /\ k \in Blocks /\ user[p].b = b /\ buf[b].blockno = k
      /\ BufferType /\ UserType /\ BlockInv /\ InDriver(p) /\ CacheInv
  BY <1>1, <1>2, HasBuffer, Zenon DEF Has
<1>4. Moves(p, "held", b) /\ \A c \in Bufs : SameBlock(c)
  BY <1>1, <1>3, Moved, BlockChanged, Zenon
<1>5. /\ user'[p].pc = "held" /\ user'[p].b = b /\ \A q \in DiskProcs : q # p => user'[q] = user[q]
      /\ UNCHANGED <<vproc, bdata, sector>>
  BY <1>1, <1>4, Zenon DEF Moves, diskVars
<1>6. InDriver(p)' /\ Filled(p)' /\ Carried(p)'
  <2>1. vproc'[p].pc = "out"
    BY <1>1, <1>3, <1>5 DEF InDriver
  <2>2. buf'[b].valid = 1
    BY <1>3, <1>4, Zenon DEF SameBlock
  <2> QED BY <1>5, <2>1, <2>2 DEF InDriver, Filled, Carried
<1>7. AllClean'
  <2>1. user[p].pc # "write"
    BY <1>1
  <2> QED BY <1>1, <1>4, <1>5, <2>1, CleanSame, Zenon DEF AllClean, KeepsData
<1>8. StoreInv' /\ ContentKept /\ OthersHold(p)
  BY <1>1, <1>4, <1>5, <1>6, <1>7, QuietStores, Zenon
<1>9. \A h \in Blocks : ~Holds(p, h) /\ (Holds(p, h)' <=> h = k)
  BY <1>1, <1>3, <1>4, <1>5 DEF Holds, SameBlock
<1>10. ASSUME NEW q \in DiskProcs, Holds(q, k) PROVE FALSE
  <2>1. q # p /\ user[q].pc \in {"fill", "held", "write"} /\ buf[user[q].b].blockno = k
    BY <1>3, <1>9, <1>10, Zenon DEF Holds
  <2>2. user[q].b \in Bufs /\ user[q].b # b
    BY <1>1, <1>3, <2>1, LockedAlone, Zenon
  <2> QED BY <1>3, <2>1, <2>2, Zenon DEF BlockInv
<1>11. Takes(p, k)
  BY <1>3, <1>8, <1>9, <1>10, HolderComes, Zenon DEF Takes
<1> QED BY <1>3, <1>8, <1>11, Zenon DEF StoreStep

(* bread() and bwrite() call the driver. *)
LEMMA CallStores ==
  ASSUME StoreInv, CacheInv', NEW p \in DiskProcs, NEW b, NEW k, Has(p, b, k), NEW s, NEW w,
         \/ user[p].pc = "lock" /\ s = "fill" /\ w = 0 /\ buf[b].valid # 1
         \/ user[p].pc = "held" /\ s = "write" /\ w = 1,
         buf[b].lock \in {p, Nobody}, \A c \in Bufs : SameBlock(c), Moves(p, s, b),
         bdata' \in [Bufs -> Values], \A c \in Bufs : c # b => bdata'[c] = bdata[c],
         virtio_disk_rw(p, b, k, w), UNCHANGED <<disk, dev, bdisk, sector, diskPanic, pinned>>
  PROVE  StoreInv' /\ HoldersKept
<1>1. /\ b \in Bufs /\ k \in Blocks /\ user[p].b = b /\ buf[b].blockno = k
      /\ BufferType /\ UserType /\ InDriver(p) /\ Filled(p) /\ CacheInv
  BY HasBuffer DEF Has
<1>2. vproc[p].pc = "out" /\ w \in {0, 1} /\ (w = IF s = "write" THEN 1 ELSE 0) /\ s \in {"fill", "write"}
  BY <1>1 DEF InDriver
<1>3. DOMAIN vproc = DiskProcs /\ DOMAIN bdata' = Bufs /\ DOMAIN sector' = Blocks
  BY Zenon DEF StoreInv, DiskInv, ProcShape, DiskShape
<1>4. /\ user'[p].pc = s /\ user'[p].b = b /\ buf'[b].blockno = k /\ buf'[b].valid = buf[b].valid
      /\ \A q \in DiskProcs : q # p => user'[q] = user[q]
  BY <1>1, Zenon DEF Moves, SameBlock
<1>5. ASSUME NEW q \in DiskProcs, vproc[q].pc # "out" PROVE vproc[q].b # b
  <2>1. q # p /\ user[q].pc \in {"fill", "held", "write"} /\ vproc[q].b = user[q].b
    <3>1. InDriver(q)
      BY Zenon DEF StoreInv, UsersSound
    <3>2. user[q].pc \in {"fill", "write"} /\ vproc[q].b = user[q].b
      BY <1>5, <3>1, Zenon DEF InDriver
    <3> QED BY <1>2, <1>5, <3>2
  <2>2. CacheInv /\ b \in Bufs
    BY <1>1
  <2>3. user[q].pc \in {"fill", "held", "write"} /\ q # p
    BY <2>1
  <2>4. user[q].b # b
    BY <2>2, <2>3, LockedAlone, Zenon
  <2> QED BY <2>1, <2>4
<1>6. DiskInv' /\ DataType'
  <2>1. DiskInv'
    BY <1>1, <1>2, <1>3, <1>5, CallKeeps, Zenon DEF StoreInv
  <2> QED BY <2>1, Zenon DEF StoreInv, DataType
<1>7. /\ vproc'[p].pc = "enter" /\ vproc'[p].b = b /\ vproc'[p].block = k /\ vproc'[p].write = w
      /\ vproc'[p].head = Nobody
  BY <1>3 DEF virtio_disk_rw, Outside
<1>8. \A q \in DiskProcs : q # p => vproc'[q] = vproc[q]
  BY <1>3, Zenon DEF virtio_disk_rw
<1>9. OthersKept(p)
  <2>1. ASSUME NEW q \in DiskProcs, q # p, user[q].pc \in {"fill", "held", "write"}
        PROVE  KeepsData(user[q].b)
    <3>1. user[q].b \in Bufs /\ user[q].b # b
      BY <1>1, <2>1, LockedAlone, Zenon
    <3> QED BY <3>1, Zenon DEF KeepsData
  <2> QED BY <1>4, <1>8, <2>1, Zenon DEF OthersKept
<1>10. InDriver(p)' /\ Filled(p)' /\ Carried(p)'
  <2>1. Waiting(p)'
    BY <1>7 DEF Waiting, Busy
  <2>2. InDriver(p)'
    BY <1>2, <1>4, <1>7, Zenon DEF InDriver
  <2>3. Filled(p)'
    BY <1>1, <1>4 DEF Filled
  <2> QED BY <2>1, <2>2, <2>3, Zenon DEF Carried
<1>11. OthersHold(p) /\ UsersSound'
  BY <1>9, <1>10, OthersSound, Zenon DEF UsersSound
<1>12. AllClean'
  <2>1. Clean(b)'
    BY <1>1, <1>4 DEF Clean, Writing
  <2>2. user[p].pc # "write"
    OBVIOUS
  <2>3. \A c \in Bufs : c # b => Clean(c)'
    BY <1>4, <2>2, CleanSame, Zenon DEF KeepsData
  <2> QED BY <2>1, <2>3, Zenon DEF AllClean
<1>13. HoldersKept
  <2>1. \A h \in Blocks : Holds(p, h)' <=> Holds(p, h)
    BY <1>1, <1>4 DEF Holds
  <2> QED BY <1>11, <2>1, HoldersStay, Zenon
<1> QED BY <1>6, <1>11, <1>12, <1>13, Zenon DEF StoreInv

LEMMA FillStores ==
  ASSUME StoreInv, CacheInv', NEW p \in DiskProcs, bread(p), buf[user[p].b].valid # 1
  PROVE  StoreInv' /\ Stutters
<1>1. /\ user[p].pc = "lock" /\ buf[user[p].b].lock = Nobody /\ buf' = [buf EXCEPT ![user[p].b].lock = p]
      /\ ToStep(p, "fill", user[p].b) /\ virtio_disk_rw(p, user[p].b, buf[user[p].b].blockno, 0)
      /\ UNCHANGED <<disk, dev, bdisk, bdata, sector, diskPanic, pinned>>
  BY Zenon DEF bread
<1>2. PICK b, k : Has(p, b, k)
  BY <1>1, HasBuffer, Zenon
<1>3. b \in Bufs /\ user[p].b = b /\ buf[b].blockno = k /\ BufferType /\ UserType
  BY <1>1, <1>2, HasBuffer, Zenon DEF Has
<1>4. Moves(p, "fill", b) /\ \A c \in Bufs : SameBlock(c)
  BY <1>1, <1>3, Moved, BlockChanged, Zenon
<1>5. bdata' \in [Bufs -> Values]
  BY <1>1, Zenon DEF StoreInv, DataType
<1>6. StoreInv' /\ HoldersKept
  BY <1>1, <1>2, <1>3, <1>4, <1>5, CallStores, Zenon
<1>7. ContentKept
  BY <1>1, <1>4, ContentStays, Zenon DEF KeepsData
<1> QED BY <1>6, <1>7, Zenon DEF Stutters

(* The holder changes the block. *)
LEMMA HolderWrites ==
  ASSUME CacheInv, CacheInv', NEW p \in DiskProcs, NEW b, NEW k, Has(p, b, k), user[p].pc = "held",
         buf[b].valid = 1, \A c \in Bufs : SameBlock(c), sector' = sector, NEW v \in Values, bdata'[b] = v,
         \A c \in Bufs : c # b => bdata'[c] = bdata[c], HoldersKept
  PROVE  StoreStep
<1>1. b \in Bufs /\ k \in Blocks /\ user[p].b = b /\ buf[b].blockno = k
  BY Zenon DEF Has
<1>2. Copy(b, k)' /\ Holds(p, k)
  BY <1>1 DEF Copy, SameBlock, Holds
<1>3. Content(k)' = v /\ HolderOf(k) = p
  BY <1>1, <1>2, ContentIs, ContentIsNext, Zenon DEF ContentOK, HolderOK
<1>4. ASSUME NEW h \in Blocks, h # k PROVE Content(h)' = Content(h)
  <2>1. \A c \in Bufs : (Copy(c, h)' <=> Copy(c, h)) /\ (Copy(c, h) => c # b)
    BY <1>1, <1>4, Zenon DEF Copy, SameBlock
  <2> QED BY <2>1, ContentSame, Zenon
<1>5. Writes(p, k)
  BY <1>3, <1>4, Zenon DEF Writes
<1> QED BY <1>1, <1>5, Zenon DEF StoreStep

LEMMA WriteStores ==
  ASSUME StoreInv, CacheInv', NEW p \in DiskProcs, NEW v \in Values, bwrite(p, v) PROVE StoreInv' /\ StoreStep
<1>1. /\ user[p].pc = "held" /\ virtio_disk_rw(p, user[p].b, buf[user[p].b].blockno, 1)
      /\ ToStep(p, "write", user[p].b) /\ buf' = buf /\ bdata' = [bdata EXCEPT ![user[p].b] = v]
      /\ UNCHANGED <<disk, dev, bdisk, sector, diskPanic, pinned>>
  BY Zenon DEF bwrite
<1>2. PICK b, k : Has(p, b, k)
  BY <1>1, HasBuffer, Zenon
<1>3. /\ b \in Bufs /\ user[p].b = b /\ buf[b].blockno = k /\ UserType /\ CacheInv
      /\ buf[b].lock = p /\ buf[b].valid = 1
  BY <1>1, <1>2, HasBuffer, Zenon DEF Has, HoldInv, Filled
<1>4. Moves(p, "write", b) /\ \A c \in Bufs : SameBlock(c)
  BY <1>1, <1>3, Moved, Zenon DEF SameBlock
<1>5. bdata' \in [Bufs -> Values] /\ bdata'[b] = v /\ \A c \in Bufs : c # b => bdata'[c] = bdata[c]
  BY <1>1, <1>3, Zenon DEF StoreInv, DataType
<1>6. StoreInv' /\ HoldersKept
  <2>1. virtio_disk_rw(p, b, k, 1) /\ buf[b].lock \in {p, Nobody}
    BY <1>1, <1>3, Zenon
  <2>2. UNCHANGED <<disk, dev, bdisk, sector, diskPanic, pinned>>
    BY <1>1, Zenon
  <2>3. user[p].pc = "held" /\ "write" = "write" /\ 1 = 1
    BY <1>1, Zenon
  <2> QED BY <1>2, <1>4, <1>5, <2>1, <2>2, <2>3, CallStores, ZenonT(30)
<1>7. StoreStep
  <2>1. sector' = sector /\ user[p].pc = "held" /\ CacheInv /\ buf[b].valid = 1
    BY <1>1, <1>3, Zenon
  <2> QED BY <1>2, <1>4, <1>5, <1>6, <2>1, HolderWrites, ZenonT(30)
<1> QED BY <1>6, <1>7, Zenon

(* The fill is over: what is read is what is on the disk. *)
LEMMA FilledStores ==
  ASSUME StoreInv, CacheInv', NEW p \in DiskProcs, bread_filled(p) PROVE StoreInv' /\ StoreStep
<1>1. /\ user[p].pc = "fill" /\ vproc[p].pc = "out" /\ buf' = [buf EXCEPT ![user[p].b].valid = 1]
      /\ ToStep(p, "held", user[p].b) /\ UNCHANGED <<diskVars, pinned>>
  BY Zenon DEF bread_filled
<1>2. PICK b, k : Has(p, b, k)
  BY <1>1, HasBuffer, Zenon
<1>3. /\ b \in Bufs /\ k \in Blocks /\ user[p].b = b /\ buf[b].blockno = k
      /\ BufferType /\ UserType /\ BlockInv /\ CacheInv
  BY <1>1, <1>2, HasBuffer, Zenon DEF Has
<1>4. Filled(p) /\ Carried(p) /\ buf[b].lock = p
  BY <1>1, <1>3, HasBuffer, Zenon DEF HoldInv
<1>5. /\ Moves(p, "held", b) /\ buf'[b].blockno = k /\ buf'[b].valid = 1
      /\ \A c \in Bufs : c # b => SameBlock(c)
  BY <1>1, <1>3, Moved, BlockChanged, Zenon
<1>6. UNCHANGED <<disk, dev, vproc, bdisk, bdata, sector, diskPanic>>
  BY <1>1, Zenon DEF diskVars
<1>7. /\ user'[p].pc = "held" /\ user'[p].b = b /\ \A q \in DiskProcs : q # p => user'[q] = user[q]
  BY <1>5, Zenon DEF Moves
<1>8. DiskInv' /\ DataType'
  BY <1>6, DriverIdle, Zenon DEF StoreInv, DataType, DiskInv, DiskShape
<1>9. OthersKept(p)
  BY <1>3, <1>4, <1>5, <1>6, <1>7, LockedAlone, Zenon DEF OthersKept, KeepsData
<1>10. InDriver(p)' /\ Filled(p)' /\ Carried(p)'
  BY <1>1, <1>5, <1>6, <1>7 DEF InDriver, Filled, Carried
<1>11. OthersHold(p) /\ UsersSound'
  BY <1>9, <1>10, OthersSound, Zenon DEF UsersSound
<1>12. buf[b].valid # 1 /\ bdata[b] = sector[k]
  BY <1>1, <1>3, <1>4, Zenon DEF Filled, Carried, Waiting, Same
<1>13. AllClean'
  <2>1. Clean(b)'
    BY <1>5, <1>6, <1>12, Zenon DEF Clean, Same
  <2>2. user[p].pc # "write"
    BY <1>1
  <2>3. \A c \in Bufs : c # b => Clean(c)'
    BY <1>1, <1>5, <1>6, <1>7, <2>2, CleanSame, Zenon DEF KeepsData
  <2> QED BY <2>1, <2>3, Zenon DEF AllClean
<1>14. ASSUME NEW h \in Blocks PROVE Content(h)' = Content(h)
  <2>1. \A c \in Bufs : c # b => (Copy(c, h)' <=> Copy(c, h))
    BY <1>5, Zenon DEF Copy, SameBlock
  <2>2. CASE h = k
    <3>1. \A c \in Bufs : ~Copy(c, k)
      BY <1>3, <1>12, Zenon DEF Copy, BlockInv
    <3>2. Content(k) = sector[k]
      BY <1>3, <3>1, ContentIs, Zenon DEF ContentOK
    <3>3. Content(k)' = bdata'[b]
      BY <1>3, <1>5, ContentIsNext, Zenon DEF ContentOK, Copy
    <3> QED BY <1>6, <1>12, <2>2, <3>2, <3>3, Zenon
  <2>3. CASE h # k
    <3>1. \A c \in Bufs : Copy(c, h)' <=> Copy(c, h)
      BY <1>3, <1>5, <2>1, <2>3, Zenon DEF Copy
    <3> QED BY <1>6, <3>1, ContentSame, Zenon
  <2> QED BY <2>2, <2>3, Zenon
<1>15. \A h \in Blocks : ~Holds(p, h) /\ (Holds(p, h)' <=> h = k)
  BY <1>1, <1>3, <1>5, <1>7 DEF Holds
<1>16. ASSUME NEW q \in DiskProcs, Holds(q, k) PROVE FALSE
  <2>1. q # p /\ user[q].pc \in {"fill", "held", "write"} /\ buf[user[q].b].blockno = k
    BY <1>3, <1>15, <1>16, Zenon DEF Holds
  <2>2. user[q].b \in Bufs /\ user[q].b # b
    BY <1>3, <1>4, <2>1, LockedAlone, Zenon
  <2> QED BY <1>3, <2>1, <2>2, Zenon DEF BlockInv
<1>17. Takes(p, k)
  BY <1>3, <1>11, <1>14, <1>15, <1>16, HolderComes, Zenon DEF Takes, ContentKept
<1>18. StoreInv'
  BY <1>8, <1>11, <1>13, Zenon DEF StoreInv
<1> QED BY <1>3, <1>17, <1>18, Zenon DEF StoreStep

(* log_write() pins the block that is changed. *)
LEMMA LogStores ==
  ASSUME StoreInv, CacheInv', NEW p \in DiskProcs, NEW v \in Values, log_write(p, v)
  PROVE  StoreInv' /\ StoreStep
<1>1. /\ user[p].pc = "held" /\ bdata' = [bdata EXCEPT ![user[p].b] = v]
      /\ buf' = buf \/ buf' = [buf EXCEPT ![user[p].b].refcnt = @ + 1]
      /\ pinned' = pinned \cup {buf[user[p].b].blockno}
      /\ UNCHANGED <<disk, dev, vproc, bdisk, sector, diskPanic, user>>
  BY Zenon DEF log_write
<1>2. PICK b, k : Has(p, b, k)
  BY <1>1, HasBuffer, Zenon
<1>3. /\ b \in Bufs /\ k \in Blocks /\ user[p].b = b /\ buf[b].blockno = k
      /\ BufferType /\ UserType /\ BlockInv /\ CacheInv
  BY <1>1, <1>2, HasBuffer, Zenon DEF Has
<1>4. InDriver(p) /\ Filled(p) /\ buf[b].lock = p
  BY <1>1, <1>3, HasBuffer, Zenon DEF HoldInv
<1>5. \A c \in Bufs : SameBlock(c)
  <2>1. CASE buf' = buf
    BY <2>1, Zenon DEF SameBlock
  <2>2. CASE buf' = [buf EXCEPT ![b].refcnt = @ + 1]
    BY <1>3, <2>2, BlockChanged, Zenon
  <2> QED BY <1>1, <1>3, <2>1, <2>2, Zenon
<1>6. bdata' \in [Bufs -> Values] /\ bdata'[b] = v /\ \A c \in Bufs : c # b => bdata'[c] = bdata[c]
  BY <1>1, <1>3, Zenon DEF StoreInv, DataType
<1>7. DiskInv' /\ DataType'
  <2>1. DataType' /\ DOMAIN bdata' = Bufs /\ DOMAIN sector' = Blocks
    BY <1>1, <1>6, Zenon DEF StoreInv, DataType
  <2> QED BY <1>1, <2>1, DriverIdle, Zenon DEF StoreInv
<1>8. OthersKept(p)
  <2>1. ASSUME NEW q \in DiskProcs, q # p, user[q].pc \in {"fill", "held", "write"}
        PROVE  KeepsData(user[q].b)
    <3>1. user[q].b \in Bufs /\ user[q].b # b
      BY <1>3, <1>4, <2>1, LockedAlone, Zenon
    <3> QED BY <1>5, <1>6, <3>1, Zenon DEF KeepsData
  <2> QED BY <1>1, <2>1, Zenon DEF OthersKept
<1>9. InDriver(p)' /\ Filled(p)' /\ Carried(p)'
  BY <1>1, <1>3, <1>4, <1>5 DEF InDriver, Filled, Carried, SameBlock
<1>10. OthersHold(p) /\ UsersSound'
  BY <1>8, <1>9, OthersSound, Zenon DEF UsersSound
<1>11. AllClean'
  <2>1. Clean(b)'
    BY <1>1, <1>3, <1>5, Zenon DEF Clean, SameBlock
  <2>2. user[p].pc # "write"
    BY <1>1
  <2>3. \A c \in Bufs : c # b => Clean(c)'
    BY <1>1, <1>5, <1>6, <2>2, CleanSame, Zenon DEF KeepsData
  <2> QED BY <2>1, <2>3, Zenon DEF AllClean
<1>12. HoldersKept
  <2>1. \A h \in Blocks : Holds(p, h)' <=> Holds(p, h)
    BY <1>1, <1>3, <1>5, Zenon DEF Holds, SameBlock
  <2> QED BY <1>10, <2>1, HoldersStay, Zenon
<1>13. StoreStep
  <2>1. buf[b].valid = 1
    BY <1>1, <1>3, <1>4, Zenon DEF Filled
  <2>2. sector' = sector /\ user[p].pc = "held" /\ CacheInv
    BY <1>1, <1>3, Zenon
  <2> QED BY <1>2, <1>5, <1>6, <1>12, <2>1, <2>2, HolderWrites, ZenonT(30)
<1>14. StoreInv'
  BY <1>7, <1>10, <1>11, Zenon DEF StoreInv
<1> QED BY <1>13, <1>14, Zenon

-----------------------------------------------------------------------------
(* All together *)

LEMMA StoreInit == CacheInit => StoreInv
<1> SUFFICES ASSUME CacheInit PROVE StoreInv
  OBVIOUS
<1>1. DiskInit /\ bdata = [b \in Bufs |-> 0] /\ CacheInv
  BY CacheStart, Zenon DEF CacheInit
<1>2. DiskInv /\ DataType
  BY <1>1, InitDiskInv, BufsAssumption, Zenon DEF DataType, DiskInit
<1>3. \A q \in DiskProcs : vproc[q].pc = "out" /\ user[q].pc = "idle"
  <2>1. \A q \in DiskProcs : vproc[q] = Outside /\ user[q] = [pc |-> "idle", b |-> Nobody]
    BY <1>1, Zenon DEF DiskInit, CacheInit
  <2> QED BY <2>1 DEF Outside
<1>4. UsersSound
  BY <1>3 DEF UsersSound, InDriver, Filled, Carried
<1>5. AllClean
  <2>1. \A c \in Bufs : buf[c].valid = 0
    BY Zenon DEF CacheInit
  <2> QED BY <2>1 DEF AllClean, Clean
<1> QED BY <1>1, <1>2, <1>4, <1>5, Zenon DEF StoreInv

LEMMA StoreNext ==
  ASSUME StoreInv, [CacheNext]_<<diskVars, cacheVars>> PROVE StoreInv' /\ StoreStep
<1>1. CacheInv /\ CacheInv'
  BY CacheNextKeeps, Zenon DEF StoreInv
<1>2. ASSUME NEW p \in DiskProcs, CacheStep(p) PROVE StoreInv' /\ StoreStep
  BY <1>1, <1>2, ReadStores, FillStores, FilledStores, WrittenStores, ReleaseStores, UnrefStores, Zenon
     DEF CacheStep, StoreStep
<1>3. ASSUME NEW p \in DiskProcs, CacheUser(p) PROVE StoreInv' /\ StoreStep
  BY <1>1, <1>3, HitStores, RecycleStores, PanicStores, LogStores, WriteStores, Zenon DEF CacheUser, StoreStep
<1>4. CASE DiskStep /\ UNCHANGED cacheVars
  BY <1>1, <1>4, DiskStepStores, Zenon DEF StoreStep
<1>5. CASE UNCHANGED <<diskVars, cacheVars>>
  <2>1. /\ UNCHANGED <<disk, dev, vproc, bdisk, bdata, sector, diskPanic>>
        /\ UNCHANGED <<buf, lru, user, pinned, noBuffers>>
    BY <1>5, Zenon DEF diskVars, cacheVars
  <2>2. DiskInv' /\ DataType'
    BY <2>1, DriverIdle, Zenon DEF StoreInv, DataType, DiskInv, DiskShape
  <2>3. \A c \in Bufs : KeepsData(c)
    BY <2>1, Zenon DEF KeepsData, SameBlock
  <2>4. AllClean' /\ ContentKept
    <3>1. ContentKept
      BY <2>1, <2>3, ContentStays, Zenon
    <3>2. \A c \in Bufs : Same(c)' <=> Same(c)
      BY <2>1, Zenon DEF Same
    <3> QED BY <2>1, <3>1, <3>2, Zenon DEF StoreInv, AllClean, Clean, Writing
  <2>5. UsersSound' /\ HoldersKept
    <3>1. \A q \in DiskProcs : InDriver(q)' /\ Filled(q)'
      BY <2>1, Zenon DEF StoreInv, UsersSound, InDriver, Filled
    <3>2. \A q \in DiskProcs : Carried(q)'
      BY <2>1, Zenon DEF StoreInv, UsersSound, Carried, Waiting, Busy, ToDo, Queued, Same
    <3>3. HoldersKept
      BY <2>1, HolderSame, Zenon DEF HoldersKept, Holds
    <3> QED BY <3>1, <3>2, <3>3, Zenon DEF UsersSound
  <2> QED BY <1>1, <2>2, <2>4, <2>5, Zenon DEF StoreInv, StoreStep, Stutters
<1> QED BY <1>2, <1>3, <1>4, <1>5, Zenon DEF CacheNext

(* The invariant of the cache with its driver holds in every execution. *)
THEOREM StoreInvariance == CacheSpec => []StoreInv
<1>1. StoreInv /\ [CacheNext]_<<diskVars, cacheVars>> => StoreInv'
  BY StoreNext, Zenon
<1> QED BY <1>1, StoreInit, PTL DEF CacheSpec

(* bread(), log_write(), bwrite() and brelse() make a store of blocks: one *)
(* process at a time has a block, and no recycling of a buffer, fill or    *)
(* write-back, in whatever order the device works, changes what it reads   *)
(* as.                                                                     *)
THEOREM CacheIsBlockStore == CacheSpec => IsBlockStore
<1>1. CacheInit => Store!Init
  <2> SUFFICES ASSUME CacheInit
               PROVE  \A k \in Blocks : Content(k) \in Values /\ HolderOf(k) = Nobody
    BY Zenon DEF Store!Init
  <2>1. StoreInv
    BY StoreInit, Zenon
  <2>2. ContentOK /\ HolderOK /\ sector \in [Blocks -> Values]
    BY <2>1, ContentIs, Zenon DEF StoreInv, DataType
  <2>3. ASSUME NEW k \in Blocks PROVE /\ \A c \in Bufs : ~Copy(c, k)
                                      /\ \A q \in DiskProcs : ~Holds(q, k)
    BY DEF CacheInit, Copy, Holds
  <2> QED BY <2>2, <2>3, Zenon DEF ContentOK, HolderOK
<1>2. StoreInv /\ [CacheNext]_<<diskVars, cacheVars>>
        => [Store!Next]_<<[k \in Blocks |-> Content(k)], [k \in Blocks |-> HolderOf(k)]>>
  BY StoreNext, StoreSteps, Zenon
<1> QED BY <1>1, <1>2, StoreInvariance, PTL DEF CacheSpec, IsBlockStore, Store!Spec

(* The driver keeps track of the requests of the cache as well: those of   *)
(* several processes for buffers that come and go.                         *)
THEOREM CacheKeepsRequests == CacheSpec => []RequestsKept
<1>1. StoreInv => RequestsKept
  BY InvariantKeepsRequests, Zenon DEF StoreInv
<1> QED BY <1>1, StoreInvariance, PTL
=============================================================================
