---------------------------- MODULE BufferCache -----------------------------
(***************************************************************************)
(* The buffer cache of kernel/bio.c over the driver of VirtioDisk: the     *)
(* list of buffers in the order of their last use, reference counts, and   *)
(* the fill of a recycled buffer, which happens after bcache.lock is       *)
(* released.                                                               *)
(*                                                                         *)
(* Granularity.  A step is one critical section of bcache.lock, or the     *)
(* taking of the buffer's sleep lock.  The users follow log.c: a process   *)
(* holds one block, and changes it and pins it (log_write()) or changes it *)
(* and writes it to the disk (write_log(), write_head(), install_trans()); *)
(* the write of a pinned block is install_trans()'s, which unpins it.      *)
(***************************************************************************)
EXTENDS VirtioDisk

CONSTANTS
  NBUF,
  MaxPinned   \* bound of the model: blocks the log pins at a time

ASSUME BufsAssumption == NBUF \in Nat \ {0} /\ Bufs = 1..NBUF /\ 0 \in Values

VARIABLES
  buf,      \* of each buffer: blockno, valid, refcnt, and who holds its lock
  lru,      \* the buffers, head.next first
  user,     \* of each process: its step and its buffer
  pinned,   \* the blocks the log holds on to
  noBuffers \* the panic of bget()

cacheVars == <<buf, lru, user, pinned, noBuffers>>

CacheInit ==
  /\ DiskInit
  /\ lru = [i \in 1..NBUF |-> NBUF + 1 - i]
  /\ buf = [b \in Bufs |-> [blockno |-> Nobody, valid |-> 0, refcnt |-> 0, lock |-> Nobody]]
  /\ bdata = [b \in Bufs |-> 0]
  /\ user = [p \in DiskProcs |-> [pc |-> "idle", b |-> Nobody]]
  /\ pinned = {} /\ noBuffers = FALSE

ToStep(p, pc, b) == user' = [user EXCEPT ![p] = [pc |-> pc, b |-> b]]

-----------------------------------------------------------------------------
(* bget() up to acquiresleep(): the block is cached, or the least recently *)
(* used buffer without a reference is recycled.                            *)

Cached(k) == {b \in Bufs : buf[b].blockno = k}
UnusedBuf == {i \in 1..NBUF : buf[lru[i]].refcnt = 0}
LeastRecent == {lru[i] : i \in {i \in UnusedBuf : \A j \in UnusedBuf : j <= i}}

bget_hit(p, k) ==
  /\ user[p].pc = "idle"
  /\ \E b \in Cached(k) :
       /\ buf' = [buf EXCEPT ![b].refcnt = @ + 1]
       /\ ToStep(p, "lock", b)
  /\ UNCHANGED <<diskVars, lru, pinned, noBuffers>>

(* Mutant: the recycled buffer keeps its valid flag. *)
bget_recycle_Valid(p, k) ==
  /\ user[p].pc = "idle" /\ Cached(k) = {}
  /\ \E b \in LeastRecent :
       /\ buf' = [buf EXCEPT ![b].blockno = k, ![b].refcnt = 1]
       /\ ToStep(p, "lock", b)
  /\ UNCHANGED <<diskVars, lru, pinned, noBuffers>>

bget_recycle(p, k) ==
  /\ user[p].pc = "idle" /\ Cached(k) = {}
  /\ \E b \in LeastRecent :
       /\ buf' = [buf EXCEPT ![b].blockno = k, ![b].valid = 0, ![b].refcnt = 1]
       /\ ToStep(p, "lock", b)
  /\ UNCHANGED <<diskVars, lru, pinned, noBuffers>>

bget_panic(p, k) ==
  /\ user[p].pc = "idle" /\ Cached(k) = {} /\ UnusedBuf = {}
  /\ noBuffers' = TRUE /\ ToStep(p, "panic", Nobody)
  /\ UNCHANGED <<diskVars, buf, lru, pinned>>

(* The sleep lock is taken; bread() reads the block unless it is there. *)
bread(p) ==
  /\ user[p].pc = "lock" /\ buf[user[p].b].lock = Nobody
  /\ LET b == user[p].b
     IN  /\ buf' = [buf EXCEPT ![b].lock = p]
         /\ IF buf[b].valid = 1
            THEN ToStep(p, "held", b) /\ UNCHANGED diskVars
            ELSE /\ ToStep(p, "fill", b) /\ virtio_disk_rw(p, b, buf[b].blockno, 0)
                 /\ UNCHANGED <<disk, dev, bdisk, bdata, sector, diskPanic>>
  /\ UNCHANGED <<lru, pinned, noBuffers>>

bread_filled(p) ==
  /\ user[p].pc = "fill" /\ vproc[p].pc = "out"
  /\ buf' = [buf EXCEPT ![user[p].b].valid = 1]
  /\ ToStep(p, "held", user[p].b)
  /\ UNCHANGED <<diskVars, lru, pinned, noBuffers>>

-----------------------------------------------------------------------------
(* The holder *)

(* It changes the data and calls log_write(), which pins a new block. *)
log_write(p, v) ==
  /\ user[p].pc = "held"
  /\ LET b == user[p].b
         k == buf[b].blockno
     IN  /\ pinned' = pinned \cup {k} /\ Cardinality(pinned') <= MaxPinned
         /\ bdata' = [bdata EXCEPT ![b] = v]
         /\ buf' = IF k \in pinned THEN buf ELSE [buf EXCEPT ![b].refcnt = @ + 1]
  /\ UNCHANGED <<disk, dev, vproc, bdisk, sector, diskPanic, lru, user, noBuffers>>

(* It copies data into the buffer and calls bwrite(). *)
bwrite(p, v) ==
  /\ user[p].pc = "held"
  /\ bdata' = [bdata EXCEPT ![user[p].b] = v]
  /\ virtio_disk_rw(p, user[p].b, buf[user[p].b].blockno, 1)
  /\ ToStep(p, "write", user[p].b)
  /\ UNCHANGED <<disk, dev, bdisk, sector, diskPanic, buf, lru, pinned, noBuffers>>

bwrite_done(p) ==
  /\ user[p].pc = "write" /\ vproc[p].pc = "out" /\ buf[user[p].b].blockno \notin pinned
  /\ ToStep(p, "held", user[p].b)
  /\ UNCHANGED <<diskVars, buf, lru, pinned, noBuffers>>

(* install_trans() goes on with bunpin(). *)
bunpin(p) ==
  /\ user[p].pc = "write" /\ vproc[p].pc = "out" /\ buf[user[p].b].blockno \in pinned
  /\ buf' = [buf EXCEPT ![user[p].b].refcnt = @ - 1]
  /\ pinned' = pinned \ {buf[user[p].b].blockno}
  /\ ToStep(p, "held", user[p].b)
  /\ UNCHANGED <<diskVars, lru, noBuffers>>

(* brelse(): releasesleep() comes first, *)
brelse(p) ==
  /\ user[p].pc = "held"
  /\ buf' = [buf EXCEPT ![user[p].b].lock = Nobody]
  /\ ToStep(p, "unref", user[p].b)
  /\ UNCHANGED <<diskVars, lru, pinned, noBuffers>>

(* b is taken out of the list and put behind its head. *)
ToFront(b) ==
  LET at == CHOOSE i \in 1..NBUF : lru[i] = b
  IN  [i \in 1..NBUF |-> IF i = 1 THEN b ELSE IF i <= at THEN lru[i - 1] ELSE lru[i]]

(* Mutant: the reference is dropped only when it is the last one. *)
brelse_unref_Last(p) ==
  /\ user[p].pc = "unref"
  /\ LET b == user[p].b
     IN  /\ buf' = [buf EXCEPT ![b].refcnt = IF @ = 1 THEN 0 ELSE @]
         /\ lru' = IF buf'[b].refcnt = 0 THEN ToFront(b) ELSE lru
  /\ ToStep(p, "idle", Nobody)
  /\ UNCHANGED <<diskVars, pinned, noBuffers>>

(* then the reference is dropped, and the last one puts the buffer first.  *)
brelse_unref(p) ==
  /\ user[p].pc = "unref"
  /\ LET b == user[p].b
     IN  /\ buf' = [buf EXCEPT ![b].refcnt = @ - 1]
         /\ lru' = IF buf'[b].refcnt = 0 THEN ToFront(b) ELSE lru
  /\ ToStep(p, "idle", Nobody)
  /\ UNCHANGED <<diskVars, pinned, noBuffers>>

CacheStep(p) ==
  \/ bread(p) \/ bread_filled(p) \/ bwrite_done(p) \/ bunpin(p) \/ brelse(p) \/ brelse_unref(p)
CacheUser(p) ==
  \/ \E k \in Blocks : bget_hit(p, k) \/ bget_recycle(p, k) \/ bget_panic(p, k)
  \/ \E v \in Values : log_write(p, v) \/ bwrite(p, v)

(* After the panic nothing moves. *)
CacheNext ==
  /\ ~noBuffers
  /\ \/ \E p \in DiskProcs : CacheStep(p) \/ CacheUser(p)
     \/ DiskStep /\ UNCHANGED cacheVars

CacheSpec == CacheInit /\ [][CacheNext]_<<diskVars, cacheVars>>

-----------------------------------------------------------------------------
(* Properties *)

(* What a read of block k returns: its cached copy, or the disk *)
Content(k) ==
  LET copies == {b \in Cached(k) : buf[b].valid = 1}
  IN  IF copies = {} THEN sector[k] ELSE bdata[CHOOSE b \in copies : TRUE]

Holders(k) == {p \in DiskProcs : user[p].pc \in {"held", "write"} /\ buf[user[p].b].blockno = k}
HolderOf(k) == IF Holders(k) = {} THEN Nobody ELSE CHOOSE p \in Holders(k) : TRUE

Store == INSTANCE BlockStore WITH
  store <- [k \in Blocks |-> Content(k)],
  holder <- [k \in Blocks |-> HolderOf(k)]

(* The cache is a store of blocks: eviction, fill, pinning and write-back  *)
(* never change what a block reads as, and bread() .. brelse() gives one   *)
(* process at a time the block.                                            *)
IsBlockStore == Store!Spec

(* "Only one copy": a block is in at most one buffer, however many         *)
(* processes miss on it at the same time.                                  *)
OneCopy == \A k \in Blocks : Cardinality(Cached(k)) <= 1

(* The reference count is the number of processes between bget() and       *)
(* brelse() and of pins: no buffer leaks, none is recycled under a user.   *)
RefcntExact ==
  \A b \in Bufs :
    buf[b].refcnt = Cardinality({p \in DiskProcs : user[p].b = b})
                    + (IF buf[b].blockno \in pinned THEN 1 ELSE 0)

(* refcnt counts the users and pins of a buffer of bio.c exactly, no block *)
(* is in two buffers, and bget() panics only when every buffer is in use.  *)
BuffersExact ==
  RefcntExact /\ OneCopy /\ (noBuffers => \A b \in Bufs : buf[b].refcnt > 0)
=============================================================================
