---------------------------- MODULE CacheProofs -----------------------------
(***************************************************************************)
(* The buffer cache keeps exact reference counts and one copy of a block,  *)
(* for any number of buffers, blocks and processes.                        *)
(***************************************************************************)
EXTENDS BufferCache, FiniteSetTheorems, TLAPS

(* The processes between bget() and the end of brelse() of b *)
UsersOf(b) == {p \in DiskProcs : user[p].b = b}
Pins(b) == IF buf[b].blockno \in pinned THEN 1 ELSE 0

BufferType ==
  /\ buf = [b \in Bufs |-> buf[b]]
  /\ \A b \in Bufs :
       /\ {"blockno", "valid", "refcnt", "lock"} \subseteq DOMAIN buf[b]
       /\ buf[b].refcnt \in Nat
UserType ==
  /\ user = [p \in DiskProcs |-> user[p]]
  /\ \A p \in DiskProcs :
       \/ user[p].pc \in {"idle", "panic"} /\ user[p].b = Nobody
       \/ user[p].pc \in {"lock", "fill", "held", "write", "unref"} /\ user[p].b \in Bufs

(* Every buffer is in the list. *)
ListInv == lru \in [1..NBUF -> Bufs] /\ \A b \in Bufs : \E i \in 1..NBUF : lru[i] = b

(* A buffer in use has a block, of which it is the only copy. *)
BlockInv ==
  /\ \A p \in DiskProcs : user[p].b \in Bufs => buf[user[p].b].blockno \in Blocks
  /\ \A b, c \in Bufs : buf[b].blockno \in Blocks /\ buf[b].blockno = buf[c].blockno => b = c

(* Between acquiresleep() and releasesleep() a process has its lock. *)
HoldInv ==
  \A p \in DiskProcs : user[p].pc \in {"fill", "held", "write"} => buf[user[p].b].lock = p

(* A pinned block stays in the cache. *)
PinInv ==
  /\ pinned \subseteq Blocks
  /\ \A k \in pinned : \E b \in Bufs : buf[b].blockno = k

PanicInv == noBuffers => \A b \in Bufs : buf[b].refcnt > 0

CacheInv ==
  /\ BufferType /\ UserType /\ ListInv /\ BlockInv /\ HoldInv /\ PinInv /\ RefcntExact /\ PanicInv

-----------------------------------------------------------------------------
(* What a step does to one buffer and to one process *)

Changes(b, k, r, l) ==
  /\ BufferType'
  /\ buf'[b].blockno = k /\ buf'[b].refcnt = r /\ buf'[b].lock = l
  /\ \A c \in Bufs : c # b => buf'[c] = buf[c]

Moves(p, s, b) ==
  /\ UserType'
  /\ user'[p].pc = s /\ user'[p].b = b
  /\ \A q \in DiskProcs : q # p => user'[q] = user[q]

LEMMA Changed ==
  ASSUME BufferType, NEW b \in Bufs
  PROVE  /\ \A r \in Nat : buf' = [buf EXCEPT ![b].refcnt = r]
              => Changes(b, buf[b].blockno, r, buf[b].lock)
         /\ \A l : buf' = [buf EXCEPT ![b].lock = l]
              => Changes(b, buf[b].blockno, buf[b].refcnt, l)
         /\ \A v : buf' = [buf EXCEPT ![b].valid = v]
              => Changes(b, buf[b].blockno, buf[b].refcnt, buf[b].lock)
         /\ \A k, v : buf' = [buf EXCEPT ![b].blockno = k, ![b].valid = v, ![b].refcnt = 1]
              => Changes(b, k, 1, buf[b].lock)
         /\ buf' = buf => Changes(b, buf[b].blockno, buf[b].refcnt, buf[b].lock)
<1>1. ASSUME NEW r \in Nat, buf' = [buf EXCEPT ![b].refcnt = r]
      PROVE  Changes(b, buf[b].blockno, r, buf[b].lock)
  BY <1>1, Zenon DEF Changes, BufferType
<1>2. ASSUME NEW l, buf' = [buf EXCEPT ![b].lock = l]
      PROVE  Changes(b, buf[b].blockno, buf[b].refcnt, l)
  BY <1>2, Zenon DEF Changes, BufferType
<1>3. ASSUME NEW v, buf' = [buf EXCEPT ![b].valid = v]
      PROVE  Changes(b, buf[b].blockno, buf[b].refcnt, buf[b].lock)
  BY <1>3, Zenon DEF Changes, BufferType
<1>4. ASSUME NEW k, NEW v, buf' = [buf EXCEPT ![b].blockno = k, ![b].valid = v, ![b].refcnt = 1]
      PROVE  Changes(b, k, 1, buf[b].lock)
  BY <1>4, Zenon DEF Changes, BufferType
<1>5. ASSUME buf' = buf PROVE Changes(b, buf[b].blockno, buf[b].refcnt, buf[b].lock)
  BY <1>5, Zenon DEF Changes, BufferType
<1> QED BY <1>1, <1>2, <1>3, <1>4, <1>5, Zenon

LEMMA Moved ==
  ASSUME UserType, NEW p \in DiskProcs, NEW s, NEW b, ToStep(p, s, b),
         \/ s \in {"idle", "panic"} /\ b = Nobody
         \/ s \in {"lock", "fill", "held", "write", "unref"} /\ b \in Bufs
  PROVE  Moves(p, s, b)
BY Zenon DEF ToStep, Moves, UserType

-----------------------------------------------------------------------------
(* How many processes use a buffer *)

Count(b) == Cardinality(UsersOf(b))

LEMMA CountType == ASSUME NEW b PROVE IsFiniteSet(UsersOf(b)) /\ Count(b) \in Nat
<1>1. UsersOf(b) \subseteq DiskProcs
  BY Zenon DEF UsersOf
<1> QED BY <1>1, FS_Subset, FS_CardinalityType, DriverAssumption, Zenon DEF Count

LEMMA CountSame ==
  ASSUME NEW p \in DiskProcs, NEW s, Moves(p, s, user[p].b), NEW c
  PROVE  Count(c)' = Count(c)
<1>1. UsersOf(c)' = UsersOf(c)
  BY Zenon DEF Moves, UsersOf
<1> QED BY <1>1, Zenon DEF Count

LEMMA CountArrives ==
  ASSUME NEW p \in DiskProcs, NEW s, NEW b \in Bufs, user[p].b = Nobody, Moves(p, s, b)
  PROVE  Count(b)' = Count(b) + 1 /\ \A c \in Bufs : c # b => Count(c)' = Count(c)
<1>1. UsersOf(b)' = UsersOf(b) \cup {p} /\ p \notin UsersOf(b)
  BY DriverAssumption, Zenon DEF Moves, UsersOf
<1>2. \A c \in Bufs : c # b => UsersOf(c)' = UsersOf(c)
  BY DriverAssumption, Zenon DEF Moves, UsersOf
<1>3. Cardinality(UsersOf(b) \cup {p}) = Cardinality(UsersOf(b)) + 1
  BY <1>1, CountType, FS_AddElement, Zenon
<1> QED BY <1>1, <1>2, <1>3, Zenon DEF Count

LEMMA CountLeaves ==
  ASSUME NEW p \in DiskProcs, NEW s, NEW b \in Bufs, user[p].b = b, Moves(p, s, Nobody)
  PROVE  Count(b)' = Count(b) - 1 /\ \A c \in Bufs : c # b => Count(c)' = Count(c)
<1>1. UsersOf(b)' = UsersOf(b) \ {p} /\ p \in UsersOf(b)
  BY DriverAssumption, Zenon DEF Moves, UsersOf
<1>2. \A c \in Bufs : c # b => UsersOf(c)' = UsersOf(c)
  BY DriverAssumption, Zenon DEF Moves, UsersOf
<1>3. Cardinality(UsersOf(b) \ {p}) = Cardinality(UsersOf(b)) - 1
  BY <1>1, CountType, FS_RemoveElement, Zenon
<1> QED BY <1>1, <1>2, <1>3, Zenon DEF Count

(* A buffer without reference has no user and is not pinned. *)
LEMMA Unreferenced ==
  ASSUME BufferType, RefcntExact, NEW b \in Bufs
  PROVE  /\ buf[b].refcnt = Count(b) + Pins(b)
         /\ buf[b].refcnt = 0 => Count(b) = 0 /\ buf[b].blockno \notin pinned
                                 /\ \A p \in DiskProcs : user[p].b # b
<1>1. buf[b].refcnt = Count(b) + Pins(b) /\ Pins(b) \in {0, 1}
  BY Zenon DEF RefcntExact, Count, UsersOf, Pins
<1>2. ASSUME buf[b].refcnt = 0
      PROVE  Count(b) = 0 /\ buf[b].blockno \notin pinned /\ \A p \in DiskProcs : user[p].b # b
  <2>1. Count(b) = 0 /\ Pins(b) = 0
    BY <1>1, <1>2, CountType
  <2>2. UsersOf(b) = {}
    BY <2>1, CountType, FS_EmptySet, Zenon DEF Count
  <2> QED BY <2>1, <2>2 DEF Pins, UsersOf
<1> QED BY <1>1, <1>2, Zenon

(* A buffer moved to the front leaves all in the list. *)
LEMMA FrontKeeps ==
  ASSUME ListInv, NEW b \in Bufs
  PROVE  ToFront(b) \in [1..NBUF -> Bufs] /\ \A c \in Bufs : \E i \in 1..NBUF : ToFront(b)[i] = c
<1> DEFINE at == CHOOSE i \in 1..NBUF : lru[i] = b
<1>1. at \in 1..NBUF /\ lru[at] = b
  BY Zenon DEF ListInv
<1> HIDE DEF at
<1>2. ToFront(b) = [i \in 1..NBUF |-> IF i = 1 THEN b ELSE IF i <= at THEN lru[i - 1] ELSE lru[i]]
  BY Zenon DEF ToFront, at
<1>3. ToFront(b) \in [1..NBUF -> Bufs]
  <2>1. lru \in [1..NBUF -> Bufs]
    BY Zenon DEF ListInv
  <2>2. ASSUME NEW i \in 1..NBUF, i # 1 PROVE lru[i - 1] \in Bufs
    <3>1. i - 1 \in 1..NBUF
      BY <2>2, BufsAssumption
    <3> QED BY <2>1, <3>1, Zenon
  <2>3. \A i \in 1..NBUF : (IF i = 1 THEN b ELSE IF i <= at THEN lru[i - 1] ELSE lru[i]) \in Bufs
    BY <2>1, <2>2, Zenon
  <2> QED BY <1>2, <2>3, Zenon
<1>4. ASSUME NEW c \in Bufs PROVE \E i \in 1..NBUF : ToFront(b)[i] = c
  <2>1. PICK j \in 1..NBUF : lru[j] = c
    BY Zenon DEF ListInv
  <2>2. CASE c = b
    BY <1>2, <2>2, BufsAssumption
  <2>3. CASE c # b /\ j < at
    <3>1. j + 1 \in 1..NBUF /\ ToFront(b)[j + 1] = c
      BY <1>1, <1>2, <2>1, <2>3, BufsAssumption
    <3> QED BY <3>1, Zenon
  <2>4. CASE c # b /\ j > at
    <3>1. ToFront(b)[j] = c
      BY <1>1, <1>2, <2>1, <2>4, BufsAssumption
    <3> QED BY <3>1, Zenon
  <2>5. j # at \/ c = b
    BY <1>1, <2>1, Zenon
  <2> QED BY <1>1, <2>2, <2>3, <2>4, <2>5, BufsAssumption
<1> QED BY <1>3, <1>4, Zenon

-----------------------------------------------------------------------------
(* The invariant *)

LEMMA CacheStart == CacheInit => CacheInv
<1> SUFFICES ASSUME CacheInit PROVE CacheInv
  OBVIOUS
<1>1. BufferType /\ UserType /\ BlockInv /\ HoldInv /\ PinInv /\ PanicInv
  BY DriverAssumption, Zenon DEF CacheInit, BufferType, UserType, BlockInv, HoldInv, PinInv, PanicInv
<1>2. ListInv
  <2>1. lru \in [1..NBUF -> Bufs]
    BY BufsAssumption DEF CacheInit
  <2>2. ASSUME NEW b \in Bufs PROVE \E i \in 1..NBUF : lru[i] = b
    <3>1. NBUF + 1 - b \in 1..NBUF /\ lru[NBUF + 1 - b] = b
      BY <2>2, BufsAssumption DEF CacheInit
    <3> QED BY <3>1, Zenon
  <2> QED BY <2>1, <2>2, Zenon DEF ListInv
<1>3. RefcntExact
  <2> SUFFICES ASSUME NEW b \in Bufs PROVE Cardinality(UsersOf(b)) = 0 /\ buf[b].refcnt = 0 /\ pinned = {}
    BY DEF RefcntExact, UsersOf
  <2>1. UsersOf(b) = {}
    BY DriverAssumption, Zenon DEF UsersOf, CacheInit
  <2> QED BY <2>1, FS_EmptySet, Zenon DEF CacheInit
<1> QED BY <1>1, <1>2, <1>3, Zenon DEF CacheInv

(* A step of p that keeps the block, the list and the pins of its buffer *)
LEMMA KeepsBlock ==
  ASSUME CacheInv, ~noBuffers, UNCHANGED <<lru, noBuffers>>,
         NEW p \in DiskProcs, NEW b \in Bufs, NEW s, NEW d, NEW r, NEW l,
         Changes(b, buf[b].blockno, r, l), Moves(p, s, d)
  PROVE  /\ BufferType' /\ UserType' /\ ListInv' /\ PanicInv'
         /\ \A c \in Bufs : buf'[c].blockno = buf[c].blockno
         /\ (user'[p].b \in Bufs => buf[user'[p].b].blockno \in Blocks) => BlockInv'
<1>1. BufferType' /\ UserType' /\ ListInv' /\ PanicInv'
  BY Zenon DEF CacheInv, Changes, Moves, ListInv, PanicInv
<1>2. \A c \in Bufs : buf'[c].blockno = buf[c].blockno
  BY Zenon DEF Changes
<1>3. ASSUME user'[p].b \in Bufs => buf[user'[p].b].blockno \in Blocks PROVE BlockInv'
  BY <1>2, <1>3 DEF CacheInv, BlockInv, Moves
<1> QED BY <1>1, <1>2, <1>3, Zenon

LEMMA HitKeeps ==
  ASSUME CacheInv, ~noBuffers, NEW p \in DiskProcs, NEW k \in Blocks, bget_hit(p, k) PROVE CacheInv'
<1>1. PICK b \in Cached(k) : buf' = [buf EXCEPT ![b].refcnt = @ + 1] /\ ToStep(p, "lock", b)
  BY Zenon DEF bget_hit
<1>2. b \in Bufs /\ buf[b].blockno = k /\ user[p].pc = "idle" /\ UNCHANGED <<lru, pinned, noBuffers>>
  BY <1>1, Zenon DEF Cached, bget_hit
<1>3. BufferType /\ UserType /\ RefcntExact /\ user[p].b = Nobody /\ buf[b].refcnt + 1 \in Nat
  BY <1>2 DEF CacheInv, UserType, BufferType
<1>4. Changes(b, buf[b].blockno, buf[b].refcnt + 1, buf[b].lock) /\ Moves(p, "lock", b)
  BY <1>1, <1>2, <1>3, Changed, Moved, Zenon
<1>5. /\ BufferType' /\ UserType' /\ ListInv' /\ PanicInv' /\ BlockInv'
      /\ \A c \in Bufs : buf'[c].blockno = buf[c].blockno
  BY <1>2, <1>4, KeepsBlock, Zenon DEF Moves
<1>6. HoldInv' /\ PinInv'
  BY <1>2, <1>4, <1>5 DEF CacheInv, HoldInv, PinInv, Moves, Changes, UserType
<1>7. RefcntExact'
  <2>1. Count(b)' = Count(b) + 1 /\ \A c \in Bufs : c # b => Count(c)' = Count(c)
    BY <1>2, <1>3, <1>4, CountArrives, Zenon
  <2>2. \A c \in Bufs : buf[c].refcnt = Count(c) + Pins(c) /\ Pins(c)' = Pins(c)
    BY <1>2, <1>3, <1>5, Unreferenced, Zenon DEF Pins
  <2>3. \A c \in Bufs : buf'[c].refcnt = Count(c)' + Pins(c)'
    BY <1>2, <1>4, <2>1, <2>2, CountType DEF Changes, Pins
  <2> QED BY <2>3, Zenon DEF RefcntExact, Count, UsersOf, Pins
<1> QED BY <1>5, <1>6, <1>7, Zenon DEF CacheInv

LEMMA RecycleKeeps ==
  ASSUME CacheInv, ~noBuffers, NEW p \in DiskProcs, NEW k \in Blocks, bget_recycle(p, k) PROVE CacheInv'
<1>1. PICK b \in LeastRecent :
         buf' = [buf EXCEPT ![b].blockno = k, ![b].valid = 0, ![b].refcnt = 1] /\ ToStep(p, "lock", b)
  BY Zenon DEF bget_recycle
<1>2. /\ b \in Bufs /\ buf[b].refcnt = 0 /\ user[p].pc = "idle" /\ UNCHANGED <<lru, pinned, noBuffers>>
      /\ \A c \in Bufs : buf[c].blockno # k
  BY <1>1 DEF bget_recycle, Cached, LeastRecent, UnusedBuf, CacheInv, ListInv
<1>3. BufferType /\ UserType /\ RefcntExact /\ user[p].b = Nobody
  BY <1>2, Zenon DEF CacheInv, UserType
<1>4. Changes(b, k, 1, buf[b].lock) /\ Moves(p, "lock", b)
  BY <1>1, <1>2, <1>3, Changed, Moved, Zenon
<1>5. Count(b) = 0 /\ buf[b].blockno \notin pinned /\ \A q \in DiskProcs : user[q].b # b
  BY <1>2, <1>3, Unreferenced, Zenon
<1>6. k \notin pinned
  BY <1>2, Zenon DEF CacheInv, PinInv
<1>7. BufferType' /\ UserType' /\ ListInv' /\ PanicInv'
  BY <1>2, <1>4 DEF CacheInv, Changes, Moves, ListInv, PanicInv
<1>8. BlockInv'
  BY <1>2, <1>4, <1>5 DEF CacheInv, BlockInv, Changes, Moves
<1>9. HoldInv'
  BY <1>2, <1>3, <1>4, <1>5 DEF CacheInv, HoldInv, Changes, Moves, UserType
<1>10. PinInv'
  BY <1>2, <1>3, <1>4, <1>5 DEF CacheInv, PinInv, Changes, Moves, UserType
<1>11. RefcntExact'
  <2>1. Count(b)' = Count(b) + 1 /\ \A c \in Bufs : c # b => Count(c)' = Count(c)
    BY <1>2, <1>3, <1>4, CountArrives, Zenon
  <2>2. \A c \in Bufs : buf[c].refcnt = Count(c) + Pins(c)
    BY <1>3, Unreferenced, Zenon
  <2>3. Pins(b)' = 0 /\ \A c \in Bufs : c # b => Pins(c)' = Pins(c)
    BY <1>2, <1>4, <1>6, Zenon DEF Pins, Changes
  <2>4. \A c \in Bufs : buf'[c].refcnt = Count(c)' + Pins(c)'
    BY <1>2, <1>4, <1>5, <2>1, <2>2, <2>3 DEF Changes
  <2> QED BY <2>4, Zenon DEF RefcntExact, Count, UsersOf, Pins
<1> QED BY <1>7, <1>8, <1>9, <1>10, <1>11, Zenon DEF CacheInv

LEMMA PanicKeeps ==
  ASSUME CacheInv, NEW p \in DiskProcs, NEW k \in Blocks, bget_panic(p, k) PROVE CacheInv'
<1>1. UserType /\ user[p].pc = "idle" /\ ToStep(p, "panic", Nobody)
      /\ UNCHANGED <<buf, lru, pinned>> /\ UnusedBuf = {}
  BY Zenon DEF bget_panic, CacheInv
<1>2. Moves(p, "panic", user[p].b)
  <2>1. user[p].b = Nobody
    BY <1>1, Zenon DEF UserType
  <2> QED BY <1>1, <2>1, Moved, Zenon
<1>3. UserType' /\ BufferType' /\ ListInv' /\ BlockInv' /\ HoldInv' /\ PinInv'
  <2>1. BufferType' /\ ListInv'
    BY <1>1, Zenon DEF CacheInv, BufferType, ListInv
  <2>2. user'[p].pc = "panic" /\ user'[p].b = user[p].b /\ \A q \in DiskProcs : q # p => user'[q] = user[q]
    BY <1>2, Zenon DEF Moves
  <2>3. BlockInv'
    BY <1>1, <2>2, Zenon DEF CacheInv, BlockInv
  <2>4. HoldInv'
    BY <1>1, <2>2, Zenon DEF CacheInv, HoldInv
  <2>5. PinInv'
    BY <1>1, <2>2, Zenon DEF CacheInv, PinInv
  <2> QED BY <1>2, <2>1, <2>3, <2>4, <2>5, Zenon DEF Moves
<1>4. PanicInv'
  <2>1. ASSUME NEW b \in Bufs PROVE buf[b].refcnt > 0
    <3>1. PICK i \in 1..NBUF : lru[i] = b
      BY Zenon DEF CacheInv, ListInv
    <3> QED BY <1>1, <3>1 DEF UnusedBuf, CacheInv, BufferType
  <2> QED BY <1>1, <2>1, Zenon DEF PanicInv
<1>5. RefcntExact'
  <2>1. \A c \in Bufs : Count(c)' = Count(c) /\ Pins(c)' = Pins(c) /\ buf'[c].refcnt = buf[c].refcnt
    BY <1>1, <1>2, CountSame, Zenon DEF Pins
  <2> QED BY <2>1, Zenon DEF CacheInv, RefcntExact, Count, UsersOf, Pins
<1> QED BY <1>3, <1>4, <1>5, Zenon DEF CacheInv

(* A process stays with its buffer, and pins or unpins it, or not. *)
Balanced == \A c \in Bufs : buf'[c].refcnt = Count(c) + Pins(c)'

LEMMA StayKeeps ==
  ASSUME CacheInv, ~noBuffers, UNCHANGED <<lru, noBuffers>>,
         NEW p \in DiskProcs, NEW b \in Bufs, user[p].b = b, NEW s, Moves(p, s, b),
         NEW r, NEW l, Changes(b, buf[b].blockno, r, l), HoldInv', PinInv', Balanced
  PROVE  CacheInv'
<1>1. BufferType' /\ UserType' /\ ListInv' /\ PanicInv' /\ BlockInv'
  <2>1. user'[p].b = b /\ buf[b].blockno \in Blocks
    BY Zenon DEF Moves, CacheInv, BlockInv
  <2> QED BY <2>1, KeepsBlock, Zenon
<1>2. \A c \in Bufs : Count(c)' = Count(c)
  BY CountSame, Zenon
<1>3. RefcntExact'
  BY <1>2, Zenon DEF Balanced, RefcntExact, Count, UsersOf, Pins
<1> QED BY <1>1, <1>3, Zenon DEF CacheInv

(* Neither the count nor the pins of a buffer change. *)
LEMMA StaysBalanced ==
  ASSUME CacheInv, NEW b \in Bufs, NEW l, Changes(b, buf[b].blockno, buf[b].refcnt, l), pinned' = pinned
  PROVE  Balanced
<1>1. \A c \in Bufs : buf'[c].refcnt = buf[c].refcnt /\ Pins(c)' = Pins(c)
  BY Zenon DEF Changes, Pins
<1>2. \A c \in Bufs : buf[c].refcnt = Count(c) + Pins(c)
  BY Unreferenced, Zenon DEF CacheInv
<1> QED BY <1>1, <1>2, Zenon DEF Balanced

(* They change together. *)
LEMMA PinsBalanced ==
  ASSUME CacheInv, NEW b \in Bufs, NEW r, NEW l, Changes(b, buf[b].blockno, r, l), buf[b].blockno \in Blocks,
         \A k \in Blocks : k # buf[b].blockno => (k \in pinned' <=> k \in pinned),
         pinned' \subseteq Blocks, r = Count(b) + (IF buf[b].blockno \in pinned' THEN 1 ELSE 0)
  PROVE  Balanced
<1>1. buf'[b].refcnt = r /\ Pins(b)' = IF buf[b].blockno \in pinned' THEN 1 ELSE 0
  BY Zenon DEF Changes, Pins
<1>2. \A c \in Bufs : c # b => buf'[c] = buf[c] /\ buf[c].blockno # buf[b].blockno
  BY Zenon DEF Changes, CacheInv, BlockInv
<1>3. \A c \in Bufs : c # b => (buf[c].blockno \in pinned' <=> buf[c].blockno \in pinned)
  BY <1>2, Zenon DEF CacheInv, PinInv
<1>4. \A c \in Bufs : c # b => Pins(c)' = Pins(c) /\ buf'[c].refcnt = buf[c].refcnt
  BY <1>2, <1>3, Zenon DEF Pins
<1>5. \A c \in Bufs : buf[c].refcnt = Count(c) + Pins(c)
  BY Unreferenced, Zenon DEF CacheInv
<1> QED BY <1>1, <1>4, <1>5, Zenon DEF Balanced

(* The steps of a process with its buffer *)
LEMMA HolderKeeps ==
  ASSUME CacheInv, ~noBuffers, NEW p \in DiskProcs, 
         \/ bread(p) \/ bread_filled(p) \/ bwrite_done(p) \/ bunpin(p) \/ brelse(p)
         \/ \E v \in Values : log_write(p, v) \/ bwrite(p, v)
  PROVE  CacheInv'
<1>b. PICK b : user[p].b = b
  OBVIOUS
<1>k. PICK k : buf[b].blockno = k
  OBVIOUS
<1>1. /\ b \in Bufs /\ k \in Blocks /\ user[p].b = b /\ buf[b].blockno = k
      /\ BufferType /\ UserType /\ HoldInv /\ PinInv /\ RefcntExact /\ BlockInv
      /\ Pins(b) = IF k \in pinned THEN 1 ELSE 0
      /\ UNCHANGED <<lru, noBuffers>>
  BY <1>b, <1>k, Zenon DEF CacheInv, UserType, BlockInv, Pins, bread, bread_filled, bwrite, bwrite_done,
                        bunpin, brelse, log_write
<1>2. buf[b].refcnt \in Nat /\ buf[b].refcnt = Count(b) + Pins(b) /\ Count(b) \in Nat
  BY <1>1, Unreferenced, CountType, Zenon DEF BufferType
<1>3. \A q \in DiskProcs : user[q].pc \in {"fill", "held", "write"} /\ user[q].b = b => buf[b].lock = q
  BY <1>1, Zenon DEF HoldInv
<1>4. CASE bread(p)
  <2>1. /\ buf' = [buf EXCEPT ![b].lock = p] /\ buf[b].lock = Nobody /\ pinned' = pinned
        /\ \E s \in {"held", "fill"} : ToStep(p, s, b)
    BY <1>1, <1>4, Zenon DEF bread
  <2>2. PICK s \in {"held", "fill"} : ToStep(p, s, b)
    BY <2>1, Zenon
  <2>3. Changes(b, k, buf[b].refcnt, p) /\ Moves(p, s, b)
    BY <1>1, <2>1, <2>2, Changed, Moved, Zenon
  <2>4. HoldInv'
    BY <1>1, <1>3, <2>1, <2>3, DriverAssumption DEF HoldInv, Changes, Moves, UserType
  <2>5. PinInv'
    BY <1>1, <2>1, <2>2, <2>3 DEF PinInv, Changes, Moves, UserType
  <2>6. Balanced
    BY <1>1, <2>1, <2>3, StaysBalanced, Zenon
  <2> QED BY <1>1, <2>3, <2>4, <2>5, <2>6, StayKeeps, Zenon
<1>5. CASE bread_filled(p)
  <2>1. buf' = [buf EXCEPT ![b].valid = 1] /\ pinned' = pinned /\ ToStep(p, "held", b) /\ user[p].pc = "fill"
    BY <1>1, <1>5, Zenon DEF bread_filled
  <2>2. Changes(b, k, buf[b].refcnt, buf[b].lock) /\ Moves(p, "held", b)
    BY <1>1, <2>1, Changed, Moved, Zenon
  <2>3. HoldInv'
    BY <1>1, <1>3, <2>1, <2>2 DEF HoldInv, Changes, Moves, UserType
  <2>4. PinInv'
    BY <1>1, <2>1, <2>2 DEF PinInv, Changes, Moves, UserType
  <2>5. Balanced
    BY <1>1, <2>1, <2>2, StaysBalanced, Zenon
  <2> QED BY <1>1, <2>2, <2>3, <2>4, <2>5, StayKeeps, Zenon
<1>6. CASE bwrite_done(p) \/ \E v \in Values : bwrite(p, v)
  <2>1. /\ buf' = buf /\ pinned' = pinned /\ user[p].pc \in {"held", "write"}
        /\ \E s \in {"held", "write"} : ToStep(p, s, b)
    BY <1>1, <1>6, Zenon DEF bwrite, bwrite_done
  <2>s. PICK s \in {"held", "write"} : ToStep(p, s, b)
    BY <2>1, Zenon
  <2>2. Changes(b, k, buf[b].refcnt, buf[b].lock) /\ Moves(p, s, b)
    BY <1>1, <2>1, <2>s, Changed, Moved, Zenon
  <2>3. HoldInv'
    BY <1>1, <1>3, <2>1, <2>2 DEF HoldInv, Changes, Moves, UserType
  <2>4. PinInv'
    BY <1>1, <2>1, <2>2 DEF PinInv, Changes, Moves, UserType
  <2>5. Balanced
    BY <1>1, <2>1, <2>2, StaysBalanced, Zenon
  <2> QED BY <1>1, <2>2, <2>3, <2>4, <2>5, StayKeeps, Zenon
<1>7. CASE brelse(p)
  <2>1. buf' = [buf EXCEPT ![b].lock = Nobody] /\ pinned' = pinned /\ ToStep(p, "unref", b)
        /\ user[p].pc = "held"
    BY <1>1, <1>7, Zenon DEF brelse
  <2>2. Changes(b, k, buf[b].refcnt, Nobody) /\ Moves(p, "unref", b)
    BY <1>1, <2>1, Changed, Moved, Zenon
  <2>3. HoldInv'
    BY <1>1, <1>3, <2>1, <2>2 DEF HoldInv, Changes, Moves, UserType
  <2>4. PinInv'
    BY <1>1, <2>1, <2>2 DEF PinInv, Changes, Moves, UserType
  <2>5. Balanced
    BY <1>1, <2>1, <2>2, StaysBalanced, Zenon
  <2> QED BY <1>1, <2>2, <2>3, <2>4, <2>5, StayKeeps, Zenon
<1>8. CASE bunpin(p)
  <2>1. buf' = [buf EXCEPT ![b].refcnt = @ - 1] /\ pinned' = pinned \ {k} /\ ToStep(p, "held", b)
        /\ user[p].pc = "write" /\ k \in pinned
    BY <1>1, <1>8, Zenon DEF bunpin
  <2>2. Pins(b) = 1 /\ buf[b].refcnt - 1 \in Nat
    BY <1>1, <1>2, <2>1
  <2>3. Changes(b, k, buf[b].refcnt - 1, buf[b].lock) /\ Moves(p, "held", b)
    BY <1>1, <2>1, <2>2, Changed, Moved, Zenon
  <2>4. HoldInv'
    BY <1>1, <1>3, <2>1, <2>3 DEF HoldInv, Changes, Moves, UserType
  <2>6. PinInv'
    <3>1. \A c \in Bufs : buf'[c].blockno = buf[c].blockno
      BY <1>1, <2>3, Zenon DEF Changes
    <3>2. pinned' \subseteq pinned /\ pinned \subseteq Blocks
      BY <1>1, <2>1, Zenon DEF PinInv
    <3>3. \A h \in pinned : \E c \in Bufs : buf[c].blockno = h
      BY <1>1, Zenon DEF PinInv
    <3> QED BY <3>1, <3>2, <3>3, Zenon DEF PinInv
  <2>7. /\ buf[b].refcnt - 1 = Count(b) + (IF k \in pinned' THEN 1 ELSE 0) /\ pinned' \subseteq Blocks
        /\ \A h \in Blocks : h # k => (h \in pinned' <=> h \in pinned)
    BY <1>1, <1>2, <2>1, <2>2 DEF PinInv
  <2>8. Balanced
    BY <1>1, <2>3, <2>7, PinsBalanced, Zenon
  <2> QED BY <1>1, <2>3, <2>4, <2>6, <2>8, StayKeeps, Zenon
<1>9. ASSUME NEW v \in Values, log_write(p, v) PROVE CacheInv'
  <2>0. PICK r : r = IF k \in pinned THEN buf[b].refcnt ELSE buf[b].refcnt + 1
    OBVIOUS
  <2>1. pinned' = pinned \cup {k} /\ user' = user /\ user[p].pc = "held"
        /\ buf' = IF k \in pinned THEN buf ELSE [buf EXCEPT ![b].refcnt = @ + 1]
    BY <1>1, <1>9, Zenon DEF log_write
  <2>2. Changes(b, k, r, buf[b].lock)
    <3>1. CASE k \in pinned
      BY <1>1, <2>0, <2>1, <3>1, Changed, Zenon
    <3>2. CASE k \notin pinned
      <4>1. buf' = [buf EXCEPT ![b].refcnt = r] /\ r \in Nat
        BY <1>2, <2>0, <2>1, <3>2
      <4> QED BY <1>1, <4>1, Changed, Zenon
    <3> QED BY <3>1, <3>2, Zenon
  <2>3. Moves(p, "held", b)
    BY <1>1, <2>1, Zenon DEF Moves, UserType
  <2>4. HoldInv'
    BY <1>1, <1>3, <2>1, <2>2, <2>3 DEF HoldInv, Changes, Moves, UserType
  <2>5. PinInv'
    <3>1. \A c \in Bufs : buf'[c].blockno = buf[c].blockno
      BY <1>1, <2>2, Zenon DEF Changes
    <3>2. pinned' \subseteq Blocks
      BY <1>1, <2>1, Zenon DEF PinInv
    <3>3. \A h \in pinned' : \E c \in Bufs : buf'[c].blockno = h
      BY <1>1, <2>1, <3>1 DEF PinInv
    <3> QED BY <3>2, <3>3, Zenon DEF PinInv
  <2>6. /\ r = Count(b) + (IF k \in pinned' THEN 1 ELSE 0) /\ pinned' \subseteq Blocks
        /\ \A h \in Blocks : h # k => (h \in pinned' <=> h \in pinned)
    BY <1>1, <1>2, <2>0, <2>1 DEF PinInv
  <2>7. Balanced
    BY <1>1, <2>2, <2>6, PinsBalanced, Zenon
  <2> QED BY <1>1, <2>2, <2>3, <2>4, <2>5, <2>7, StayKeeps, Zenon
<1> QED BY <1>4, <1>5, <1>6, <1>7, <1>8, <1>9, Zenon

LEMMA UnrefKeeps ==
  ASSUME CacheInv, ~noBuffers, NEW p \in DiskProcs, brelse_unref(p) PROVE CacheInv'
<1>0. PICK b \in Bufs : user[p].b = b
  BY Zenon DEF CacheInv, UserType, brelse_unref
<1>1. /\ user[p].pc = "unref" /\ b \in Bufs /\ user[p].b = b /\ UNCHANGED <<pinned, noBuffers>>
      /\ BufferType /\ UserType /\ HoldInv /\ PinInv /\ RefcntExact /\ BlockInv /\ ListInv
      /\ buf' = [buf EXCEPT ![b].refcnt = @ - 1] /\ ToStep(p, "idle", Nobody)
      /\ lru' = lru \/ lru' = ToFront(b)
  BY <1>0, Zenon DEF CacheInv, brelse_unref
<1>2. /\ Moves(p, "idle", Nobody)
      /\ Count(b)' = Count(b) - 1 /\ \A c \in Bufs : c # b => Count(c)' = Count(c)
  <2>1. Moves(p, "idle", Nobody)
    BY <1>1, Moved, Zenon
  <2> QED BY <1>1, <2>1, CountLeaves, Zenon
<1>3. buf[b].refcnt = Count(b) + Pins(b) /\ Count(b) \in Nat \ {0} /\ Pins(b) \in {0, 1}
  <2>1. buf[b].refcnt = Count(b) + Pins(b) /\ Pins(b) \in {0, 1} /\ Count(b) \in Nat
    BY <1>1, Unreferenced, CountType, Zenon DEF Pins
  <2>2. p \in UsersOf(b)
    BY <1>1, Zenon DEF UsersOf
  <2>3. Count(b) # 0
    BY <2>2, CountType, FS_EmptySet, Zenon DEF Count
  <2> QED BY <2>1, <2>3, Zenon
<1>4. Changes(b, buf[b].blockno, buf[b].refcnt - 1, buf[b].lock)
  <2>1. buf[b].refcnt - 1 \in Nat
    BY <1>3
  <2> QED BY <1>1, <2>1, Changed, Zenon
<1>5. \A c \in Bufs : buf'[c].blockno = buf[c].blockno
  BY <1>1, <1>4, Zenon DEF Changes
<1>6. BufferType' /\ UserType' /\ PanicInv'
  BY <1>1, <1>2, <1>4, Zenon DEF Changes, Moves, PanicInv
<1>7. BlockInv' /\ PinInv'
  BY <1>1, <1>2, <1>5, DriverAssumption DEF BlockInv, PinInv, Moves, UserType
<1>8. HoldInv'
  BY <1>1, <1>2, <1>4 DEF HoldInv, Moves, Changes, UserType
<1>9. ListInv'
  <2>1. CASE lru' = lru
    BY <1>1, <2>1, Zenon DEF ListInv
  <2>2. CASE lru' = ToFront(b)
    BY <1>1, <2>2, FrontKeeps, Zenon DEF ListInv
  <2> QED BY <1>1, <2>1, <2>2, Zenon
<1>10. RefcntExact'
  <2>1. \A c \in Bufs : Pins(c)' = Pins(c) /\ buf[c].refcnt = Count(c) + Pins(c)
    BY <1>1, <1>5, Unreferenced DEF Pins
  <2>2. \A c \in Bufs : c # b => buf'[c].refcnt = buf[c].refcnt
    BY <1>4, Zenon DEF Changes
  <2>3. buf'[b].refcnt = buf[b].refcnt - 1
    BY <1>4, Zenon DEF Changes
  <2>4. \A c \in Bufs : buf'[c].refcnt = Count(c)' + Pins(c)'
    <3>1. \A c \in Bufs : c # b => buf'[c].refcnt = Count(c)' + Pins(c)'
      BY <1>2, <2>1, <2>2, Zenon
    <3>2. buf'[b].refcnt = Count(b)' + Pins(b)'
      BY <1>1, <1>2, <1>3, <2>1, <2>3
    <3> QED BY <3>1, <3>2, Zenon
  <2> QED BY <2>4, Zenon DEF RefcntExact, Count, UsersOf, Pins
<1> QED BY <1>6, <1>7, <1>8, <1>9, <1>10, Zenon DEF CacheInv

LEMMA CacheNextKeeps ==
  ASSUME CacheInv, [CacheNext]_<<diskVars, cacheVars>> PROVE CacheInv'
<1>1. CASE UNCHANGED cacheVars
  <2>1. UNCHANGED <<buf, lru, user, pinned, noBuffers>>
    BY <1>1, Zenon DEF cacheVars
  <2>2. BufferType' /\ UserType' /\ ListInv' /\ PanicInv'
    BY <2>1, Zenon DEF CacheInv, BufferType, UserType, ListInv, PanicInv
  <2>3. BlockInv' /\ HoldInv' /\ PinInv'
    BY <2>1, Zenon DEF CacheInv, BlockInv, HoldInv, PinInv
  <2>4. RefcntExact'
    BY <2>1, Zenon DEF CacheInv, RefcntExact
  <2> QED BY <2>2, <2>3, <2>4, Zenon DEF CacheInv
<1>2. ASSUME ~noBuffers, NEW p \in DiskProcs, CacheStep(p) \/ CacheUser(p) PROVE CacheInv'
  BY <1>2, HitKeeps, RecycleKeeps, PanicKeeps, HolderKeeps, UnrefKeeps, Zenon DEF CacheStep, CacheUser
<1> QED BY <1>1, <1>2, Zenon DEF CacheNext

(* The invariant of the cache holds in every execution. *)
THEOREM CacheInvariance == CacheSpec => []CacheInv
<1>1. CacheInv /\ [CacheNext]_<<diskVars, cacheVars>> => CacheInv'
  BY CacheNextKeeps, Zenon
<1> QED BY <1>1, CacheStart, PTL DEF CacheSpec

(* refcnt of bio.c counts the users and pins of a buffer exactly, no block *)
(* is in two buffers, and bget() panics only when every buffer is in use.  *)
THEOREM CacheExact == CacheSpec => []BuffersExact
<1>1. CacheInv => BuffersExact
  <2> SUFFICES ASSUME CacheInv, NEW k \in Blocks PROVE Cardinality(Cached(k)) <= 1
    BY Zenon DEF BuffersExact, CacheInv, PanicInv, OneCopy
  <2>1. CASE Cached(k) = {}
    BY <2>1, FS_EmptySet
  <2>2. ASSUME NEW b \in Cached(k) PROVE Cardinality(Cached(k)) = 1
    <3>1. Cached(k) = {b}
      BY Zenon DEF Cached, CacheInv, BlockInv
    <3> QED BY <3>1, FS_Singleton, Zenon
  <2> QED BY <2>1, <2>2
<1> QED BY <1>1, CacheInvariance, PTL
=============================================================================
