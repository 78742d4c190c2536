----------------------------- MODULE DiskProofs -----------------------------
(***************************************************************************)
(* The disk driver of kernel/virtio_disk.c keeps track of descriptors and  *)
(* requests, for any number of processes, buffers and descriptors and any  *)
(* width of the ring indices that the number of descriptors divides.       *)
(***************************************************************************)
EXTENDS VirtioDisk, FiniteSetTheorems, WellFoundedInduction, TLAPS

-----------------------------------------------------------------------------
(* Ring indices.  A counter is a natural number; the driver keeps it       *)
(* modulo IDX, and its slot in a ring is its remainder by NUM.             *)

Slot(a) == a % NUM
Index(a) == a % IDX

LEMMA Remainder ==
  ASSUME NEW P \in Nat \ {0}, NEW a \in Int
  PROVE  a % P \in 0..P - 1 /\ a \div P \in Int /\ a = P * (a \div P) + (a % P)
  OBVIOUS

(* Numbers that differ by a multiple leave the same remainder. *)
LEMMA SameRemainder ==
  ASSUME NEW P \in Nat \ {0}, NEW a \in Int, NEW b \in Int, NEW e \in Int, a = b + P * e
  PROVE  a % P = b % P
<1> DEFINE q == a \div P
           d == b \div P
           r == a % P
           m == b % P
<1>1. q \in Int /\ r \in 0..P - 1 /\ a = P * q + r
  BY Remainder, Zenon
<1>2. d \in Int /\ m \in 0..P - 1 /\ b = P * d + m
  BY Remainder, Zenon
<1> HIDE DEF q, d, r, m
<1> DEFINE k == q - d - e
<1>3. k \in Int /\ P * k = m - r
  BY <1>1, <1>2
<1> HIDE DEF k
<1>4. k >= 1 => P * k >= P
  BY <1>3
<1>5. k <= -1 => P * k <= -P
  BY <1>3
<1>6. k = 0
  BY <1>1, <1>2, <1>3, <1>4, <1>5
<1>7. m = r
  BY <1>1, <1>2, <1>3, <1>6
<1> QED BY <1>7, Zenon DEF m, r

(* Numbers closer than P leave different remainders. *)
LEMMA RemaindersDiffer ==
  ASSUME NEW P \in Nat \ {0}, NEW a \in Nat, NEW b \in Nat, a < b, b < a + P
  PROVE  a % P # b % P
<1> SUFFICES ASSUME a % P = b % P PROVE FALSE
  OBVIOUS
<1> DEFINE q == a \div P
           d == b \div P
           r == a % P
           k == d - q
<1>0. a \in Int /\ b \in Int
  OBVIOUS
<1>a. q \in Int /\ r \in Int /\ a = P * q + r
  BY Remainder
<1>b. d \in Int /\ b = P * d + r
  BY <1>0, Remainder, Zenon
<1> HIDE DEF q, d, r
<1>1. k \in Int /\ P * k = b - a
  BY <1>a, <1>b
<1> HIDE DEF k
<1>2. k >= 1 => P * k >= P
  BY <1>1
<1>3. k <= 0 => P * k <= 0
  BY <1>1
<1> QED BY <1>1, <1>2, <1>3

(* A set of natural numbers has a least element. *)
LEMMA LeastExists ==
  ASSUME NEW T \in SUBSET Nat, T # {}
  PROVE  \E x \in T : \A y \in T : x <= y
<1> DEFINE R == OpToRel(<, Nat)
<1>1. \E x \in T : \A y \in T : ~(<<y, x>> \in R)
  <2>1. IsWellFoundedOn(R, Nat)
    BY NatLessThanWellFounded, Zenon
  <2> HIDE DEF R
  <2> QED BY <2>1, WFMin, Zenon
<1>2. \A x, y \in Nat : y < x => <<y, x>> \in R
  BY DEF OpToRel
<1> HIDE DEF R
<1>3. PICK x \in T : \A y \in T : ~(<<y, x>> \in R)
  BY <1>1, Zenon
<1>4. \A y \in T : ~(y < x)
  BY <1>2, <1>3, Zenon
<1>5. \A y \in T : x <= y
  BY <1>4
<1> QED BY <1>5, Zenon

LEMMA Sizes == NUM \in Nat \ {0} /\ IDX \in Nat \ {0} /\ NUM >= 3 /\ IDX >= NUM
BY RingAssumption

(* What the driver computes with its indices *)
LEMMA IndexFacts ==
  ASSUME NEW a \in Nat
  PROVE  /\ Slot(a) \in Ids
         /\ Index(a) % NUM = Slot(a)
         /\ (Index(a) + 1) % IDX = Index(a + 1)
<1>1. Slot(a) \in Ids
  BY Sizes, Remainder DEF Slot, Ids
<1> DEFINE q == a \div IDX
           r == a % IDX
           m == IDX \div NUM
<1>2. q \in Int /\ r \in 0..IDX - 1 /\ a = IDX * q + r
  BY Sizes, Remainder
<1>3. m \in Int /\ IDX = NUM * m
  BY Sizes, Remainder, RingAssumption
<1>4. r % NUM = a % NUM
  <2> HIDE DEF q, r, m
  <2>1. PICK e \in Int : e = m * q
    BY <1>2, <1>3
  <2>2. a = r + NUM * e /\ a \in Int /\ r \in Int
    BY <1>2, <1>3, <2>1, Sizes
  <2> QED BY <2>1, <2>2, Sizes, SameRemainder, Zenon
<1>5. (r + 1) % IDX = (a + 1) % IDX
  <2> HIDE DEF q, r
  <2>1. a + 1 = (r + 1) + IDX * q /\ r + 1 \in Int /\ a + 1 \in Int
    BY <1>2, Sizes
  <2> QED BY <1>2, <2>1, Sizes, SameRemainder, Zenon
<1> QED BY <1>1, <1>4, <1>5, Zenon DEF Slot, Index

LEMMA IndexDiffers ==
  ASSUME NEW a \in Nat, NEW n \in Nat, n < IDX, Index(a) = Index(a + n)
  PROVE  n = 0
<1> SUFFICES ASSUME n # 0 PROVE FALSE
  OBVIOUS
<1>1. a + n \in Nat /\ a < a + n /\ a + n < a + IDX
  BY Sizes
<1> QED BY <1>1, Sizes, RemaindersDiffer, Zenon DEF Index

LEMMA SlotDiffers ==
  ASSUME NEW a \in Nat, NEW i \in Nat, NEW j \in Nat, i < j, j < i + NUM
  PROVE  Slot(a + i) # Slot(a + j)
<1>1. a + i \in Nat /\ a + j \in Nat /\ a + i < a + j /\ a + j < (a + i) + NUM
  BY Sizes
<1> QED BY <1>1, Sizes, RemaindersDiffer, Zenon DEF Slot

-----------------------------------------------------------------------------
(* Rings *)

(* The entries of a ring *)
Entries(ring) == {i \in Ids : \E k \in Ids : ring[k] = i}

(* The ring has entries in n slots from that of s on, and no other. *)
HasEntries(ring, s, n) ==
  /\ DOMAIN ring = Ids
  /\ \A k \in Ids : ring[k] \in Ids \cup {Nobody}
  /\ \A k \in Ids : ring[k] # Nobody <=> \E j \in 0..n - 1 : k = Slot(s + j)
  /\ \A k, l \in Ids : ring[k] = ring[l] /\ ring[k] # Nobody => k = l
  /\ Cardinality(Entries(ring)) = n

(* The ring new is ring with x in the slot of a. *)
Stored(new, ring, a, x) == new = [ring EXCEPT ![Slot(a)] = x]

LEMMA IdsFinite == IsFiniteSet(Ids) /\ Cardinality(Ids) = NUM
<1>1. NUM - 1 \in Int /\ NUM - 1 - 0 + 1 = NUM /\ NUM - 1 >= 0
  BY Sizes
<1> QED BY <1>1, FS_Interval DEF Ids

(* An entry is put behind the last one. *)
LEMMA RingPut ==
  ASSUME NEW ring, NEW s \in Nat, NEW n \in Nat, HasEntries(ring, s, n), NEW x \in Ids, x \notin Entries(ring),
         NEW y \in Ids, y \notin Entries(ring), y # x, NEW new, Stored(new, ring, s + n, x)
  PROVE  HasEntries(new, s, n + 1) /\ Entries(new) = Entries(ring) \cup {x} /\ n + 1 < NUM
<1>1. /\ DOMAIN ring = Ids /\ \A k \in Ids : ring[k] \in Ids \cup {Nobody}
      /\ \A k \in Ids : ring[k] # Nobody <=> \E j \in 0..n - 1 : k = Slot(s + j)
      /\ \A k, l \in Ids : ring[k] = ring[l] /\ ring[k] # Nobody => k = l
      /\ Cardinality(Entries(ring)) = n
  BY Zenon DEF HasEntries
<1>2. n + 2 <= NUM
  <2>1. IsFiniteSet(Entries(ring)) /\ Entries(ring) \subseteq Ids
    BY IdsFinite, FS_Subset, Zenon DEF Entries
  <2>2. /\ Entries(ring) \cup {x} \subseteq Ids /\ y \notin Entries(ring) \cup {x}
        /\ IsFiniteSet(Entries(ring) \cup {x}) /\ Cardinality(Entries(ring) \cup {x}) = n + 1
    BY <1>1, <2>1, FS_AddElement, Zenon
  <2>3. /\ (Entries(ring) \cup {x}) \cup {y} \subseteq Ids
        /\ Cardinality((Entries(ring) \cup {x}) \cup {y}) = n + 1 + 1
    BY <2>2, FS_AddElement, Zenon
  <2>4. Cardinality((Entries(ring) \cup {x}) \cup {y}) <= Cardinality(Ids)
    BY <2>3, IdsFinite, FS_Subset, Zenon
  <2> QED BY <2>3, <2>4, IdsFinite
<1>3. PICK z : z = Slot(s + n)
  OBVIOUS
<1>4. z \in Ids /\ ring[z] = Nobody
  <2>1. s + n \in Nat
    OBVIOUS
  <2>2. ASSUME NEW j \in 0..n - 1 PROVE Slot(s + j) # Slot(s + n)
    <3>1. j \in Nat /\ j < n /\ n < j + NUM
      BY <1>2, Sizes
    <3> QED BY <3>1, SlotDiffers, Zenon
  <2> QED BY <1>1, <1>3, <2>1, <2>2, IndexFacts, Zenon
<1>5. DOMAIN new = Ids /\ new[z] = x /\ \A k \in Ids : k # z => new[k] = ring[k]
  BY <1>1, <1>3, <1>4, Zenon DEF Stored
<1>6. x # Nobody /\ \A k \in Ids : ring[k] # x
  BY DriverAssumption, Zenon DEF Entries, Ids
<1>7. Entries(new) = Entries(ring) \cup {x}
  <2>1. \A k \in Ids : new[k] = ring[k] \/ new[k] = x
    BY <1>5, Zenon
  <2>2. ASSUME NEW k \in Ids, ring[k] \in Ids PROVE new[k] = ring[k]
    BY <1>4, <1>5, <2>2, DriverAssumption, Zenon DEF Ids
  <2>3. \A i \in Ids : i \in Entries(new) => i \in Entries(ring) \cup {x}
    BY <2>1, Zenon DEF Entries
  <2>4. \A i \in Ids : i \in Entries(ring) \cup {x} => i \in Entries(new)
    BY <1>4, <1>5, <2>2, Zenon DEF Entries
  <2> QED BY <2>3, <2>4, Zenon DEF Entries
<1>8. Cardinality(Entries(new)) = n + 1
  <2>1. IsFiniteSet(Entries(ring))
    BY IdsFinite, FS_Subset, Zenon DEF Entries
  <2>2. Cardinality(Entries(ring) \cup {x}) = Cardinality(Entries(ring)) + 1
    BY <2>1, FS_AddElement, Zenon
  <2> QED BY <1>1, <1>7, <2>2, Zenon
<1>9. ASSUME NEW k \in Ids
      PROVE  new[k] # Nobody <=> \E j \in 0..(n + 1) - 1 : k = Slot(s + j)
  <2>1. \A j : j \in 0..(n + 1) - 1 <=> j = n \/ j \in 0..n - 1
    OBVIOUS
  <2> QED BY <1>1, <1>3, <1>4, <1>5, <1>6, <2>1, ZenonT(30)
<1>10. \A k, l \in Ids : new[k] = new[l] /\ new[k] # Nobody => k = l
  BY <1>1, <1>5, <1>6, Zenon
<1>11. \A k \in Ids : new[k] \in Ids \cup {Nobody}
  BY <1>1, <1>5, Zenon
<1>12. HasEntries(new, s, n + 1)
  BY <1>5, <1>8, <1>9, <1>10, <1>11, Zenon DEF HasEntries
<1>13. n + 1 < NUM
  BY <1>2, Sizes
<1> QED BY <1>7, <1>12, <1>13, Zenon

(* The first entry is taken out. *)
LEMMA RingGet ==
  ASSUME NEW ring, NEW s \in Nat, NEW n \in Nat \ {0}, HasEntries(ring, s, n),
         NEW new, Stored(new, ring, s, Nobody)
  PROVE  /\ HasEntries(new, s + 1, n - 1) /\ Entries(new) = Entries(ring) \ {ring[Slot(s)]}
         /\ ring[Slot(s)] \in Entries(ring) /\ n <= NUM
<1>1. /\ DOMAIN ring = Ids /\ \A k \in Ids : ring[k] \in Ids \cup {Nobody}
      /\ \A k \in Ids : ring[k] # Nobody <=> \E j \in 0..n - 1 : k = Slot(s + j)
      /\ \A k, l \in Ids : ring[k] = ring[l] /\ ring[k] # Nobody => k = l
      /\ Cardinality(Entries(ring)) = n
  BY Zenon DEF HasEntries
<1>2. IsFiniteSet(Entries(ring)) /\ n <= NUM
  BY <1>1, IdsFinite, FS_Subset, Zenon DEF Entries
<1>3. PICK z : z = Slot(s)
  OBVIOUS
<1>4. PICK x : x = ring[z]
  OBVIOUS
<1>5. z \in Ids /\ x \in Ids /\ x # Nobody
  <2>1. 0 \in 0..n - 1 /\ s + 0 = s
    OBVIOUS
  <2>2. z \in Ids /\ ring[z] # Nobody
    BY <1>1, <1>3, <2>1, IndexFacts, Zenon
  <2> QED BY <1>1, <1>4, <2>2, Zenon
<1>6. DOMAIN new = Ids /\ new[z] = Nobody /\ \A k \in Ids : k # z => new[k] = ring[k]
  BY <1>1, <1>3, <1>5, Zenon DEF Stored
<1>7. Entries(new) = Entries(ring) \ {x} /\ x \in Entries(ring)
  <2>1. x \in Entries(ring)
    BY <1>4, <1>5, Zenon DEF Entries
  <2>2. ASSUME NEW k \in Ids, new[k] \in Ids PROVE new[k] = ring[k] /\ new[k] # x
    <3>1. k # z /\ new[k] # Nobody
      BY <1>6, <2>2, DriverAssumption, Zenon DEF Ids
    <3> QED BY <1>1, <1>4, <1>5, <1>6, <3>1, Zenon
  <2>3. ASSUME NEW k \in Ids, ring[k] # x PROVE new[k] = ring[k]
    BY <1>4, <1>6, <2>3, Zenon
  <2>4. \A i \in Ids : i \in Entries(new) => i \in Entries(ring) \ {x}
    BY <2>2, Zenon DEF Entries
  <2>5. \A i \in Ids : i \in Entries(ring) \ {x} => i \in Entries(new)
    BY <2>3, Zenon DEF Entries
  <2> QED BY <2>1, <2>4, <2>5, Zenon DEF Entries
<1>8. Cardinality(Entries(new)) = n - 1
  BY <1>1, <1>2, <1>7, FS_RemoveElement, Zenon
<1>9. ASSUME NEW k \in Ids
      PROVE  new[k] # Nobody <=> \E j \in 0..(n - 1) - 1 : k = Slot((s + 1) + j)
  <2>1. ASSUME k = z, NEW j \in 0..(n - 1) - 1 PROVE k # Slot((s + 1) + j)
    <3>1. j + 1 \in Nat /\ 0 < j + 1 /\ j + 1 < 0 + NUM /\ s + 0 = s /\ s + (j + 1) = (s + 1) + j /\ 0 \in Nat
      BY <1>2, Sizes
    <3>2. Slot(s + 0) # Slot(s + (j + 1))
      BY <3>1, SlotDiffers, Zenon
    <3> QED BY <1>3, <2>1, <3>1, <3>2, Zenon
  <2>2. ASSUME k # z, NEW j \in 0..n - 1, k = Slot(s + j)
        PROVE  \E i \in 0..(n - 1) - 1 : k = Slot((s + 1) + i)
    <3>1. j # 0
      BY <1>3, <2>2
    <3>2. j - 1 \in 0..(n - 1) - 1 /\ (s + 1) + (j - 1) = s + j
      BY <3>1
    <3> QED BY <2>2, <3>2, Zenon
  <2>3. ASSUME NEW i \in 0..(n - 1) - 1, k = Slot((s + 1) + i)
        PROVE  \E j \in 0..n - 1 : k = Slot(s + j)
    <3>1. i + 1 \in 0..n - 1 /\ s + (i + 1) = (s + 1) + i
      OBVIOUS
    <3> QED BY <2>3, <3>1, Zenon
  <2> QED BY <1>1, <1>6, <2>1, <2>2, <2>3, Zenon
<1>10. \A k, l \in Ids : new[k] = new[l] /\ new[k] # Nobody => k = l
  BY <1>1, <1>6, Zenon
<1>11. \A k \in Ids : new[k] \in Ids \cup {Nobody}
  BY <1>1, <1>6, Zenon
<1>12. HasEntries(new, s + 1, n - 1)
  BY <1>6, <1>8, <1>9, <1>10, <1>11, Zenon DEF HasEntries
<1> QED BY <1>2, <1>3, <1>4, <1>7, <1>12, Zenon

-----------------------------------------------------------------------------
(* The invariant *)

DiskFields ==
  {"free", "desc", "ops", "info", "avail", "availIdx", "used", "usedIdx", "used_idx", "lock"}

DiskShape ==
  /\ DiskFields \subseteq DOMAIN disk /\ {"seen", "inflight", "irq"} \subseteq DOMAIN dev
  /\ disk.free \subseteq Ids /\ disk.lock \in DiskProcs \cup {Nobody, "intr"}
  /\ DOMAIN disk.desc = Ids /\ DOMAIN disk.ops = Ids /\ DOMAIN disk.info = Ids
  /\ \A i \in Ids : {"b", "status"} \subseteq DOMAIN disk.info[i]
  /\ bdisk \in [Bufs -> {0, 1}] /\ DOMAIN bdata = Bufs /\ DOMAIN sector = Blocks

(* Where a process can be, and what it then has *)
ProcFields == {"pc", "b", "block", "write", "head"}
ProcOk(p) ==
  /\ ProcFields \subseteq DOMAIN vproc[p]
  /\ \/ vproc[p].pc \in {"out", "enter", "wdesc"} /\ vproc[p].head = Nobody
     \/ vproc[p].pc \in {"publish", "wbuf", "woken"} /\ vproc[p].head \in Ids
  /\ vproc[p].pc # "out" =>
       vproc[p].b \in Bufs /\ vproc[p].block \in Blocks /\ vproc[p].write \in {0, 1}
ProcShape == DOMAIN vproc = DiskProcs /\ \A p \in DiskProcs : ProcOk(p)

(* No buffer is in two requests. *)
BuffersApart ==
  \A p, q \in DiskProcs :
    p # q /\ vproc[p].pc # "out" /\ vproc[q].pc # "out" => vproc[p].b # vproc[q].b

(* The chain of p's request is h, j, k, none of them free. *)
Linked(p, h, j, k) ==
  /\ vproc[p].head = h /\ h # j /\ j # k /\ h # k
  /\ h \in Ids \ disk.free /\ j \in Ids \ disk.free /\ k \in Ids \ disk.free
  /\ disk.desc[h].next = j /\ disk.desc[j].next = k
  /\ disk.desc[j].addr = vproc[p].b /\ disk.desc[k].addr = h
  /\ disk.ops[h] = [write |-> vproc[p].write, block |-> vproc[p].block] /\ disk.info[h].b = vproc[p].b

Busy(p) == vproc[p].head # Nobody
ChainInv == \A p \in DiskProcs : Busy(p) => \E h, j, k \in Ids : Linked(p, h, j, k)

(* Chains have no descriptor in common. *)
ChainsApart ==
  \A p, q \in DiskProcs : p # q /\ Busy(p) /\ Busy(q) => Chain(vproc[p].head) \cap Chain(vproc[q].head) = {}

BusyProcs == {p \in DiskProcs : vproc[p].head # Nobody}
CountInv == Cardinality(disk.free) + 3 * Cardinality(BusyProcs) = NUM

Queued == Entries(disk.avail)
Completed == Entries(disk.used)

(* A request is in one place: queued, with the device, or completed. *)
PlaceInv ==
  /\ \A i \in dev.inflight : i \in Ids
  /\ \A i \in Ids : /\ ~(i \in Queued /\ i \in dev.inflight) /\ ~(i \in Queued /\ i \in Completed)
                    /\ ~(i \in dev.inflight /\ i \in Completed)
Pending == Queued \cup dev.inflight \cup Completed

(* The pending requests are those of the buffers whose disk flag is 1. *)
Owns(p, i) == vproc[p].head = i /\ bdisk[vproc[p].b] = 1
RequestInv ==
  /\ \A i \in Pending : \E p \in DiskProcs : Owns(p, i)
  /\ \A p \in DiskProcs : \A i \in Ids : Owns(p, i) => i \in Pending
  /\ \A p \in DiskProcs : vproc[p].pc = "wbuf" => bdisk[vproc[p].b] = 1

(* Whoever publishes has the lock and its request in the next slot; no     *)
(* completion is waiting without an interrupt or the handler.              *)
LockInv ==
  /\ \A p \in DiskProcs : vproc[p].pc = "publish" <=> disk.lock = p
  /\ Completed # {} => dev.irq \/ disk.lock = "intr"
  /\ \A i \in Completed : disk.info[i].status = 0

AvailAt(s, n) ==
  /\ dev.seen = Index(s) /\ disk.availIdx = Index(s + n)
  /\ disk.lock \in DiskProcs =>
       HasEntries(disk.avail, s, n + 1) /\ disk.avail[Slot(s + n)] = vproc[disk.lock].head
  /\ disk.lock \notin DiskProcs => HasEntries(disk.avail, s, n)
AvailInv == \E s, n \in Nat : AvailAt(s, n)

UsedInv ==
  \E s, n \in Nat :
    disk.used_idx = Index(s) /\ disk.usedIdx = Index(s + n) /\ HasEntries(disk.used, s, n)

DiskInv ==
  /\ DiskShape /\ ProcShape /\ BuffersApart /\ ChainInv /\ ChainsApart /\ CountInv
  /\ PlaceInv /\ RequestInv /\ LockInv /\ AvailInv /\ UsedInv /\ ~diskPanic

-----------------------------------------------------------------------------
(* What a step may leave of a request and its chain *)

SameRequest(q) ==
  /\ ProcFields \subseteq DOMAIN vproc'[q]
  /\ vproc'[q].b = vproc[q].b /\ vproc'[q].block = vproc[q].block
  /\ vproc'[q].write = vproc[q].write /\ vproc'[q].head = vproc[q].head

KeepsChain(q) ==
  /\ SameRequest(q)
  /\ \A i \in Chain(vproc[q].head) :
       /\ disk'.desc[i] = disk.desc[i] /\ disk'.ops[i] = disk.ops[i] /\ disk'.info[i].b = disk.info[i].b
       /\ i \notin disk'.free

(* free_chain() walks through the three descriptors of a request. *)
LEMMA ChainIs ==
  ASSUME NEW q \in DiskProcs, NEW h, NEW j, NEW k, Linked(q, h, j, k)
  PROVE  Chain(vproc[q].head) = {h, j, k} /\ \A i \in {h, j, k} : i \in Ids /\ i \notin disk.free
<1>1. /\ vproc[q].head = h /\ disk.desc[h].next = j /\ disk.desc[j].next = k
      /\ \A i \in {h, j, k} : i \in Ids /\ i \notin disk.free
  BY Zenon DEF Linked
<1>2. j # Nobody
  BY <1>1, DriverAssumption, Zenon DEF Ids
<1>3. Chain(h) = {h, j} \cup {k}
  BY <1>1, <1>2, Zenon DEF Chain
<1> QED BY <1>1, <1>3, Zenon

LEMMA KeptChain ==
  ASSUME NEW q \in DiskProcs, NEW h, NEW j, NEW k, Linked(q, h, j, k), KeepsChain(q)
  PROVE  /\ Linked(q, h, j, k)' /\ (Chain(vproc[q].head))' = Chain(vproc[q].head)
         /\ Busy(q)' = Busy(q)
<1>1. Chain(vproc[q].head) = {h, j, k} /\ h \in Ids /\ j \in Ids /\ k \in Ids
  BY ChainIs, Zenon DEF Linked
<1>2. SameRequest(q) /\ \A i \in {h, j, k} :
         /\ disk'.desc[i] = disk.desc[i] /\ disk'.ops[i] = disk.ops[i] /\ disk'.info[i].b = disk.info[i].b
         /\ i \notin disk'.free
  BY <1>1, Zenon DEF KeepsChain
<1>3. Linked(q, h, j, k)'
  <2>1. /\ vproc'[q].head = h /\ h # j /\ j # k /\ h # k
        /\ h \in Ids \ disk'.free /\ j \in Ids \ disk'.free /\ k \in Ids \ disk'.free
    BY <1>1, <1>2, Zenon DEF Linked, SameRequest
  <2>2. disk'.desc[h].next = j /\ disk'.desc[j].next = k /\ disk'.desc[k].addr = h
        /\ disk'.desc[j].addr = vproc'[q].b
    BY <1>2, Zenon DEF Linked, SameRequest
  <2>3. /\ disk'.ops[h] = [write |-> vproc'[q].write, block |-> vproc'[q].block]
        /\ disk'.info[h].b = vproc'[q].b
    BY <1>2, Zenon DEF Linked, SameRequest
  <2> QED BY <2>1, <2>2, <2>3, Zenon DEF Linked
<1>4. (Chain(vproc[q].head))' = {h, j, k}
  <2>1. vproc'[q].head = h /\ disk'.desc[h].next = j /\ disk'.desc[j].next = k /\ j # Nobody
    BY <1>1, <1>3, DriverAssumption, Zenon DEF Linked, Ids
  <2>2. (Chain(vproc[q].head))' = {h, j} \cup {k}
    BY <2>1, Zenon DEF Chain
  <2> QED BY <2>2, Zenon
<1> QED BY <1>1, <1>2, <1>3, <1>4, Zenon DEF Busy, SameRequest

LEMMA ChainNotFree ==
  ASSUME ChainInv, NEW q \in DiskProcs, Busy(q)
  PROVE  \A i \in Chain(vproc[q].head) : i \in Ids /\ i \notin disk.free
<1>1. PICK h, j, k \in Ids : Linked(q, h, j, k)
  BY Zenon DEF ChainInv
<1>2. Chain(vproc[q].head) = {h, j, k} /\ \A i \in {h, j, k} : i \in Ids /\ i \notin disk.free
  BY <1>1, ChainIs
<1> QED BY <1>2, Zenon

LEMMA ChainKept ==
  ASSUME ChainInv, NEW q \in DiskProcs, Busy(q), KeepsChain(q)
  PROVE  (\E h, j, k \in Ids : Linked(q, h, j, k)') /\ (Chain(vproc[q].head))' = Chain(vproc[q].head)
<1>1. PICK h, j, k \in Ids : Linked(q, h, j, k)
  BY Zenon DEF ChainInv
<1> QED BY <1>1, KeptChain, Zenon

(* A step that makes no new chain *)
LEMMA ChainsKept ==
  ASSUME ChainInv, ChainsApart, \A q \in DiskProcs : Busy(q)' => Busy(q) /\ KeepsChain(q)
  PROVE  ChainInv' /\ ChainsApart'
<1>1. \A q \in DiskProcs : Busy(q)' => \E h, j, k \in Ids : Linked(q, h, j, k)'
  BY ChainKept, Zenon
<1>2. \A q \in DiskProcs : Busy(q)' => (Chain(vproc[q].head))' = Chain(vproc[q].head)
  BY ChainKept, Zenon
<1>3. ChainInv'
  BY <1>1, Zenon DEF ChainInv
<1>4. ASSUME NEW p \in DiskProcs, NEW q \in DiskProcs, p # q, Busy(p)', Busy(q)'
      PROVE  (Chain(vproc[p].head))' \cap (Chain(vproc[q].head))' = {}
  BY <1>2, <1>4, Zenon DEF ChainsApart
<1>5. ChainsApart'
  BY <1>4, Zenon DEF ChainsApart
<1> QED BY <1>3, <1>5, Zenon

LEMMA PendingIds == ASSUME PlaceInv PROVE \A i \in Pending : i \in Ids
  BY Zenon DEF PlaceInv, Pending, Queued, Completed, Entries

(* The head of a pending request is not free, and its owner is in the driver. *)
LEMMA PendingOwned ==
  ASSUME ChainInv, PlaceInv, RequestInv, ProcShape, NEW i \in Pending
  PROVE  i \notin disk.free /\ \E q \in DiskProcs : Owns(q, i) /\ Busy(q) /\ vproc[q].pc # "out"
<1>1. i \in Ids
  BY PendingIds, Zenon
<1>2. PICK q \in DiskProcs : Owns(q, i)
  BY Zenon DEF RequestInv
<1>3. vproc[q].head = i /\ i # Nobody
  BY <1>1, <1>2, DriverAssumption, Zenon DEF Owns, Ids
<1>4. vproc[q].pc # "out"
  BY <1>3, Zenon DEF ProcShape, ProcOk
<1>5. i \in Chain(vproc[q].head) /\ Busy(q)
  BY <1>3, Zenon DEF Chain, Busy
<1> QED BY <1>2, <1>4, <1>5, ChainNotFree, Zenon

(* A step that leaves the requests where they are *)
LEMMA RequestsSame ==
  ASSUME PlaceInv, RequestInv, Pending' = Pending,
         \A q \in DiskProcs : \A i \in Ids : Owns(q, i)' <=> Owns(q, i),
         \A q \in DiskProcs : vproc'[q].pc = "wbuf" => bdisk'[vproc'[q].b] = 1
  PROVE  RequestInv'
<1>1. \A i \in Pending' : \E q \in DiskProcs : Owns(q, i)'
  BY PendingIds, Zenon DEF RequestInv
<1>2. \A q \in DiskProcs : \A i \in Ids : Owns(q, i)' => i \in Pending'
  BY Zenon DEF RequestInv
<1> QED BY <1>1, <1>2, Zenon DEF RequestInv

(* Requests have heads of their own. *)
LEMMA HeadsDiffer ==
  ASSUME ChainsApart, NEW p \in DiskProcs, NEW q \in DiskProcs, Busy(p), vproc[q].head = vproc[p].head
  PROVE  q = p
<1>1. Busy(q) /\ vproc[p].head \in Chain(vproc[p].head) /\ vproc[p].head \in Chain(vproc[q].head)
  BY Zenon DEF Busy, Chain
<1> QED BY <1>1, Zenon DEF ChainsApart

(* A step that leaves the descriptors alone *)
LEMMA DescriptorsSame ==
  ASSUME ChainInv, ChainsApart, CountInv, \A q \in DiskProcs : SameRequest(q), disk'.free = disk.free,
         disk'.desc = disk.desc, disk'.ops = disk.ops, \A i \in Ids : disk'.info[i].b = disk.info[i].b
  PROVE  ChainInv' /\ ChainsApart' /\ CountInv'
<1>1. ASSUME NEW q \in DiskProcs, Busy(q)' PROVE Busy(q) /\ KeepsChain(q)
  <2>1. Busy(q)
    BY <1>1, Zenon DEF Busy, SameRequest
  <2>2. \A i \in Chain(vproc[q].head) : i \in Ids /\ i \notin disk.free
    BY <2>1, ChainNotFree, Zenon
  <2> QED BY <2>1, <2>2, Zenon DEF KeepsChain
<1>2. BusyProcs' = BusyProcs
  BY Zenon DEF BusyProcs, SameRequest
<1>3. CountInv'
  BY <1>2, Zenon DEF CountInv
<1> QED BY <1>1, <1>3, ChainsKept, Zenon

LEMMA BuffersSame ==
  ASSUME BuffersApart,
         \A q \in DiskProcs : vproc'[q].pc # "out" => vproc[q].pc # "out" /\ vproc'[q].b = vproc[q].b
  PROVE  BuffersApart'
<1>1. ASSUME NEW p \in DiskProcs, NEW q \in DiskProcs, p # q, vproc'[p].pc # "out", vproc'[q].pc # "out"
      PROVE  vproc'[p].b # vproc'[q].b
  BY <1>1 DEF BuffersApart
<1> QED BY <1>1, Zenon DEF BuffersApart

(* The queue as long as nobody fills it and the device does not read it *)
LEMMA AvailSame ==
  ASSUME AvailInv, dev'.seen = dev.seen, disk'.availIdx = disk.availIdx, disk'.avail = disk.avail,
         \/ disk'.lock = disk.lock /\ (disk.lock \in DiskProcs => vproc'[disk.lock].head = vproc[disk.lock].head)
         \/ disk'.lock \notin DiskProcs /\ disk.lock \notin DiskProcs
  PROVE  AvailInv'
<1>1. PICK s, n \in Nat : AvailAt(s, n)
  BY Zenon DEF AvailInv
<1>2. AvailAt(s, n)'
  BY <1>1, Zenon DEF AvailAt
<1> QED BY <1>2, Zenon DEF AvailInv

LEMMA UsedSame ==
  ASSUME UsedInv, disk'.used_idx = disk.used_idx, disk'.usedIdx = disk.usedIdx, disk'.used = disk.used
  PROVE  UsedInv'
  BY Zenon DEF UsedInv

-----------------------------------------------------------------------------
(* Steps that only move processes, between testing and waiting *)

MoveEffect ==
  /\ UNCHANGED <<disk, dev, bdisk, diskPanic>> /\ DOMAIN bdata' = Bufs /\ DOMAIN sector' = Blocks
  /\ DOMAIN vproc' = DiskProcs
  /\ \A q \in DiskProcs :
       /\ SameRequest(q)
       /\ \/ vproc'[q].pc = vproc[q].pc
          \/ vproc[q].pc \in {"enter", "wdesc"} /\ vproc'[q].pc \in {"enter", "wdesc"}
          \/ vproc[q].pc = "wbuf" /\ vproc'[q].pc = "woken"
          \/ vproc[q].pc = "woken" /\ vproc'[q].pc = "wbuf" /\ bdisk[vproc[q].b] = 1

LEMMA MoveFacts ==
  ASSUME DiskInv, NEW p \in DiskProcs, alloc3_desc_fail(p) \/ virtio_disk_again(p) \/ kill_in_disk(p)
  PROVE  MoveEffect
<1>1. /\ DOMAIN vproc = DiskProcs /\ \A q \in DiskProcs : ProcFields \subseteq DOMAIN vproc[q]
      /\ DOMAIN bdata = Bufs /\ DOMAIN sector = Blocks
  BY Zenon DEF DiskInv, ProcShape, ProcOk, DiskShape
<1>2. ASSUME NEW c, vproc' = [vproc EXCEPT ![p].pc = c],
             \/ vproc[p].pc \in {"enter", "wdesc"} /\ c \in {"enter", "wdesc"}
             \/ vproc[p].pc = "wbuf" /\ c = "woken"
             \/ vproc[p].pc = "woken" /\ c = "wbuf" /\ bdisk[vproc[p].b] = 1,
             UNCHANGED <<disk, dev, bdisk, bdata, sector, diskPanic>>
      PROVE  MoveEffect
  <2>1. /\ DOMAIN vproc' = DiskProcs /\ vproc'[p] = [vproc[p] EXCEPT !.pc = c]
        /\ \A q \in DiskProcs : q # p => vproc'[q] = vproc[q]
    BY <1>1, <1>2, Zenon
  <2>2. SameRequest(p) /\ vproc'[p].pc = c
    BY <1>1, <2>1, Zenon DEF SameRequest, ProcFields
  <2>3. \A q \in DiskProcs : q # p => SameRequest(q)
    BY <1>1, <2>1, Zenon DEF SameRequest
  <2> QED BY <1>1, <1>2, <2>1, <2>2, <2>3, Zenon DEF MoveEffect
<1>3. CASE alloc3_desc_fail(p)
  <2>1. vproc[p].pc = "enter" /\ UNCHANGED <<disk, dev, bdisk, bdata, sector, diskPanic>>
    BY <1>3, Zenon DEF alloc3_desc_fail, AtStep
  <2>2. CASE disk.free = {}
    BY <1>2, <1>3, <2>1, <2>2, Zenon DEF alloc3_desc_fail
  <2>3. CASE disk.free # {}
    <3>1. vproc' = [q \in DiskProcs |-> IF q = p THEN [vproc[p] EXCEPT !.pc = "wdesc"]
                            ELSE IF vproc[q].pc = "wdesc" THEN [vproc[q] EXCEPT !.pc = "enter"]
                            ELSE vproc[q]]
      BY <1>3, <2>3, Zenon DEF alloc3_desc_fail, WakeDescWaiters
    <3>2. ASSUME NEW q \in DiskProcs
          PROVE  /\ SameRequest(q)
                 /\ \/ vproc'[q].pc = vproc[q].pc
                    \/ vproc[q].pc \in {"enter", "wdesc"} /\ vproc'[q].pc \in {"enter", "wdesc"}
      <4>1. \/ vproc'[q] = vproc[q]
            \/ /\ vproc[q].pc \in {"enter", "wdesc"}
               /\ \E c \in {"enter", "wdesc"} : vproc'[q] = [vproc[q] EXCEPT !.pc = c]
        BY <2>1, <3>1, Zenon
      <4>2. CASE vproc'[q] = vproc[q]
        BY <1>1, <4>2, Zenon DEF SameRequest
      <4>3. ASSUME vproc[q].pc \in {"enter", "wdesc"},
                   NEW c \in {"enter", "wdesc"}, vproc'[q] = [vproc[q] EXCEPT !.pc = c]
            PROVE  SameRequest(q) /\ vproc'[q].pc \in {"enter", "wdesc"}
        <5>1. ProcFields \subseteq DOMAIN vproc[q]
          BY <1>1, Zenon
        <5> QED BY <4>3, <5>1 DEF SameRequest, ProcFields
      <4> QED BY <4>1, <4>2, <4>3, Zenon
    <3> QED BY <1>1, <2>1, <3>1, <3>2, Zenon DEF MoveEffect
  <2> QED BY <2>2, <2>3, Zenon
<1>4. CASE virtio_disk_again(p)
  BY <1>2, <1>4, Zenon DEF virtio_disk_again, AtStep
<1>5. CASE kill_in_disk(p)
  <2>1. PICK c : c = IF vproc[p].pc = "wdesc" THEN "enter" ELSE "woken"
    OBVIOUS
  <2>2. vproc' = [vproc EXCEPT ![p].pc = c]
    BY <1>5, <2>1, Zenon DEF kill_in_disk
  <2> QED BY <1>2, <1>5, <2>1, <2>2, Zenon DEF kill_in_disk
<1> QED BY <1>3, <1>4, <1>5, Zenon

LEMMA MoveKeeps == ASSUME DiskInv, MoveEffect PROVE DiskInv'
<1>1. DiskShape /\ ProcShape /\ BuffersApart /\ ChainInv /\ ChainsApart /\ CountInv
  BY Zenon DEF DiskInv
<1>2. PlaceInv /\ RequestInv /\ LockInv /\ AvailInv /\ UsedInv /\ ~diskPanic
  BY Zenon DEF DiskInv
<1>3. UNCHANGED <<disk, dev, bdisk, diskPanic>> /\ DOMAIN bdata' = Bufs /\ DOMAIN sector' = Blocks
  BY Zenon DEF MoveEffect
<1>4. DOMAIN vproc' = DiskProcs /\ \A q \in DiskProcs : SameRequest(q)
  BY Zenon DEF MoveEffect
<1>5. \A q \in DiskProcs :
         /\ vproc'[q].pc = "publish" <=> vproc[q].pc = "publish"
         /\ vproc'[q].pc = "out" <=> vproc[q].pc = "out"
         /\ vproc'[q].pc = "wbuf" => bdisk[vproc[q].b] = 1
  BY <1>2, Zenon DEF MoveEffect, RequestInv
<1>6. \A q \in DiskProcs : vproc'[q].b = vproc[q].b /\ vproc'[q].head = vproc[q].head
  BY <1>4, Zenon DEF SameRequest
<1>7. DiskShape' /\ ~diskPanic' /\ Queued' = Queued /\ Completed' = Completed
  BY <1>1, <1>2, <1>3, Zenon DEF DiskShape, Queued, Completed
<1>8. ProcShape'
  <2>1. ASSUME NEW q \in DiskProcs PROVE ProcOk(q)'
    <3>1. \/ vproc'[q].pc \in {"out", "enter", "wdesc"} /\ vproc'[q].head = Nobody
          \/ vproc'[q].pc \in {"publish", "wbuf", "woken"} /\ vproc'[q].head \in Ids
      BY <1>1, <1>6, Zenon DEF MoveEffect, ProcShape, ProcOk
    <3>2. ASSUME vproc'[q].pc # "out"
          PROVE  vproc'[q].b \in Bufs /\ vproc'[q].block \in Blocks /\ vproc'[q].write \in {0, 1}
      BY <1>1, <1>4, <1>5, <3>2, Zenon DEF SameRequest, ProcShape, ProcOk
    <3> QED BY <1>4, <3>1, <3>2, Zenon DEF SameRequest, ProcOk
  <2> QED BY <1>4, <2>1, Zenon DEF ProcShape
<1>9. BuffersApart'
  BY <1>1, <1>5, <1>6, BuffersSame, Zenon
<1>10. ChainInv' /\ ChainsApart'
  <2>1. ASSUME NEW q \in DiskProcs, Busy(q)' PROVE Busy(q) /\ KeepsChain(q)
    <3>1. Busy(q)
      BY <1>6, <2>1, Zenon DEF Busy
    <3> QED BY <1>1, <1>3, <1>4, <3>1, ChainNotFree, Zenon DEF KeepsChain
  <2> QED BY <1>1, <2>1, ChainsKept, Zenon
<1>11. CountInv'
  <2>1. BusyProcs' = BusyProcs
    BY <1>6, Zenon DEF BusyProcs
  <2> QED BY <1>1, <1>3, <2>1, Zenon DEF CountInv
<1>12. PlaceInv' /\ Pending' = Pending
  BY <1>2, <1>3, <1>7, Zenon DEF PlaceInv, Pending
<1>13. RequestInv'
  <2>1. \A q \in DiskProcs : \A i \in Ids : Owns(q, i)' <=> Owns(q, i)
    BY <1>3, <1>6, Zenon DEF Owns
  <2> QED BY <1>2, <1>3, <1>5, <1>6, <1>12, <2>1, RequestsSame, Zenon
<1>14. LockInv'
  BY <1>2, <1>3, <1>5, <1>7, Zenon DEF LockInv
<1>15. AvailInv' /\ UsedInv'
  BY <1>2, <1>3, <1>6, AvailSame, UsedSame, Zenon
<1>16. (DiskShape /\ ProcShape /\ BuffersApart /\ ChainInv /\ ChainsApart /\ CountInv)'
  BY <1>7, <1>8, <1>9, <1>10, <1>11, Zenon
<1>17. (PlaceInv /\ RequestInv /\ LockInv /\ AvailInv /\ UsedInv /\ ~diskPanic)'
  BY <1>7, <1>12, <1>13, <1>14, <1>15, Zenon
<1> QED BY <1>16, <1>17, Zenon DEF DiskInv

-----------------------------------------------------------------------------
(* A process enters virtio_disk_rw(), with a buffer no other has there. *)

LEMMA CallKeeps ==
  ASSUME DiskInv, NEW p \in DiskProcs, NEW b \in Bufs, NEW block \in Blocks, NEW write \in {0, 1},
         vproc[p].pc = "out", \A q \in DiskProcs : vproc[q].pc # "out" => vproc[q].b # b,
         virtio_disk_rw(p, b, block, write), UNCHANGED <<disk, dev, bdisk, diskPanic>>,
         DOMAIN bdata' = Bufs, DOMAIN sector' = Blocks
  PROVE  DiskInv'
<1>1. DiskShape /\ ProcShape /\ BuffersApart /\ ChainInv /\ ChainsApart /\ CountInv
  BY Zenon DEF DiskInv
<1>2. PlaceInv /\ RequestInv /\ LockInv /\ AvailInv /\ UsedInv /\ ~diskPanic
  BY Zenon DEF DiskInv
<1>3. DOMAIN vproc' = DiskProcs /\ \A q \in DiskProcs : q # p => vproc'[q] = vproc[q]
  BY <1>1, Zenon DEF virtio_disk_rw, ProcShape
<1>4. /\ ProcFields \subseteq DOMAIN vproc'[p]
      /\ vproc'[p].pc = "enter" /\ vproc'[p].b = b /\ vproc'[p].block = block
      /\ vproc'[p].write = write /\ vproc'[p].head = Nobody
  <2>1. vproc'[p] = [Outside EXCEPT !.pc = "enter", !.b = b, !.block = block, !.write = write]
    BY <1>1, Zenon DEF virtio_disk_rw, ProcShape
  <2>2. vproc'[p] = [pc |-> "enter", b |-> b, block |-> block, write |-> write, head |-> Nobody]
    BY <2>1, Zenon DEF Outside
  <2> QED BY <2>2 DEF ProcFields
<1>5. vproc[p].head = Nobody
  BY <1>1, Zenon DEF ProcShape, ProcOk
<1>6. \A q \in DiskProcs : vproc'[q].head = vproc[q].head
  BY <1>3, <1>4, <1>5, Zenon
<1>7. DiskShape' /\ ~diskPanic' /\ Queued' = Queued /\ Completed' = Completed
  BY <1>1, <1>2, Zenon DEF DiskShape, Queued, Completed
<1>8. ProcShape'
  <2>1. ProcOk(p)'
    BY <1>4, Zenon DEF ProcOk
  <2>2. \A q \in DiskProcs : ProcOk(q)'
    BY <1>1, <1>3, <2>1, Zenon DEF ProcShape, ProcOk
  <2> QED BY <1>3, <2>2, Zenon DEF ProcShape
<1>9. BuffersApart'
  <2>1. ASSUME NEW q \in DiskProcs, NEW r \in DiskProcs, q # r, vproc'[q].pc # "out", vproc'[r].pc # "out"
        PROVE  vproc'[q].b # vproc'[r].b
    BY <1>1, <1>3, <1>4, <2>1 DEF BuffersApart
  <2> QED BY <2>1, Zenon DEF BuffersApart
<1>10. ChainInv' /\ ChainsApart'
  <2>1. ASSUME NEW q \in DiskProcs, Busy(q)' PROVE Busy(q) /\ KeepsChain(q)
    <3>1. Busy(q) /\ q # p
      BY <1>5, <1>6, <2>1, Zenon DEF Busy
    <3>2. SameRequest(q)
      BY <1>1, <1>3, <3>1, Zenon DEF SameRequest, ProcShape, ProcOk
    <3> QED BY <1>1, <3>1, <3>2, ChainNotFree, Zenon DEF KeepsChain
  <2> QED BY <1>1, <2>1, ChainsKept, Zenon
<1>11. CountInv'
  <2>1. BusyProcs' = BusyProcs
    BY <1>6, Zenon DEF BusyProcs
  <2> QED BY <1>1, <2>1, Zenon DEF CountInv
<1>12. PlaceInv' /\ Pending' = Pending
  BY <1>2, <1>7, Zenon DEF PlaceInv, Pending
<1>13. RequestInv'
  <2>1. \A q \in DiskProcs : \A i \in Ids : Owns(q, i)' <=> Owns(q, i)
    <3>1. \A i \in Ids : ~Owns(p, i) /\ ~Owns(p, i)'
      BY <1>4, <1>5, DriverAssumption, Zenon DEF Owns, Ids
    <3>2. \A q \in DiskProcs : q # p => \A i \in Ids : Owns(q, i)' <=> Owns(q, i)
      BY <1>3, Zenon DEF Owns
    <3> QED BY <3>1, <3>2, Zenon
  <2>2. \A q \in DiskProcs : vproc'[q].pc = "wbuf" => bdisk'[vproc'[q].b] = 1
    BY <1>2, <1>3, <1>4, Zenon DEF RequestInv
  <2> QED BY <1>2, <1>12, <2>1, <2>2, RequestsSame, Zenon
<1>14. LockInv'
  <2>1. \A q \in DiskProcs : vproc'[q].pc = "publish" <=> vproc[q].pc = "publish"
    BY <1>3, <1>4, Zenon
  <2> QED BY <1>2, <1>7, <2>1, Zenon DEF LockInv
<1>15. AvailInv' /\ UsedInv'
  BY <1>2, <1>6, AvailSame, UsedSame, Zenon
<1>16. (DiskShape /\ ProcShape /\ BuffersApart /\ ChainInv /\ ChainsApart /\ CountInv)'
  BY <1>7, <1>8, <1>9, <1>10, <1>11, Zenon
<1>17. (PlaceInv /\ RequestInv /\ LockInv /\ AvailInv /\ UsedInv /\ ~diskPanic)'
  BY <1>7, <1>12, <1>13, <1>14, <1>15, Zenon
<1> QED BY <1>16, <1>17, Zenon DEF DiskInv

-----------------------------------------------------------------------------
(* Three descriptors are taken, filled in and put into the queue. *)

FillProcs(p, h) ==
  /\ DOMAIN vproc' = DiskProcs /\ \A q \in DiskProcs : q # p => vproc'[q] = vproc[q]
  /\ ProcFields \subseteq DOMAIN vproc'[p] /\ vproc'[p].pc = "publish" /\ vproc'[p].head = h
  /\ vproc'[p].b = vproc[p].b /\ vproc'[p].block = vproc[p].block /\ vproc'[p].write = vproc[p].write

FillDescs(p, h, j, k) ==
  /\ disk'.free = disk.free \ {h, j, k} /\ DOMAIN disk'.desc = Ids
  /\ disk'.desc[h].next = j /\ disk'.desc[j].next = k /\ disk'.desc[j].addr = vproc[p].b
  /\ disk'.desc[k].addr = h
  /\ \A i \in Ids : i \notin {h, j, k} => disk'.desc[i] = disk.desc[i]

FillHead(p, h) ==
  /\ DOMAIN disk'.ops = Ids /\ DOMAIN disk'.info = Ids
  /\ disk'.ops[h] = [write |-> vproc[p].write, block |-> vproc[p].block]
  /\ disk'.info[h] = [b |-> vproc[p].b, status |-> 255]
  /\ \A i \in Ids : i # h => disk'.ops[i] = disk.ops[i] /\ disk'.info[i] = disk.info[i]

FillEffect(p, h, j, k) ==
  /\ vproc[p].pc = "enter" /\ disk.lock = Nobody /\ DiskFields \subseteq DOMAIN disk'
  /\ h \in disk.free /\ j \in disk.free /\ k \in disk.free /\ h # j /\ h # k /\ j # k
  /\ FillProcs(p, h) /\ FillDescs(p, h, j, k) /\ FillHead(p, h) /\ disk'.lock = p
  /\ disk'.avail = [disk.avail EXCEPT ![disk.availIdx % NUM] = h]
  /\ disk'.availIdx = disk.availIdx /\ disk'.used = disk.used /\ disk'.usedIdx = disk.usedIdx
  /\ disk'.used_idx = disk.used_idx
  /\ bdisk' = [bdisk EXCEPT ![vproc[p].b] = 1] /\ UNCHANGED <<dev, bdata, sector, diskPanic>>

(* alloc_desc() finds one as long as one is free. *)
LEMMA LowestIn == ASSUME NEW T \in SUBSET Nat, T # {} PROVE Lowest(T) \in T
  BY LeastExists, Zenon DEF Lowest

LEMMA ThreeFree ==
  ASSUME NEW T \in SUBSET Ids, Cardinality(T) >= 3
  PROVE  LET i0 == Lowest(T)
             i1 == Lowest(T \ {i0})
             i2 == Lowest(T \ {i0, i1})
         IN  i0 \in T /\ i1 \in T /\ i2 \in T /\ i0 # i1 /\ i0 # i2 /\ i1 # i2
<1>1. PICK i0 : i0 = Lowest(T)
  OBVIOUS
<1>2. PICK i1 : i1 = Lowest(T \ {i0})
  OBVIOUS
<1>3. PICK i2 : i2 = Lowest(T \ {i0, i1})
  OBVIOUS
<1>4. IsFiniteSet(T) /\ Cardinality(T) \in Nat /\ \A S \in SUBSET T : S \in SUBSET Nat
  <2>1. IsFiniteSet(T)
    BY IdsFinite, FS_Subset, Zenon
  <2>2. \A S \in SUBSET T : S \in SUBSET Nat
    BY DEF Ids
  <2> QED BY <2>1, <2>2, FS_CardinalityType, Zenon
<1>5. i0 \in T
  <2>1. T # {}
    BY <1>4, FS_EmptySet
  <2> QED BY <1>1, <1>4, <2>1, LowestIn, Zenon
<1>6. IsFiniteSet(T \ {i0}) /\ Cardinality(T \ {i0}) = Cardinality(T) - 1
  BY <1>4, <1>5, FS_RemoveElement, Zenon
<1>7. i1 \in T \ {i0}
  <2>1. T \ {i0} # {}
    BY <1>4, <1>6, FS_EmptySet
  <2>2. T \ {i0} \in SUBSET Nat
    BY <1>4, Zenon
  <2> QED BY <1>2, <2>1, <2>2, LowestIn, Zenon
<1>8. Cardinality((T \ {i0}) \ {i1}) = Cardinality(T \ {i0}) - 1
  BY <1>6, <1>7, FS_RemoveElement, Zenon
<1>9. i2 \in T \ {i0, i1}
  <2>1. (T \ {i0}) \ {i1} # {}
    BY <1>4, <1>6, <1>8, FS_EmptySet
  <2>2. T \ {i0, i1} = (T \ {i0}) \ {i1}
    BY Zenon
  <2>3. T \ {i0, i1} \in SUBSET Nat
    BY <1>4, Zenon
  <2> QED BY <1>3, <2>1, <2>2, <2>3, LowestIn, Zenon
<1>10. i0 \in T /\ i1 \in T /\ i2 \in T /\ i0 # i1 /\ i0 # i2 /\ i1 # i2
  BY <1>5, <1>7, <1>9, Zenon
<1> QED BY <1>1, <1>2, <1>3, <1>10, Zenon

LEMMA FillFacts ==
  ASSUME DiskInv, NEW p \in DiskProcs, virtio_disk_fill(p)
  PROVE  \E h, j, k \in Ids : FillEffect(p, h, j, k)
<1>1. PICK h : h = Lowest(disk.free)
  OBVIOUS
<1>2. PICK j : j = Lowest(disk.free \ {h})
  OBVIOUS
<1>3. PICK k : k = Lowest(disk.free \ {h, j})
  OBVIOUS
<1>4. /\ vproc[p].pc = "enter" /\ disk.lock = Nobody /\ Cardinality(disk.free) >= 3
      /\ disk' = Formatted(p, h, j, k) /\ vproc' = [vproc EXCEPT ![p].pc = "publish", ![p].head = h]
      /\ bdisk' = [bdisk EXCEPT ![vproc[p].b] = 1] /\ UNCHANGED <<dev, bdata, sector, diskPanic>>
  BY <1>1, <1>2, <1>3, Zenon DEF virtio_disk_fill, AtStep
<1>5. DiskFields \subseteq DOMAIN disk /\ DOMAIN disk.desc = Ids /\ DOMAIN disk.ops = Ids /\ DOMAIN disk.info = Ids
  BY Zenon DEF DiskInv, DiskShape
<1>6. DOMAIN vproc = DiskProcs /\ ProcFields \subseteq DOMAIN vproc[p]
  BY Zenon DEF DiskInv, ProcShape, ProcOk
<1>7. /\ h \in disk.free /\ j \in disk.free /\ k \in disk.free /\ h # j /\ h # k /\ j # k
      /\ disk.free \subseteq Ids
  <2>1. disk.free \in SUBSET Ids
    BY Zenon DEF DiskInv, DiskShape
  <2> QED BY <1>1, <1>2, <1>3, <1>4, <2>1, ThreeFree, Zenon
<1>8. FillProcs(p, h)
  <2>1. /\ DOMAIN vproc' = DiskProcs /\ \A q \in DiskProcs : q # p => vproc'[q] = vproc[q]
        /\ vproc'[p] = [vproc[p] EXCEPT !.pc = "publish", !.head = h]
    BY <1>4, <1>6
  <2>2. ProcFields \subseteq DOMAIN vproc[p]
    BY <1>6, Zenon
  <2>3. /\ ProcFields \subseteq DOMAIN vproc'[p] /\ vproc'[p].pc = "publish" /\ vproc'[p].head = h
        /\ vproc'[p].b = vproc[p].b /\ vproc'[p].block = vproc[p].block /\ vproc'[p].write = vproc[p].write
    BY <2>1, <2>2 DEF ProcFields
  <2> QED BY <2>1, <2>3, Zenon DEF FillProcs
<1>9. /\ DOMAIN disk' = DOMAIN disk /\ disk'.free = disk.free \ {h, j, k} /\ disk'.lock = p
      /\ disk'.availIdx = disk.availIdx /\ disk'.used = disk.used /\ disk'.usedIdx = disk.usedIdx
      /\ disk'.used_idx = disk.used_idx
  <2>1. DOMAIN disk' = DOMAIN disk
    BY <1>4, Zenon DEF Formatted
  <2>2. disk'.free = disk.free \ {h, j, k}
    BY <1>4, <1>5 DEF Formatted, DiskFields
  <2>3. disk'.lock = p
    BY <1>4, <1>5 DEF Formatted, DiskFields
  <2>4. disk'.availIdx = disk.availIdx
    BY <1>4, <1>5 DEF Formatted, DiskFields
  <2>5. disk'.used = disk.used /\ disk'.usedIdx = disk.usedIdx /\ disk'.used_idx = disk.used_idx
    BY <1>4, <1>5 DEF Formatted, DiskFields
  <2> QED BY <2>1, <2>2, <2>3, <2>4, <2>5, Zenon
<1>10. disk'.avail = [disk.avail EXCEPT ![disk.availIdx % NUM] = h]
  BY <1>4, <1>5 DEF Formatted, DiskFields
<1>11. FillDescs(p, h, j, k)
  <2>1. disk'.desc = [[[disk.desc EXCEPT ![h] = [addr |-> h, next |-> j]]
                          EXCEPT ![j] = [addr |-> vproc[p].b, next |-> k]]
                          EXCEPT ![k] = [addr |-> h, next |-> Nobody]]
    BY <1>4, <1>5 DEF Formatted, DiskFields
  <2>2. /\ DOMAIN disk'.desc = Ids /\ disk'.desc[h] = [addr |-> h, next |-> j]
        /\ disk'.desc[j] = [addr |-> vproc[p].b, next |-> k] /\ disk'.desc[k] = [addr |-> h, next |-> Nobody]
        /\ \A i \in Ids : i \notin {h, j, k} => disk'.desc[i] = disk.desc[i]
    BY <1>5, <1>7, <2>1
  <2> QED BY <1>9, <2>2 DEF FillDescs
<1>12. FillHead(p, h)
  <2>1. disk'.ops = [disk.ops EXCEPT ![h] = [write |-> vproc[p].write, block |-> vproc[p].block]]
    BY <1>4, <1>5 DEF Formatted, DiskFields
  <2>2. disk'.info = [disk.info EXCEPT ![h] = [b |-> vproc[p].b, status |-> 255]]
    BY <1>4, <1>5 DEF Formatted, DiskFields
  <2> QED BY <1>5, <1>7, <2>1, <2>2 DEF FillHead
<1>13. h \in Ids /\ j \in Ids /\ k \in Ids
  BY <1>7, Zenon
<1>14. FillEffect(p, h, j, k)
  BY <1>4, <1>5, <1>7, <1>8, <1>9, <1>10, <1>11, <1>12, Zenon DEF FillEffect
<1> QED BY <1>13, <1>14, Zenon

LEMMA FillKeeps ==
  ASSUME DiskInv, NEW p \in DiskProcs, NEW h \in Ids, NEW j \in Ids, NEW k \in Ids, FillEffect(p, h, j, k)
  PROVE  DiskInv'
<1>1. DiskShape /\ ProcShape /\ BuffersApart /\ ChainInv /\ ChainsApart /\ CountInv
  BY Zenon DEF DiskInv
<1>2. PlaceInv /\ RequestInv /\ LockInv /\ AvailInv /\ UsedInv /\ ~diskPanic
  BY Zenon DEF DiskInv
<1>3. /\ vproc[p].pc = "enter" /\ disk.lock = Nobody /\ DiskFields \subseteq DOMAIN disk'
      /\ h \in disk.free /\ j \in disk.free /\ k \in disk.free /\ h # j /\ h # k /\ j # k
      /\ disk'.lock = p /\ UNCHANGED <<dev, bdata, sector, diskPanic>>
  BY Zenon DEF FillEffect
<1>4. FillProcs(p, h) /\ FillDescs(p, h, j, k) /\ FillHead(p, h)
  BY Zenon DEF FillEffect
<1>5. /\ disk'.avail = [disk.avail EXCEPT ![disk.availIdx % NUM] = h] /\ disk'.availIdx = disk.availIdx
      /\ disk'.used = disk.used /\ disk'.usedIdx = disk.usedIdx /\ disk'.used_idx = disk.used_idx
  BY Zenon DEF FillEffect
<1>6. bdisk' = [bdisk EXCEPT ![vproc[p].b] = 1]
  BY Zenon DEF FillEffect
<1>7. vproc[p].b \in Bufs /\ vproc[p].block \in Blocks /\ vproc[p].write \in {0, 1} /\ vproc[p].head = Nobody
  BY <1>1, <1>3, Zenon DEF ProcShape, ProcOk
<1>8. /\ DOMAIN vproc' = DiskProcs /\ \A q \in DiskProcs : q # p => vproc'[q] = vproc[q]
      /\ vproc'[p].pc = "publish" /\ vproc'[p].head = h /\ vproc'[p].b = vproc[p].b
  BY <1>4, Zenon DEF FillProcs
<1>9. h \notin Pending /\ j \notin Pending
  BY <1>1, <1>2, <1>3, PendingOwned, Zenon
<1>10. DiskShape'
  <2>1. disk'.free \subseteq Ids
    BY <1>1, <1>4, Zenon DEF DiskShape, FillDescs
  <2>2. \A i \in Ids : {"b", "status"} \subseteq DOMAIN disk'.info[i]
    BY <1>1, <1>4 DEF DiskShape, FillHead
  <2>3. bdisk' \in [Bufs -> {0, 1}]
    BY <1>1, <1>6, Zenon DEF DiskShape
  <2>4. DOMAIN disk'.desc = Ids /\ DOMAIN disk'.ops = Ids /\ DOMAIN disk'.info = Ids
    BY <1>4, Zenon DEF FillDescs, FillHead
  <2> QED BY <1>1, <1>3, <2>1, <2>2, <2>3, <2>4, Zenon DEF DiskShape
<1>11. ProcShape'
  <2>1. ProcOk(p)'
    BY <1>4, <1>7, Zenon DEF ProcOk, FillProcs
  <2>2. \A q \in DiskProcs : ProcOk(q)'
    BY <1>1, <1>8, <2>1, Zenon DEF ProcShape, ProcOk
  <2> QED BY <1>8, <2>2, Zenon DEF ProcShape
<1>12. BuffersApart'
  BY <1>1, <1>3, <1>8, BuffersSame, Zenon
<1>13. Linked(p, h, j, k)'
  <2>1. h \in Ids \ disk'.free /\ j \in Ids \ disk'.free /\ k \in Ids \ disk'.free
    BY <1>4, Zenon DEF FillDescs
  <2>2. /\ disk'.desc[h].next = j /\ disk'.desc[j].next = k /\ disk'.desc[j].addr = vproc'[p].b
        /\ disk'.desc[k].addr = h
    BY <1>4, <1>8, Zenon DEF FillDescs
  <2>3. /\ disk'.ops[h] = [write |-> vproc'[p].write, block |-> vproc'[p].block]
        /\ disk'.info[h].b = vproc'[p].b
    BY <1>4 DEF FillHead, FillProcs
  <2> QED BY <1>3, <1>8, <2>1, <2>2, <2>3, Zenon DEF Linked
<1>14. ASSUME NEW q \in DiskProcs, q # p, Busy(q)'
       PROVE  Busy(q) /\ KeepsChain(q)
  <2>1. Busy(q) /\ SameRequest(q)
    BY <1>1, <1>8, <1>14, Zenon DEF Busy, SameRequest, ProcShape, ProcOk
  <2>2. ASSUME NEW i \in Chain(vproc[q].head)
        PROVE  i \in Ids /\ i \notin {h, j, k} /\ i \notin disk.free
    BY <1>1, <1>3, <2>1, ChainNotFree, Zenon
  <2>3. \A i \in Chain(vproc[q].head) : disk'.desc[i] = disk.desc[i] /\ i \notin disk'.free
    BY <1>4, <2>2, Zenon DEF FillDescs
  <2>4. \A i \in Chain(vproc[q].head) : disk'.ops[i] = disk.ops[i] /\ disk'.info[i] = disk.info[i]
    BY <1>4, <2>2 DEF FillHead
  <2> QED BY <2>1, <2>3, <2>4, Zenon DEF KeepsChain
<1>15. ChainInv'
  <2>1. \A q \in DiskProcs : Busy(q)' => \E a, b, c \in Ids : Linked(q, a, b, c)'
    BY <1>1, <1>13, <1>14, ChainKept, Zenon
  <2> QED BY <2>1, Zenon DEF ChainInv
<1>16. ChainsApart'
  <2>1. ASSUME NEW q \in DiskProcs, q # p, Busy(q)'
        PROVE  /\ (Chain(vproc[q].head))' = Chain(vproc[q].head)
               /\ Busy(q) /\ \A i \in Chain(vproc[q].head) : i \notin disk.free
    BY <1>1, <1>14, <2>1, ChainKept, ChainNotFree, Zenon
  <2>2. \A i \in (Chain(vproc[p].head))' : i \in disk.free
    <3>1. (Chain(vproc[p].head))' = {h, j, k}
      <4>1. vproc'[p].head = h /\ disk'.desc[h].next = j /\ disk'.desc[j].next = k /\ j # Nobody
        BY <1>13, DriverAssumption, Zenon DEF Linked, Ids
      <4>2. (Chain(vproc[p].head))' = {h, j} \cup {k}
        BY <4>1, Zenon DEF Chain
      <4> QED BY <4>2, Zenon
    <3> QED BY <1>3, <3>1, Zenon
  <2>3. ASSUME NEW q \in DiskProcs, NEW r \in DiskProcs, q # r, Busy(q)', Busy(r)'
        PROVE  (Chain(vproc[q].head))' \cap (Chain(vproc[r].head))' = {}
    <3>1. CASE q = p
      BY <2>1, <2>2, <2>3, <3>1, Zenon
    <3>2. CASE r = p
      BY <2>1, <2>2, <2>3, <3>2, Zenon
    <3>3. CASE q # p /\ r # p
      BY <1>1, <2>1, <2>3, <3>3, Zenon DEF ChainsApart
    <3> QED BY <3>1, <3>2, <3>3, Zenon
  <2> QED BY <2>3, Zenon DEF ChainsApart
<1>17. CountInv'
  <2>1. IsFiniteSet(disk.free) /\ Cardinality(disk.free) \in Nat
    BY <1>1, IdsFinite, FS_Subset, FS_CardinalityType, Zenon DEF DiskShape
  <2>2. IsFiniteSet(disk.free \ {h}) /\ Cardinality(disk.free \ {h}) = Cardinality(disk.free) - 1
    BY <1>3, <2>1, FS_RemoveElement, Zenon
  <2>3. /\ IsFiniteSet((disk.free \ {h}) \ {j})
        /\ Cardinality((disk.free \ {h}) \ {j}) = Cardinality(disk.free \ {h}) - 1
    BY <1>3, <2>2, FS_RemoveElement, Zenon
  <2>4. /\ Cardinality(((disk.free \ {h}) \ {j}) \ {k}) = Cardinality((disk.free \ {h}) \ {j}) - 1
        /\ disk'.free = ((disk.free \ {h}) \ {j}) \ {k}
    <3>1. k \in (disk.free \ {h}) \ {j}
      BY <1>3, Zenon
    <3>2. disk'.free = ((disk.free \ {h}) \ {j}) \ {k}
      BY <1>4, Zenon DEF FillDescs
    <3> QED BY <2>3, <3>1, <3>2, FS_RemoveElement, Zenon
  <2>5. BusyProcs' = BusyProcs \cup {p} /\ p \notin BusyProcs
    BY <1>7, <1>8, DriverAssumption, Zenon DEF BusyProcs, Ids
  <2>6. IsFiniteSet(BusyProcs) /\ Cardinality(BusyProcs) \in Nat
    BY DriverAssumption, FS_Subset, FS_CardinalityType, Zenon DEF BusyProcs
  <2>7. Cardinality(BusyProcs') = Cardinality(BusyProcs) + 1
    BY <2>5, <2>6, FS_AddElement, Zenon
  <2>8. Cardinality(disk'.free) = Cardinality(disk.free) - 3
    BY <2>1, <2>2, <2>3, <2>4
  <2>9. Cardinality(disk.free) + 3 * Cardinality(BusyProcs) = NUM
    BY <1>1, Zenon DEF CountInv
  <2>10. Cardinality(disk'.free) + 3 * Cardinality(BusyProcs') = NUM
    BY <2>1, <2>6, <2>7, <2>8, <2>9
  <2> QED BY <2>10, Zenon DEF CountInv
<1>18. PICK s, n \in Nat : AvailAt(s, n)
  BY <1>2, Zenon DEF AvailInv
<1>19. HasEntries(disk'.avail, s, n + 1) /\ Queued' = Queued \cup {h} /\ disk'.avail[Slot(s + n)] = h
  <2>1. HasEntries(disk.avail, s, n) /\ disk.availIdx = Index(s + n)
    BY <1>3, <1>18, DriverAssumption, Zenon DEF AvailAt
  <2>2. s + n \in Nat
    OBVIOUS
  <2>3. Stored(disk'.avail, disk.avail, s + n, h) /\ Slot(s + n) \in Ids
    BY <1>5, <2>1, <2>2, IndexFacts, Zenon DEF Stored
  <2>4. h \notin Entries(disk.avail) /\ j \notin Entries(disk.avail)
    BY <1>9, Zenon DEF Pending, Queued
  <2>5. HasEntries(disk'.avail, s, n + 1) /\ Entries(disk'.avail) = Entries(disk.avail) \cup {h}
    BY <1>3, <2>1, <2>3, <2>4, RingPut
  <2>6. disk'.avail[Slot(s + n)] = h
    BY <2>1, <2>3, Zenon DEF Stored, HasEntries
  <2> QED BY <2>5, <2>6, Zenon DEF Queued
<1>20. AvailInv' /\ UsedInv'
  <2>1. AvailAt(s, n)'
    BY <1>3, <1>5, <1>8, <1>18, <1>19, Zenon DEF AvailAt
  <2> QED BY <1>2, <1>5, <2>1, UsedSame, Zenon DEF AvailInv
<1>21. Completed' = Completed /\ Pending' = Pending \cup {h}
  <2>1. Completed' = Completed
    BY <1>5, Zenon DEF Completed
  <2> QED BY <1>3, <1>19, <2>1, Zenon DEF Pending
<1>22. PlaceInv'
  BY <1>2, <1>3, <1>9, <1>19, <1>21, Zenon DEF PlaceInv, Pending
<1>23. RequestInv'
  <2>1. bdisk'[vproc[p].b] = 1 /\ \A b \in Bufs : b # vproc[p].b => bdisk'[b] = bdisk[b]
    BY <1>1, <1>6, <1>7, Zenon DEF DiskShape
  <2>2. ASSUME NEW q \in DiskProcs, q # p, vproc[q].pc # "out"
        PROVE  bdisk'[vproc'[q].b] = bdisk[vproc[q].b]
    <3>1. vproc[q].b \in Bufs
      BY <1>1, <2>2, Zenon DEF ProcShape, ProcOk
    <3>2. vproc[q].b # vproc[p].b
      BY <1>1, <1>3, <2>2 DEF BuffersApart
    <3> QED BY <1>8, <2>1, <2>2, <3>1, <3>2, Zenon
  <2>3. ASSUME NEW q \in DiskProcs, q # p, NEW i \in Ids
        PROVE  Owns(q, i)' <=> Owns(q, i)
    <3>1. CASE vproc[q].pc = "out"
      <4>1. vproc[q].head # i
        BY <1>1, <3>1, DriverAssumption, Zenon DEF ProcShape, ProcOk, Ids
      <4> QED BY <1>8, <2>3, <4>1, Zenon DEF Owns
    <3>2. CASE vproc[q].pc # "out"
      BY <1>8, <2>2, <2>3, <3>2, Zenon DEF Owns
    <3> QED BY <3>1, <3>2, Zenon
  <2>4. Owns(p, h)' /\ \A i \in Ids : (Owns(p, i)' => i = h) /\ ~Owns(p, i)
    BY <1>7, <1>8, <2>1, DriverAssumption, Zenon DEF Owns, Ids
  <2>5. \A i \in Pending' : \E q \in DiskProcs : Owns(q, i)'
    BY <1>2, <1>21, <2>3, <2>4, PendingIds, Zenon DEF RequestInv
  <2>6. \A q \in DiskProcs : \A i \in Ids : Owns(q, i)' => i \in Pending'
    BY <1>2, <1>21, <2>3, <2>4, Zenon DEF RequestInv
  <2>7. ASSUME NEW q \in DiskProcs, vproc'[q].pc = "wbuf" PROVE bdisk'[vproc'[q].b] = 1
    <3>1. q # p /\ vproc[q].pc = "wbuf"
      BY <1>8, <2>7, Zenon
    <3> QED BY <1>2, <2>2, <3>1, Zenon DEF RequestInv
  <2> QED BY <2>5, <2>6, <2>7, Zenon DEF RequestInv
<1>24. LockInv'
  <2>1. ASSUME NEW q \in DiskProcs PROVE vproc'[q].pc = "publish" <=> disk'.lock = q
    BY <1>2, <1>3, <1>8, DriverAssumption, Zenon DEF LockInv
  <2>2. Completed' # {} => dev'.irq
    BY <1>2, <1>3, <1>21, DriverAssumption, Zenon DEF LockInv
  <2>3. ASSUME NEW i \in Completed PROVE disk'.info[i].status = 0
    <3>1. i \in Ids /\ i # h
      BY <1>9, Zenon DEF Completed, Entries, Pending
    <3> QED BY <1>2, <1>4, <3>1 DEF LockInv, FillHead
  <2> QED BY <1>21, <2>1, <2>2, <2>3, Zenon DEF LockInv
<1>25. (DiskShape /\ ProcShape /\ BuffersApart /\ ChainInv /\ ChainsApart /\ CountInv)'
  BY <1>10, <1>11, <1>12, <1>15, <1>16, <1>17, Zenon
<1>26. (PlaceInv /\ RequestInv /\ LockInv /\ AvailInv /\ UsedInv /\ ~diskPanic)'
  BY <1>2, <1>3, <1>20, <1>22, <1>23, <1>24, Zenon
<1> QED BY <1>25, <1>26, Zenon DEF DiskInv

-----------------------------------------------------------------------------
(* The request becomes visible to the device, and its process sleeps. *)

LEMMA PublishKeeps ==
  ASSUME DiskInv, NEW p \in DiskProcs, virtio_disk_publish(p)
  PROVE  DiskInv'
<1>1. DiskShape /\ ProcShape /\ BuffersApart /\ ChainInv /\ ChainsApart /\ CountInv
  BY Zenon DEF DiskInv
<1>2. PlaceInv /\ RequestInv /\ LockInv /\ AvailInv /\ UsedInv /\ ~diskPanic
  BY Zenon DEF DiskInv
<1>3. vproc[p].pc = "publish" /\ disk.lock = p /\ UNCHANGED <<dev, bdisk, bdata, sector, diskPanic>>
  BY <1>2, Zenon DEF virtio_disk_publish, LockInv
<1>4. /\ DOMAIN disk' = DOMAIN disk /\ disk'.free = disk.free /\ disk'.desc = disk.desc
      /\ disk'.ops = disk.ops /\ disk'.info = disk.info /\ disk'.avail = disk.avail
      /\ disk'.used = disk.used /\ disk'.usedIdx = disk.usedIdx /\ disk'.used_idx = disk.used_idx
      /\ disk'.availIdx = (disk.availIdx + 1) % IDX /\ disk'.lock = Nobody
  <2>1. disk' = [disk EXCEPT !.availIdx = (@ + 1) % IDX, !.lock = Nobody] /\ DiskFields \subseteq DOMAIN disk
    BY <1>1, Zenon DEF virtio_disk_publish, DiskShape
  <2> QED BY <2>1 DEF DiskFields
<1>5. /\ DOMAIN vproc' = DiskProcs /\ vproc'[p].pc = "wbuf"
      /\ \A q \in DiskProcs : SameRequest(q) /\ (q # p => vproc'[q] = vproc[q])
  <2>1. DOMAIN vproc = DiskProcs /\ \A q \in DiskProcs : ProcFields \subseteq DOMAIN vproc[q]
    BY <1>1, Zenon DEF ProcShape, ProcOk
  <2>2. /\ DOMAIN vproc' = DiskProcs /\ vproc'[p] = [vproc[p] EXCEPT !.pc = "wbuf"]
        /\ \A q \in DiskProcs : q # p => vproc'[q] = vproc[q]
    BY <2>1, Zenon DEF virtio_disk_publish
  <2>3. SameRequest(p) /\ vproc'[p].pc = "wbuf"
    BY <2>1, <2>2, Zenon DEF SameRequest, ProcFields
  <2>4. \A q \in DiskProcs : q # p => SameRequest(q)
    BY <2>1, <2>2, Zenon DEF SameRequest
  <2> QED BY <2>2, <2>3, <2>4, Zenon
<1>6. DiskShape' /\ ~diskPanic' /\ Queued' = Queued /\ Completed' = Completed
  BY <1>1, <1>2, <1>3, <1>4, Zenon DEF DiskShape, Queued, Completed
<1>7. ProcShape'
  <2>1. ProcOk(p)'
    BY <1>1, <1>3, <1>5, Zenon DEF ProcShape, ProcOk, SameRequest
  <2>2. \A q \in DiskProcs : ProcOk(q)'
    BY <1>1, <1>5, <2>1, Zenon DEF ProcShape, ProcOk
  <2> QED BY <1>5, <2>2, Zenon DEF ProcShape
<1>8. BuffersApart'
  BY <1>1, <1>3, <1>5, BuffersSame, Zenon DEF SameRequest
<1>9. ChainInv' /\ ChainsApart' /\ CountInv'
  BY <1>1, <1>4, <1>5, DescriptorsSame, Zenon
<1>10. PICK s, n \in Nat : AvailAt(s, n)
  BY <1>2, Zenon DEF AvailInv
<1>11. HasEntries(disk.avail, s, n + 1) /\ disk.avail[Slot(s + n)] = vproc[p].head /\ disk.availIdx = Index(s + n)
  BY <1>3, <1>10, Zenon DEF AvailAt
<1>12. s + n \in Nat /\ n + 1 \in Nat /\ (s + n) + 1 = s + (n + 1)
  OBVIOUS
<1>13. AvailInv' /\ UsedInv'
  <2>1. disk'.availIdx = Index(s + (n + 1))
    BY <1>4, <1>11, <1>12, IndexFacts, Zenon
  <2>2. AvailAt(s, n + 1)'
    BY <1>3, <1>4, <1>10, <1>11, <2>1, DriverAssumption, Zenon DEF AvailAt
  <2> QED BY <1>2, <1>4, <1>12, <2>2, UsedSame, Zenon DEF AvailInv
<1>14. bdisk[vproc[p].b] = 1
  <2>1. vproc[p].head \in Ids /\ Busy(p)
    BY <1>1, <1>3, DriverAssumption, Zenon DEF ProcShape, ProcOk, Busy, Ids
  <2>2. vproc[p].head \in Pending
    BY <1>11, <1>12, <2>1, IndexFacts, Zenon DEF Pending, Queued, Entries
  <2>3. PICK q \in DiskProcs : Owns(q, vproc[p].head)
    BY <1>2, <2>2, Zenon DEF RequestInv
  <2>4. q = p
    BY <1>1, <2>1, <2>3, HeadsDiffer, Zenon DEF Owns
  <2> QED BY <2>3, <2>4, Zenon DEF Owns
<1>15. PlaceInv' /\ Pending' = Pending
  BY <1>2, <1>3, <1>6, Zenon DEF PlaceInv, Pending
<1>16. RequestInv'
  <2>1. \A q \in DiskProcs : \A i \in Ids : Owns(q, i)' <=> Owns(q, i)
    BY <1>3, <1>5, Zenon DEF Owns, SameRequest
  <2>2. ASSUME NEW q \in DiskProcs, vproc'[q].pc = "wbuf" PROVE bdisk'[vproc'[q].b] = 1
    <3>1. vproc'[q].b = vproc[q].b
      BY <1>5, Zenon DEF SameRequest
    <3> QED BY <1>2, <1>3, <1>5, <1>14, <2>2, <3>1, Zenon DEF RequestInv
  <2> QED BY <1>2, <1>15, <2>1, <2>2, RequestsSame, Zenon
<1>17. LockInv'
  <2>1. ASSUME NEW q \in DiskProcs PROVE vproc'[q].pc # "publish" /\ disk'.lock # q
    BY <1>2, <1>3, <1>4, <1>5, DriverAssumption, Zenon DEF LockInv
  <2>2. Completed # {} => dev.irq
    BY <1>2, <1>3, DriverAssumption, Zenon DEF LockInv
  <2> QED BY <1>2, <1>3, <1>4, <1>6, <2>1, <2>2, Zenon DEF LockInv
<1>18. (DiskShape /\ ProcShape /\ BuffersApart /\ ChainInv /\ ChainsApart /\ CountInv)'
  BY <1>6, <1>7, <1>8, <1>9, Zenon
<1>19. (PlaceInv /\ RequestInv /\ LockInv /\ AvailInv /\ UsedInv /\ ~diskPanic)'
  BY <1>6, <1>13, <1>15, <1>16, <1>17, Zenon
<1> QED BY <1>18, <1>19, Zenon DEF DiskInv

-----------------------------------------------------------------------------
(* The device and the interrupt handler, when no process is woken *)

LEMMA BehindKeeps ==
  ASSUME DiskInv, UNCHANGED <<vproc, bdisk, diskPanic>>, DiskShape',
         disk'.free = disk.free, disk'.desc = disk.desc, disk'.ops = disk.ops,
         \A i \in Ids : disk'.info[i].b = disk.info[i].b,
         PlaceInv', Pending' = Pending, LockInv', AvailInv', UsedInv'
  PROVE  DiskInv'
<1>1. DiskShape /\ ProcShape /\ BuffersApart /\ ChainInv /\ ChainsApart /\ CountInv
  BY Zenon DEF DiskInv
<1>2. PlaceInv /\ RequestInv /\ ~diskPanic
  BY Zenon DEF DiskInv
<1>3. \A q \in DiskProcs : SameRequest(q)
  BY <1>1, Zenon DEF SameRequest, ProcShape, ProcOk
<1>4. ChainInv' /\ ChainsApart' /\ CountInv'
  BY <1>1, <1>3, DescriptorsSame, Zenon
<1>5. ProcShape' /\ BuffersApart'
  BY <1>1, Zenon DEF ProcShape, ProcOk, BuffersApart
<1>6. RequestInv'
  <2>1. \A q \in DiskProcs : \A i \in Ids : Owns(q, i)' <=> Owns(q, i)
    BY Zenon DEF Owns
  <2>2. \A q \in DiskProcs : vproc'[q].pc = "wbuf" => bdisk'[vproc'[q].b] = 1
    BY <1>2, Zenon DEF RequestInv
  <2> QED BY <1>2, <2>1, <2>2, RequestsSame, Zenon
<1>7. (DiskShape /\ ProcShape /\ BuffersApart /\ ChainInv /\ ChainsApart /\ CountInv)'
  BY <1>4, <1>5, Zenon
<1>8. (PlaceInv /\ RequestInv /\ LockInv /\ AvailInv /\ UsedInv /\ ~diskPanic)'
  BY <1>2, <1>6, Zenon
<1> QED BY <1>7, <1>8, Zenon DEF DiskInv

LEMMA FetchKeeps == ASSUME DiskInv, device_fetch PROVE DiskInv'
<1>1. DiskShape /\ PlaceInv /\ LockInv /\ AvailInv /\ UsedInv
  BY Zenon DEF DiskInv
<1>2. dev.seen # disk.availIdx /\ UNCHANGED <<vproc, bdisk, bdata, sector, diskPanic>>
  BY Zenon DEF device_fetch
<1>3. PICK s, n \in Nat : AvailAt(s, n)
  BY <1>1, Zenon DEF AvailInv
<1>4. dev.seen = Index(s) /\ disk.availIdx = Index(s + n)
  BY <1>3, Zenon DEF AvailAt
<1>5. n # 0 /\ n - 1 \in Nat /\ s + 1 \in Nat /\ (s + 1) + (n - 1) = s + n /\ (n - 1) + 1 = n
  BY <1>2, <1>4
<1>6. PICK x : x = disk.avail[Slot(s)]
  OBVIOUS
<1>7. /\ DOMAIN disk' = DOMAIN disk /\ disk'.free = disk.free /\ disk'.desc = disk.desc
      /\ disk'.ops = disk.ops /\ disk'.info = disk.info /\ disk'.availIdx = disk.availIdx
      /\ disk'.used = disk.used /\ disk'.usedIdx = disk.usedIdx /\ disk'.used_idx = disk.used_idx
      /\ disk'.lock = disk.lock /\ Stored(disk'.avail, disk.avail, s, Nobody)
  <2>1. dev.seen % NUM = Slot(s)
    BY <1>4, IndexFacts, Zenon
  <2>2. disk' = [disk EXCEPT !.avail[Slot(s)] = Nobody] /\ DiskFields \subseteq DOMAIN disk
    BY <1>1, <2>1, Zenon DEF device_fetch, DiskShape
  <2> QED BY <2>2 DEF DiskFields, Stored
<1>8. /\ DOMAIN dev' = DOMAIN dev /\ dev'.inflight = dev.inflight \cup {x} /\ dev'.irq = dev.irq
      /\ dev'.seen = Index(s + 1)
  <2>1. dev.seen % NUM = Slot(s) /\ (dev.seen + 1) % IDX = Index(s + 1)
    BY <1>4, IndexFacts, Zenon
  <2>2. dev' = [dev EXCEPT !.inflight = @ \cup {x}, !.seen = (@ + 1) % IDX]
    BY <1>6, <2>1, Zenon DEF device_fetch
  <2>3. {"seen", "inflight", "irq"} \subseteq DOMAIN dev
    BY <1>1, Zenon DEF DiskShape
  <2>4. /\ DOMAIN dev' = DOMAIN dev /\ dev'.inflight = dev.inflight \cup {x} /\ dev'.irq = dev.irq
        /\ dev'.seen = (dev.seen + 1) % IDX
    BY <2>2, <2>3
  <2> QED BY <2>1, <2>4, Zenon
<1>9. /\ Queued' = Queued \ {x} /\ x \in Queued
      /\ disk.lock \notin DiskProcs => HasEntries(disk'.avail, s + 1, n - 1)
      /\ disk.lock \in DiskProcs =>
           HasEntries(disk'.avail, s + 1, n) /\ disk'.avail[Slot(s + n)] = vproc[disk.lock].head
  <2>1. CASE disk.lock \notin DiskProcs
    <3>1. HasEntries(disk.avail, s, n) /\ n \in Nat \ {0}
      BY <1>3, <1>5, <2>1, Zenon DEF AvailAt
    <3>2. Stored(disk'.avail, disk.avail, s, Nobody)
      BY <1>7, Zenon
    <3>3. /\ HasEntries(disk'.avail, s + 1, n - 1)
          /\ Entries(disk'.avail) = Entries(disk.avail) \ {disk.avail[Slot(s)]}
          /\ disk.avail[Slot(s)] \in Entries(disk.avail)
      BY <3>1, <3>2, RingGet
    <3> QED BY <1>6, <2>1, <3>3, Zenon DEF Queued
  <2>2. CASE disk.lock \in DiskProcs
    <3>1. HasEntries(disk.avail, s, n + 1) /\ disk.avail[Slot(s + n)] = vproc[disk.lock].head
      BY <1>3, <2>2, Zenon DEF AvailAt
    <3>2. n + 1 \in Nat \ {0} /\ (n + 1) - 1 = n
      OBVIOUS
    <3>3. /\ HasEntries(disk'.avail, s + 1, (n + 1) - 1)
          /\ Entries(disk'.avail) = Entries(disk.avail) \ {disk.avail[Slot(s)]}
          /\ disk.avail[Slot(s)] \in Entries(disk.avail) /\ n + 1 <= NUM
      BY <1>7, <3>1, <3>2, RingGet
    <3>4. Slot(s + n) # Slot(s)
      <4>1. 0 \in Nat /\ 0 < n /\ n < 0 + NUM /\ s + 0 = s
        BY <1>5, <3>3, Sizes
      <4>2. Slot(s + 0) # Slot(s + n)
        BY <4>1, SlotDiffers, Zenon
      <4> QED BY <4>1, <4>2, Zenon
    <3>5. disk'.avail[Slot(s + n)] = disk.avail[Slot(s + n)]
      <4>1. DOMAIN disk.avail = Ids
        BY <3>1, Zenon DEF HasEntries
      <4>2. Slot(s + n) \in Ids /\ Stored(disk'.avail, disk.avail, s, Nobody)
        <5>1. s + n \in Nat
          OBVIOUS
        <5> QED BY <1>7, <5>1, IndexFacts, Zenon
      <4> QED BY <3>4, <4>1, <4>2, Zenon DEF Stored
    <3> QED BY <1>6, <2>2, <3>1, <3>2, <3>3, <3>5, Zenon DEF Queued
  <2> QED BY <2>1, <2>2, Zenon
<1>10. AvailInv' /\ UsedInv'
  <2>1. AvailAt(s + 1, n - 1)'
    BY <1>2, <1>4, <1>5, <1>7, <1>8, <1>9, Zenon DEF AvailAt
  <2> QED BY <1>1, <1>5, <1>7, <2>1, UsedSame, Zenon DEF AvailInv
<1>11. Completed' = Completed /\ Pending' = Pending
  <2>1. Completed' = Completed
    BY <1>7, Zenon DEF Completed
  <2> QED BY <1>8, <1>9, <2>1, Zenon DEF Pending
<1>12. PlaceInv'
  <2>1. x \in Ids /\ x \notin Completed
    BY <1>1, <1>9, Zenon DEF PlaceInv, Queued, Entries
  <2> QED BY <1>1, <1>8, <1>9, <1>11, <2>1, Zenon DEF PlaceInv
<1>13. DiskShape' /\ LockInv'
  BY <1>1, <1>2, <1>7, <1>8, <1>11, Zenon DEF DiskShape, LockInv
<1> QED BY <1>2, <1>7, <1>10, <1>11, <1>12, <1>13, BehindKeeps, Zenon

(* The handler starts, and finds no completion left. *)
LEMMA IntrKeeps == ASSUME DiskInv, virtio_disk_intr PROVE DiskInv'
<1>1. DiskShape /\ PlaceInv /\ LockInv /\ AvailInv /\ UsedInv
  BY Zenon DEF DiskInv
<1>2. dev.irq /\ disk.lock = Nobody /\ UNCHANGED <<vproc, bdisk, bdata, sector, diskPanic>>
  BY Zenon DEF virtio_disk_intr
<1>3. /\ DOMAIN disk' = DOMAIN disk /\ disk'.free = disk.free /\ disk'.desc = disk.desc
      /\ disk'.ops = disk.ops /\ disk'.info = disk.info /\ disk'.availIdx = disk.availIdx
      /\ disk'.avail = disk.avail
      /\ disk'.used = disk.used /\ disk'.usedIdx = disk.usedIdx /\ disk'.used_idx = disk.used_idx
      /\ disk'.lock = "intr"
  <2>1. disk' = [disk EXCEPT !.lock = "intr"] /\ DiskFields \subseteq DOMAIN disk
    BY <1>1, Zenon DEF virtio_disk_intr, DiskShape
  <2> QED BY <2>1 DEF DiskFields
<1>4. DOMAIN dev' = DOMAIN dev /\ dev'.inflight = dev.inflight /\ dev'.seen = dev.seen
  <2>1. dev' = [dev EXCEPT !.irq = FALSE] /\ {"seen", "inflight", "irq"} \subseteq DOMAIN dev
    BY <1>1, Zenon DEF virtio_disk_intr, DiskShape
  <2> QED BY <2>1
<1>5. AvailInv' /\ UsedInv'
  BY <1>1, <1>2, <1>3, <1>4, AvailSame, UsedSame, DriverAssumption, Zenon
<1>6. Queued' = Queued /\ Completed' = Completed /\ Pending' = Pending
  BY <1>3, <1>4, Zenon DEF Pending, Queued, Completed
<1>7. DiskShape' /\ PlaceInv'
  BY <1>1, <1>2, <1>3, <1>4, <1>6, Zenon DEF DiskShape, PlaceInv
<1>8. LockInv'
  <2>1. \A q \in DiskProcs : vproc'[q].pc # "publish" /\ disk'.lock # q
    BY <1>1, <1>2, <1>3, DriverAssumption, Zenon DEF LockInv
  <2> QED BY <1>1, <1>3, <1>6, <2>1, Zenon DEF LockInv
<1> QED BY <1>2, <1>3, <1>5, <1>6, <1>7, <1>8, BehindKeeps, Zenon

(* The second descriptor of a request heads none: the rings never fill up. *)
LEMMA NotAllPending ==
  ASSUME ProcShape, ChainInv, ChainsApart, PlaceInv, RequestInv, NEW i \in Pending
  PROVE  \E y \in Ids : y # i /\ y \notin Pending
<1>1. PICK q \in DiskProcs : Owns(q, i) /\ Busy(q)
  BY PendingOwned, Zenon
<1>2. PICK h, j, k \in Ids : Linked(q, h, j, k)
  BY <1>1, Zenon DEF ChainInv
<1>3. h = i /\ j # i /\ j \in Chain(vproc[q].head)
  <2>1. vproc[q].head = h /\ disk.desc[h].next = j /\ h # j
    BY <1>2, Zenon DEF Linked
  <2> QED BY <1>1, <2>1, Zenon DEF Owns, Chain
<1>4. ASSUME j \in Pending PROVE FALSE
  <2>1. PICK r \in DiskProcs : Owns(r, j) /\ Busy(r)
    BY <1>4, PendingOwned, Zenon
  <2>2. j \in Chain(vproc[r].head)
    BY <2>1, Zenon DEF Owns, Chain
  <2>3. r = q
    BY <1>1, <1>3, <2>1, <2>2, Zenon DEF ChainsApart
  <2> QED BY <1>1, <1>3, <2>1, <2>3, Zenon DEF Owns
<1> QED BY <1>3, <1>4, Zenon

LEMMA IntrEndKeeps == ASSUME DiskInv, virtio_disk_intr_end PROVE DiskInv'
<1>1. DiskShape /\ PlaceInv /\ LockInv /\ AvailInv /\ UsedInv
  BY Zenon DEF DiskInv
<1>2. /\ disk.lock = "intr" /\ disk.used_idx = disk.usedIdx
      /\ UNCHANGED <<dev, vproc, bdisk, bdata, sector, diskPanic>>
  BY Zenon DEF virtio_disk_intr_end
<1>3. /\ DOMAIN disk' = DOMAIN disk /\ disk'.free = disk.free /\ disk'.desc = disk.desc
      /\ disk'.ops = disk.ops /\ disk'.info = disk.info /\ disk'.availIdx = disk.availIdx
      /\ disk'.avail = disk.avail
      /\ disk'.used = disk.used /\ disk'.usedIdx = disk.usedIdx /\ disk'.used_idx = disk.used_idx
      /\ disk'.lock = Nobody
  <2>1. disk' = [disk EXCEPT !.lock = Nobody] /\ DiskFields \subseteq DOMAIN disk
    BY <1>1, Zenon DEF virtio_disk_intr_end, DiskShape
  <2> QED BY <2>1 DEF DiskFields
<1>4. AvailInv' /\ UsedInv'
  BY <1>1, <1>2, <1>3, AvailSame, UsedSame, DriverAssumption, Zenon
<1>5. Queued' = Queued /\ Completed' = Completed /\ Pending' = Pending
  BY <1>2, <1>3, Zenon DEF Pending, Queued, Completed
<1>6. DiskShape' /\ PlaceInv'
  BY <1>1, <1>2, <1>3, <1>5, Zenon DEF DiskShape, PlaceInv
<1>7. Completed = {}
  <2>1. SUFFICES ASSUME NEW i \in Completed PROVE FALSE
    BY Zenon
  <2>2. PICK y \in Ids : y # i /\ y \notin Pending
    BY NotAllPending, Zenon DEF DiskInv, Pending
  <2>3. IsFiniteSet(Completed) /\ Completed \subseteq Ids \ {y} /\ i \in Completed
    BY <2>1, <2>2, IdsFinite, FS_Subset, Zenon DEF Completed, Entries, Pending
  <2>4. IsFiniteSet(Ids \ {y}) /\ Cardinality(Ids \ {y}) = NUM - 1
    BY <2>2, IdsFinite, FS_RemoveElement
  <2>5. Cardinality(Completed) <= NUM - 1
    BY <2>3, <2>4, FS_Subset
  <2>6. PICK s, n \in Nat : /\ disk.used_idx = Index(s) /\ disk.usedIdx = Index(s + n)
                            /\ HasEntries(disk.used, s, n)
    BY <1>1, Zenon DEF UsedInv
  <2>7. n = Cardinality(Completed)
    BY <2>6, Zenon DEF HasEntries, Completed
  <2>8. n < IDX
    BY <2>5, <2>7, Sizes
  <2>9. n = 0
    BY <1>2, <2>6, <2>8, IndexDiffers, Zenon
  <2> QED BY <2>3, <2>7, <2>9, FS_EmptySet, Zenon
<1>8. LockInv'
  <2>1. \A q \in DiskProcs : vproc'[q].pc # "publish" /\ disk'.lock # q
    BY <1>1, <1>2, <1>3, DriverAssumption, Zenon DEF LockInv
  <2> QED BY <1>5, <1>7, <2>1, Zenon DEF LockInv
<1> QED BY <1>2, <1>3, <1>4, <1>5, <1>6, <1>8, BehindKeeps, Zenon

-----------------------------------------------------------------------------
(* The device follows the chain of a request, moves the block, writes the  *)
(* status byte and puts the request into the ring of completions.          *)

LEMMA DeviceFollows ==
  ASSUME DiskInv, NEW i \in Pending
  PROVE  \E q \in DiskProcs :
           /\ Owns(q, i) /\ Busy(q) /\ vproc[q].pc # "out"
           /\ disk.desc[disk.desc[i].next].addr = vproc[q].b
           /\ disk.desc[disk.desc[disk.desc[i].next].next].addr = i
           /\ disk.ops[i] = [write |-> vproc[q].write, block |-> vproc[q].block]
           /\ disk.info[i].b = vproc[q].b
<1>1. ProcShape /\ ChainInv /\ PlaceInv /\ RequestInv
  BY Zenon DEF DiskInv
<1>2. PICK q \in DiskProcs : Owns(q, i) /\ Busy(q) /\ vproc[q].pc # "out"
  BY <1>1, PendingOwned, Zenon
<1>3. PICK h, j, k \in Ids : Linked(q, h, j, k)
  BY <1>1, <1>2, Zenon DEF ChainInv
<1>4. /\ h = i /\ disk.desc[h].next = j /\ disk.desc[j].next = k
      /\ disk.desc[j].addr = vproc[q].b /\ disk.desc[k].addr = h
      /\ disk.ops[h] = [write |-> vproc[q].write, block |-> vproc[q].block] /\ disk.info[h].b = vproc[q].b
  BY <1>2, <1>3, Zenon DEF Owns, Linked
<1> QED BY <1>2, <1>4, Zenon

LEMMA CompleteKeeps == ASSUME DiskInv, NEW i \in Ids, device_complete(i) PROVE DiskInv'
<1>1. DiskShape /\ ProcShape /\ ChainInv /\ ChainsApart /\ PlaceInv /\ RequestInv
  BY Zenon DEF DiskInv
<1>2. LockInv /\ AvailInv /\ UsedInv
  BY Zenon DEF DiskInv
<1>3. i \in dev.inflight /\ i \in Pending /\ UNCHANGED <<vproc, bdisk, diskPanic>>
  BY Zenon DEF device_complete, Pending
<1>4. PICK q \in DiskProcs : disk.desc[disk.desc[disk.desc[i].next].next].addr = i
  BY <1>3, DeviceFollows, Zenon
<1>5. PICK s, n \in Nat : /\ disk.used_idx = Index(s) /\ disk.usedIdx = Index(s + n)
                          /\ HasEntries(disk.used, s, n)
  BY <1>2, Zenon DEF UsedInv
<1>6. /\ s + n \in Nat /\ n + 1 \in Nat /\ (s + n) + 1 = s + (n + 1)
  OBVIOUS
<1>7. disk.usedIdx % NUM = Slot(s + n) /\ (disk.usedIdx + 1) % IDX = Index(s + (n + 1))
  BY <1>5, <1>6, IndexFacts, Zenon
<1>8. disk' = [disk EXCEPT !.info[i].status = 0, !.used[Slot(s + n)] = i, !.usedIdx = (@ + 1) % IDX]
  BY <1>4, <1>7, Zenon DEF device_complete
<1>9. /\ DOMAIN disk' = DOMAIN disk /\ disk'.free = disk.free /\ disk'.desc = disk.desc
      /\ disk'.ops = disk.ops /\ disk'.availIdx = disk.availIdx /\ disk'.avail = disk.avail
      /\ disk'.used_idx = disk.used_idx /\ disk'.lock = disk.lock
      /\ disk'.usedIdx = (disk.usedIdx + 1) % IDX /\ Stored(disk'.used, disk.used, s + n, i)
  <2>1. DiskFields \subseteq DOMAIN disk
    BY <1>1, Zenon DEF DiskShape
  <2> QED BY <1>8, <2>1 DEF DiskFields, Stored
<1>10. /\ DOMAIN disk'.info = Ids /\ disk'.info[i].status = 0
       /\ \A l \in Ids : /\ disk'.info[l].b = disk.info[l].b /\ {"b", "status"} \subseteq DOMAIN disk'.info[l]
                         /\ l # i => disk'.info[l] = disk.info[l]
  <2>1. DiskFields \subseteq DOMAIN disk
    BY <1>1, Zenon DEF DiskShape
  <2>2. disk'.info = [disk.info EXCEPT ![i] = [disk.info[i] EXCEPT !.status = 0]]
    BY <1>8, <2>1 DEF DiskFields
  <2>3. DOMAIN disk.info = Ids /\ \A l \in Ids : {"b", "status"} \subseteq DOMAIN disk.info[l]
    BY <1>1, Zenon DEF DiskShape
  <2>4. /\ DOMAIN disk'.info = Ids /\ disk'.info[i] = [disk.info[i] EXCEPT !.status = 0]
        /\ \A l \in Ids : l # i => disk'.info[l] = disk.info[l]
    BY <2>2, <2>3, Zenon
  <2>5. /\ disk'.info[i].status = 0 /\ disk'.info[i].b = disk.info[i].b
        /\ {"b", "status"} \subseteq DOMAIN disk'.info[i]
    BY <2>3, <2>4, Zenon
  <2> QED BY <2>3, <2>4, <2>5, Zenon
<1>11. /\ DOMAIN dev' = DOMAIN dev /\ dev'.inflight = dev.inflight \ {i} /\ dev'.irq
       /\ dev'.seen = dev.seen
  <2>1. dev' = [dev EXCEPT !.inflight = @ \ {i}, !.irq = TRUE] /\ {"seen", "inflight", "irq"} \subseteq DOMAIN dev
    BY <1>1, Zenon DEF device_complete, DiskShape
  <2> QED BY <2>1
<1>12. DOMAIN bdata' = Bufs /\ DOMAIN sector' = Blocks
  <2>1. DOMAIN bdata = Bufs /\ DOMAIN sector = Blocks
    BY <1>1, Zenon DEF DiskShape
  <2>2. DOMAIN bdata' = DOMAIN bdata /\ DOMAIN sector' = DOMAIN sector
    BY Zenon DEF device_complete
  <2> QED BY <2>1, <2>2, Zenon
<1>13. HasEntries(disk'.used, s, n + 1) /\ Completed' = Completed \cup {i}
  <2>1. PICK y \in Ids : y # i /\ y \notin Pending
    BY <1>1, <1>3, NotAllPending, Zenon
  <2>2. i \notin Entries(disk.used) /\ y \notin Entries(disk.used)
    BY <1>1, <1>3, <2>1, Zenon DEF PlaceInv, Pending, Completed
  <2>3. HasEntries(disk.used, s, n) /\ Stored(disk'.used, disk.used, s + n, i)
    BY <1>5, <1>9, Zenon
  <2>4. HasEntries(disk'.used, s, n + 1) /\ Entries(disk'.used) = Entries(disk.used) \cup {i}
    BY <2>1, <2>2, <2>3, RingPut
  <2> QED BY <2>4, Zenon DEF Completed
<1>14. UsedInv'
  BY <1>5, <1>6, <1>7, <1>9, <1>13, Zenon DEF UsedInv
<1>15. AvailInv'
  BY <1>2, <1>3, <1>9, <1>11, AvailSame, Zenon
<1>16. Queued' = Queued /\ Pending' = Pending
  <2>1. Queued' = Queued
    BY <1>9, Zenon DEF Queued
  <2> QED BY <1>3, <1>11, <1>13, <2>1, Zenon DEF Pending
<1>17. PlaceInv'
  BY <1>1, <1>3, <1>11, <1>13, <1>16, Zenon DEF PlaceInv
<1>18. DiskShape'
  <2>1. DOMAIN disk'.info = Ids /\ \A l \in Ids : {"b", "status"} \subseteq DOMAIN disk'.info[l]
    BY <1>10, Zenon
  <2> QED BY <1>1, <1>3, <1>9, <1>11, <1>12, <2>1, Zenon DEF DiskShape
<1>19. LockInv'
  <2>1. ASSUME NEW l \in Completed' PROVE disk'.info[l].status = 0
    <3>1. l \in Ids
      BY Zenon DEF Completed, Entries
    <3>2. CASE l = i
      BY <1>10, <3>2, Zenon
    <3>3. CASE l # i
      <4>1. l \in Completed /\ disk'.info[l] = disk.info[l]
        BY <1>10, <1>13, <3>1, <3>3, Zenon
      <4> QED BY <1>2, <4>1, Zenon DEF LockInv
    <3> QED BY <3>2, <3>3, Zenon
  <2> QED BY <1>2, <1>3, <1>9, <1>11, <2>1, Zenon DEF LockInv
<1>20. \A l \in Ids : disk'.info[l].b = disk.info[l].b
  BY <1>10, Zenon
<1> QED BY <1>3, <1>9, <1>14, <1>15, <1>16, <1>17, <1>18, <1>19, <1>20, BehindKeeps, Zenon

-----------------------------------------------------------------------------
(* One completion is handled: b->disk becomes 0 and b's waiter wakes up. *)

LEMMA IntrOneKeeps == ASSUME DiskInv, virtio_disk_intr_one PROVE DiskInv'
<1>1. DiskShape /\ ProcShape /\ BuffersApart /\ ChainInv /\ ChainsApart /\ CountInv
  BY Zenon DEF DiskInv
<1>2. PlaceInv /\ RequestInv /\ LockInv /\ AvailInv /\ UsedInv /\ ~diskPanic
  BY Zenon DEF DiskInv
<1>3. disk.lock = "intr" /\ disk.used_idx # disk.usedIdx /\ UNCHANGED <<dev, bdata, sector>>
  BY Zenon DEF virtio_disk_intr_one
<1>4. PICK s, n \in Nat : /\ disk.used_idx = Index(s) /\ disk.usedIdx = Index(s + n)
                          /\ HasEntries(disk.used, s, n)
  BY <1>2, Zenon DEF UsedInv
<1>5. n \in Nat \ {0} /\ n - 1 \in Nat /\ s + 1 \in Nat /\ (s + 1) + (n - 1) = s + n
  BY <1>3, <1>4
<1>6. disk.used_idx % NUM = Slot(s) /\ (disk.used_idx + 1) % IDX = Index(s + 1)
  BY <1>4, IndexFacts, Zenon
<1>7. PICK id : id = disk.used[Slot(s)]
  OBVIOUS
<1>8. /\ DOMAIN disk' = DOMAIN disk /\ disk'.free = disk.free /\ disk'.desc = disk.desc
      /\ disk'.ops = disk.ops /\ disk'.info = disk.info /\ disk'.availIdx = disk.availIdx
      /\ disk'.avail = disk.avail /\ disk'.usedIdx = disk.usedIdx /\ disk'.lock = disk.lock
      /\ disk'.used_idx = (disk.used_idx + 1) % IDX /\ Stored(disk'.used, disk.used, s, Nobody)
  <2>1. /\ disk' = [disk EXCEPT !.used[Slot(s)] = Nobody, !.used_idx = (@ + 1) % IDX]
        /\ DiskFields \subseteq DOMAIN disk
    BY <1>1, <1>6, Zenon DEF virtio_disk_intr_one, DiskShape
  <2> QED BY <2>1 DEF DiskFields, Stored
<1>9. HasEntries(disk'.used, s + 1, n - 1) /\ Completed' = Completed \ {id} /\ id \in Completed
  <2>1. HasEntries(disk.used, s, n) /\ Stored(disk'.used, disk.used, s, Nobody)
    BY <1>4, <1>8, Zenon
  <2>2. /\ HasEntries(disk'.used, s + 1, n - 1)
        /\ Entries(disk'.used) = Entries(disk.used) \ {disk.used[Slot(s)]}
        /\ disk.used[Slot(s)] \in Entries(disk.used)
    BY <1>5, <2>1, RingGet
  <2> QED BY <1>7, <2>2, Zenon DEF Completed
<1>10. id \in Pending /\ id \in Ids /\ id \notin Queued /\ id \notin dev.inflight
  <2>1. id \in Ids
    BY <1>9, Zenon DEF Completed, Entries
  <2> QED BY <1>2, <1>9, <2>1, Zenon DEF Pending, PlaceInv
<1>11. PICK q \in DiskProcs : Owns(q, id) /\ Busy(q) /\ vproc[q].pc # "out" /\ disk.info[id].b = vproc[q].b
  BY <1>10, DeviceFollows, Zenon
<1>12. PICK b : b = vproc[q].b
  OBVIOUS
<1>13. /\ diskPanic' = (diskPanic \/ disk.info[id].status # 0) /\ bdisk' = [bdisk EXCEPT ![b] = 0]
       /\ vproc' = [r \in DiskProcs |-> IF vproc[r].pc = "wbuf" /\ vproc[r].b = b
                                     THEN [vproc[r] EXCEPT !.pc = "woken"] ELSE vproc[r]]
  BY <1>6, <1>7, <1>11, <1>12, Zenon DEF virtio_disk_intr_one
<1>14. ~diskPanic'
  BY <1>2, <1>9, <1>13, Zenon DEF LockInv
<1>15. /\ DOMAIN vproc' = DiskProcs
       /\ \A r \in DiskProcs : SameRequest(r)
       /\ \A r \in DiskProcs : \/ vproc'[r].pc = vproc[r].pc /\ ~(vproc[r].pc = "wbuf" /\ vproc[r].b = b)
                               \/ vproc[r].pc = "wbuf" /\ vproc'[r].pc = "woken"
  <2>1. ASSUME NEW r \in DiskProcs
        PROVE  /\ SameRequest(r)
               /\ \/ vproc'[r].pc = vproc[r].pc /\ ~(vproc[r].pc = "wbuf" /\ vproc[r].b = b)
                  \/ vproc[r].pc = "wbuf" /\ vproc'[r].pc = "woken"
    <3>1. ProcFields \subseteq DOMAIN vproc[r]
      BY <1>1, Zenon DEF ProcShape, ProcOk
    <3>2. CASE vproc[r].pc = "wbuf" /\ vproc[r].b = b
      <4>1. vproc'[r] = [vproc[r] EXCEPT !.pc = "woken"]
        BY <1>13, <3>2, Zenon
      <4> QED BY <3>1, <3>2, <4>1 DEF SameRequest, ProcFields
    <3>3. CASE ~(vproc[r].pc = "wbuf" /\ vproc[r].b = b)
      <4>1. vproc'[r] = vproc[r]
        BY <1>13, <3>3, Zenon
      <4> QED BY <3>1, <3>3, <4>1, Zenon DEF SameRequest
    <3> QED BY <3>2, <3>3, Zenon
  <2> QED BY <1>13, <2>1, Zenon
<1>16. b \in Bufs /\ bdisk'[b] = 0 /\ bdisk' \in [Bufs -> {0, 1}] /\ \A c \in Bufs : c # b => bdisk'[c] = bdisk[c]
  <2>1. b \in Bufs /\ bdisk \in [Bufs -> {0, 1}]
    BY <1>1, <1>11, <1>12, Zenon DEF ProcShape, ProcOk, DiskShape
  <2> QED BY <1>13, <2>1, Zenon
<1>17. DiskShape'
  BY <1>1, <1>3, <1>8, <1>16, Zenon DEF DiskShape
<1>18. ProcShape'
  <2>1. ASSUME NEW r \in DiskProcs PROVE ProcOk(r)'
    <3>1. SameRequest(r) /\ ProcOk(r)
      BY <1>1, <1>15, Zenon DEF ProcShape
    <3>2. vproc'[r].pc = vproc[r].pc \/ (vproc[r].pc = "wbuf" /\ vproc'[r].pc = "woken")
      BY <1>15, Zenon
    <3> QED BY <3>1, <3>2, Zenon DEF ProcOk, SameRequest
  <2> QED BY <1>15, <2>1, Zenon DEF ProcShape
<1>19. BuffersApart'
  BY <1>1, <1>15, BuffersSame, Zenon DEF SameRequest
<1>20. ChainInv' /\ ChainsApart' /\ CountInv'
  BY <1>1, <1>8, <1>15, DescriptorsSame, Zenon
<1>21. AvailInv'
  BY <1>2, <1>3, <1>8, DriverAssumption, AvailSame, Zenon
<1>22. UsedInv'
  BY <1>4, <1>5, <1>6, <1>8, <1>9, Zenon DEF UsedInv
<1>23. Queued' = Queued /\ Pending' = Pending \ {id}
  <2>1. Queued' = Queued
    BY <1>8, Zenon DEF Queued
  <2> QED BY <1>3, <1>9, <1>10, <2>1, Zenon DEF Pending
<1>24. PlaceInv'
  BY <1>2, <1>3, <1>9, <1>23, Zenon DEF PlaceInv
<1>25. RequestInv'
  <2>1. ASSUME NEW r \in DiskProcs, r # q, NEW i \in Ids
        PROVE  Owns(r, i)' <=> Owns(r, i)
    <3>1. vproc'[r].head = vproc[r].head /\ vproc'[r].b = vproc[r].b
      BY <1>15, Zenon DEF SameRequest
    <3>2. CASE vproc[r].pc = "out"
      <4>1. vproc[r].head # i
        BY <1>1, <3>2, DriverAssumption, Zenon DEF ProcShape, ProcOk, Ids
      <4> QED BY <3>1, <4>1, Zenon DEF Owns
    <3>3. CASE vproc[r].pc # "out"
      <4>1. vproc[r].b \in Bufs
        BY <1>1, <3>3, Zenon DEF ProcShape, ProcOk
      <4>2. vproc[r].b # b
        BY <1>1, <1>11, <1>12, <2>1, <3>3 DEF BuffersApart
      <4> QED BY <1>16, <3>1, <4>1, <4>2, Zenon DEF Owns
    <3> QED BY <3>2, <3>3, Zenon
  <2>2. ASSUME NEW i PROVE ~Owns(q, i)'
    <3>1. vproc'[q].b = b
      BY <1>12, <1>15, Zenon DEF SameRequest
    <3> QED BY <1>16, <3>1 DEF Owns
  <2>3. \A i \in Ids : i # id => ~Owns(q, i)
    BY <1>11, Zenon DEF Owns
  <2>4. \A r \in DiskProcs : Owns(r, id) => r = q
    BY <1>1, <1>11, HeadsDiffer, Zenon DEF Owns
  <2>5. \A i \in Pending' : \E r \in DiskProcs : Owns(r, i)'
    <3>1. ASSUME NEW i \in Pending' PROVE \E r \in DiskProcs : Owns(r, i)'
      <4>1. i \in Pending /\ i # id /\ i \in Ids
        BY <1>2, <1>23, PendingIds, Zenon
      <4>2. PICK r \in DiskProcs : Owns(r, i)
        BY <1>2, <4>1, Zenon DEF RequestInv
      <4> QED BY <2>1, <2>3, <4>1, <4>2, Zenon
    <3> QED BY <3>1, Zenon
  <2>6. ASSUME NEW r \in DiskProcs, NEW i \in Ids, Owns(r, i)' PROVE i \in Pending'
    <3>1. r # q /\ Owns(r, i)
      BY <2>1, <2>2, <2>6, Zenon
    <3> QED BY <1>2, <1>23, <2>4, <3>1, Zenon DEF RequestInv
  <2>7. ASSUME NEW r \in DiskProcs, vproc'[r].pc = "wbuf" PROVE bdisk'[vproc'[r].b] = 1
    <3>1. vproc[r].pc = "wbuf" /\ vproc[r].b # b /\ vproc'[r].b = vproc[r].b
      BY <1>15, <2>7, Zenon DEF SameRequest
    <3>2. vproc[r].b \in Bufs
      BY <1>1, <3>1, Zenon DEF ProcShape, ProcOk
    <3> QED BY <1>2, <1>16, <3>1, <3>2, Zenon DEF RequestInv
  <2> QED BY <2>5, <2>6, <2>7, Zenon DEF RequestInv
<1>26. LockInv'
  <2>1. ASSUME NEW r \in DiskProcs PROVE vproc'[r].pc # "publish" /\ disk'.lock # r
    <3>1. disk.lock # r /\ disk'.lock # r
      BY <1>3, <1>8, DriverAssumption, Zenon
    <3>2. vproc[r].pc # "publish"
      BY <1>2, <3>1, Zenon DEF LockInv
    <3> QED BY <1>15, <3>1, <3>2, Zenon
  <2> QED BY <1>2, <1>3, <1>8, <1>9, <2>1, Zenon DEF LockInv
<1>27. (DiskShape /\ ProcShape /\ BuffersApart /\ ChainInv /\ ChainsApart /\ CountInv)'
  BY <1>17, <1>18, <1>19, <1>20, Zenon
<1>28. (PlaceInv /\ RequestInv /\ LockInv /\ AvailInv /\ UsedInv /\ ~diskPanic)'
  BY <1>14, <1>21, <1>22, <1>24, <1>25, <1>26, Zenon
<1> QED BY <1>27, <1>28, Zenon DEF DiskInv

-----------------------------------------------------------------------------
(* The request is over: its descriptors are free again. *)

LEMMA DoneKeeps == ASSUME DiskInv, NEW p \in DiskProcs, virtio_disk_done(p) PROVE DiskInv'
<1>1. DiskShape /\ ProcShape /\ BuffersApart /\ ChainInv /\ ChainsApart /\ CountInv
  BY Zenon DEF DiskInv
<1>2. PlaceInv /\ RequestInv /\ LockInv /\ AvailInv /\ UsedInv /\ ~diskPanic
  BY Zenon DEF DiskInv
<1>3. /\ vproc[p].pc = "woken" /\ disk.lock = Nobody /\ bdisk[vproc[p].b] = 0
      /\ UNCHANGED <<dev, bdisk, bdata, sector>>
  BY Zenon DEF virtio_disk_done, AtStep
<1>4. Busy(p) /\ vproc[p].head \in Ids
  BY <1>1, <1>3, DriverAssumption, Zenon DEF ProcShape, ProcOk, Busy, Ids
<1>5. PICK h, j, k \in Ids : Linked(p, h, j, k)
  BY <1>1, <1>4, Zenon DEF ChainInv
<1>6. /\ vproc[p].head = h /\ h # j /\ j # k /\ h # k
      /\ h \notin disk.free /\ j \notin disk.free /\ k \notin disk.free
  BY <1>5, Zenon DEF Linked
<1>7. Chain(h) = {h, j, k}
  <2>1. Chain(vproc[p].head) = {h, j, k}
    BY <1>5, ChainIs
  <2> QED BY <1>6, <2>1, Zenon
<1>8. /\ diskPanic' = (diskPanic \/ {h, j, k} \cap disk.free # {})
      /\ disk' = [disk EXCEPT !.free = @ \cup {h, j, k},
                     !.desc = [i \in Ids |-> IF i \in {h, j, k} THEN FreeDesc ELSE @[i]],
                     !.info[h].b = Nobody, !.ops[h] = Nobody]
  BY <1>6, <1>7, Zenon DEF virtio_disk_done
<1>9. ~diskPanic'
  BY <1>2, <1>6, <1>8, Zenon
<1>10. /\ DOMAIN disk' = DOMAIN disk /\ disk'.free = disk.free \cup {h, j, k}
       /\ disk'.availIdx = disk.availIdx /\ disk'.avail = disk.avail /\ disk'.lock = disk.lock
       /\ disk'.used = disk.used /\ disk'.usedIdx = disk.usedIdx /\ disk'.used_idx = disk.used_idx
  <2>1. DiskFields \subseteq DOMAIN disk
    BY <1>1, Zenon DEF DiskShape
  <2> QED BY <1>8, <2>1 DEF DiskFields
<1>11. DOMAIN disk'.desc = Ids /\ \A i \in Ids : i \notin {h, j, k} => disk'.desc[i] = disk.desc[i]
  <2>1. DiskFields \subseteq DOMAIN disk
    BY <1>1, Zenon DEF DiskShape
  <2>2. disk'.desc = [i \in Ids |-> IF i \in {h, j, k} THEN FreeDesc ELSE disk.desc[i]]
    BY <1>8, <2>1 DEF DiskFields
  <2> QED BY <2>2, Zenon
<1>12. /\ DOMAIN disk'.ops = Ids /\ DOMAIN disk'.info = Ids
       /\ \A i \in Ids : i # h => disk'.ops[i] = disk.ops[i] /\ disk'.info[i] = disk.info[i]
       /\ \A i \in Ids : {"b", "status"} \subseteq DOMAIN disk'.info[i]
  <2>1. DiskFields \subseteq DOMAIN disk
    BY <1>1, Zenon DEF DiskShape
  <2>2. disk'.ops = [disk.ops EXCEPT ![h] = Nobody]
    BY <1>8, <2>1 DEF DiskFields
  <2>3. disk'.info = [disk.info EXCEPT ![h] = [disk.info[h] EXCEPT !.b = Nobody]]
    BY <1>8, <2>1 DEF DiskFields
  <2>4. DOMAIN disk.ops = Ids /\ DOMAIN disk.info = Ids /\ \A i \in Ids : {"b", "status"} \subseteq DOMAIN disk.info[i]
    BY <1>1, Zenon DEF DiskShape
  <2>5. DOMAIN disk'.ops = Ids /\ \A i \in Ids : i # h => disk'.ops[i] = disk.ops[i]
    BY <2>2, <2>4, Zenon
  <2>6. /\ DOMAIN disk'.info = Ids /\ DOMAIN disk'.info[h] = DOMAIN disk.info[h]
        /\ \A i \in Ids : i # h => disk'.info[i] = disk.info[i]
    BY <2>3, <2>4, Zenon
  <2> QED BY <2>4, <2>5, <2>6, Zenon
<1>13. /\ DOMAIN vproc' = DiskProcs /\ vproc'[p] = Outside
       /\ \A q \in DiskProcs : q # p =>
            /\ SameRequest(q)
            /\ \/ vproc'[q].pc = vproc[q].pc
               \/ vproc[q].pc = "wdesc" /\ vproc'[q].pc = "enter"
  <2>1. vproc' = [q \in DiskProcs |-> IF q = p THEN Outside
                            ELSE IF vproc[q].pc = "wdesc" THEN [vproc[q] EXCEPT !.pc = "enter"]
                            ELSE vproc[q]]
    BY Zenon DEF virtio_disk_done, WakeDescWaiters
  <2>2. ASSUME NEW q \in DiskProcs, q # p
        PROVE  /\ SameRequest(q)
               /\ \/ vproc'[q].pc = vproc[q].pc
                  \/ vproc[q].pc = "wdesc" /\ vproc'[q].pc = "enter"
    <3>1. ProcFields \subseteq DOMAIN vproc[q]
      BY <1>1, Zenon DEF ProcShape, ProcOk
    <3>2. CASE vproc[q].pc = "wdesc"
      <4>1. vproc'[q] = [vproc[q] EXCEPT !.pc = "enter"]
        BY <2>1, <2>2, <3>2, Zenon
      <4> QED BY <3>1, <3>2, <4>1 DEF SameRequest, ProcFields
    <3>3. CASE vproc[q].pc # "wdesc"
      <4>1. vproc'[q] = vproc[q]
        BY <2>1, <2>2, <3>3, Zenon
      <4> QED BY <3>1, <4>1, Zenon DEF SameRequest
    <3> QED BY <3>2, <3>3, Zenon
  <2> QED BY <2>1, <2>2, Zenon
<1>14. /\ vproc'[p].pc = "out" /\ vproc'[p].head = Nobody /\ ProcFields \subseteq DOMAIN vproc'[p]
  BY <1>13 DEF Outside, ProcFields
<1>15. DiskShape'
  BY <1>1, <1>3, <1>10, <1>11, <1>12, Zenon DEF DiskShape
<1>16. ProcShape'
  <2>1. ASSUME NEW q \in DiskProcs PROVE ProcOk(q)'
    <3>1. CASE q = p
      BY <1>14, <3>1, Zenon DEF ProcOk
    <3>2. CASE q # p
      <4>1. SameRequest(q) /\ ProcOk(q)
        BY <1>1, <1>13, <3>2, Zenon DEF ProcShape
      <4>2. vproc'[q].pc = vproc[q].pc \/ (vproc[q].pc = "wdesc" /\ vproc'[q].pc = "enter")
        BY <1>13, <3>2, Zenon
      <4> QED BY <4>1, <4>2, Zenon DEF ProcOk, SameRequest
    <3> QED BY <3>1, <3>2, Zenon
  <2> QED BY <1>13, <2>1, Zenon DEF ProcShape
<1>17. BuffersApart'
  <2>1. ASSUME NEW q \in DiskProcs, vproc'[q].pc # "out"
        PROVE  vproc[q].pc # "out" /\ vproc'[q].b = vproc[q].b
    BY <1>13, <1>14, <2>1, Zenon DEF SameRequest
  <2> QED BY <1>1, <2>1, BuffersSame, Zenon
<1>18. ChainInv' /\ ChainsApart'
  <2>1. ASSUME NEW q \in DiskProcs, Busy(q)' PROVE Busy(q) /\ KeepsChain(q)
    <3>1. q # p /\ SameRequest(q) /\ Busy(q)
      <4>1. q # p
        BY <1>14, <2>1, Zenon DEF Busy
      <4> QED BY <1>13, <2>1, <4>1, Zenon DEF Busy, SameRequest
    <3>2. ASSUME NEW i \in Chain(vproc[q].head)
          PROVE  i \in Ids /\ i \notin {h, j, k} /\ i \notin disk.free
      <4>1. i \in Ids /\ i \notin disk.free
        BY <1>1, <3>1, ChainNotFree, Zenon
      <4>2. i \notin Chain(vproc[p].head)
        BY <1>1, <1>4, <3>1, <3>2, Zenon DEF ChainsApart
      <4> QED BY <1>6, <1>7, <4>1, <4>2, Zenon
    <3>3. \A i \in Chain(vproc[q].head) : disk'.desc[i] = disk.desc[i] /\ i \notin disk'.free
      BY <1>10, <1>11, <3>2, Zenon
    <3>4. \A i \in Chain(vproc[q].head) : disk'.ops[i] = disk.ops[i] /\ disk'.info[i] = disk.info[i]
      BY <1>12, <3>2, Zenon
    <3> QED BY <3>1, <3>3, <3>4, Zenon DEF KeepsChain
  <2> QED BY <1>1, <2>1, ChainsKept, Zenon
<1>19. CountInv'
  <2>1. IsFiniteSet(disk.free) /\ Cardinality(disk.free) \in Nat
    BY <1>1, IdsFinite, FS_Subset, FS_CardinalityType, Zenon DEF DiskShape
  <2>2. IsFiniteSet(disk.free \cup {h}) /\ Cardinality(disk.free \cup {h}) = Cardinality(disk.free) + 1
    BY <1>6, <2>1, FS_AddElement, Zenon
  <2>3. /\ IsFiniteSet((disk.free \cup {h}) \cup {j})
        /\ Cardinality((disk.free \cup {h}) \cup {j}) = Cardinality(disk.free \cup {h}) + 1
    BY <1>6, <2>2, FS_AddElement, Zenon
  <2>4. /\ Cardinality(((disk.free \cup {h}) \cup {j}) \cup {k}) = Cardinality((disk.free \cup {h}) \cup {j}) + 1
        /\ disk'.free = ((disk.free \cup {h}) \cup {j}) \cup {k}
    <3>1. k \notin (disk.free \cup {h}) \cup {j}
      BY <1>6, Zenon
    <3>2. disk'.free = ((disk.free \cup {h}) \cup {j}) \cup {k}
      BY <1>10, Zenon
    <3> QED BY <2>3, <3>1, <3>2, FS_AddElement, Zenon
  <2>5. BusyProcs' = BusyProcs \ {p} /\ p \in BusyProcs
    <3>1. \A q \in DiskProcs : q # p => vproc'[q].head = vproc[q].head
      BY <1>13, Zenon DEF SameRequest
    <3> QED BY <1>4, <1>14, <3>1, Zenon DEF BusyProcs, Busy
  <2>6. IsFiniteSet(BusyProcs) /\ Cardinality(BusyProcs) \in Nat
    BY DriverAssumption, FS_Subset, FS_CardinalityType, Zenon DEF BusyProcs
  <2>7. Cardinality(BusyProcs') = Cardinality(BusyProcs) - 1
    BY <2>5, <2>6, FS_RemoveElement, Zenon
  <2>8. Cardinality(disk'.free) = Cardinality(disk.free) + 3
    BY <2>1, <2>2, <2>3, <2>4
  <2>9. Cardinality(disk.free) + 3 * Cardinality(BusyProcs) = NUM
    BY <1>1, Zenon DEF CountInv
  <2>10. Cardinality(disk'.free) + 3 * Cardinality(BusyProcs') = NUM
    BY <2>1, <2>6, <2>7, <2>8, <2>9
  <2> QED BY <2>10, Zenon DEF CountInv
<1>20. AvailInv' /\ UsedInv'
  BY <1>2, <1>3, <1>10, DriverAssumption, AvailSame, UsedSame, Zenon
<1>21. Queued' = Queued /\ Completed' = Completed /\ Pending' = Pending
  BY <1>3, <1>10, Zenon DEF Pending, Queued, Completed
<1>22. PlaceInv'
  BY <1>2, <1>3, <1>21, Zenon DEF PlaceInv
<1>23. \A i \in Ids : ~Owns(p, i)
  BY <1>3 DEF Owns
<1>24. RequestInv'
  <2>1. ASSUME NEW q \in DiskProcs, NEW i \in Ids PROVE Owns(q, i)' <=> Owns(q, i)
    <3>1. CASE q = p
      <4>1. ~Owns(p, i)'
        BY <1>14, DriverAssumption, Zenon DEF Owns, Ids
      <4> QED BY <1>23, <3>1, <4>1, Zenon
    <3>2. CASE q # p
      BY <1>3, <1>13, <3>2, Zenon DEF Owns, SameRequest
    <3> QED BY <3>1, <3>2, Zenon
  <2>2. ASSUME NEW q \in DiskProcs, vproc'[q].pc = "wbuf" PROVE bdisk'[vproc'[q].b] = 1
    <3>1. q # p
      BY <1>14, <2>2, Zenon
    <3>2. vproc[q].pc = "wbuf" /\ vproc'[q].b = vproc[q].b
      BY <1>13, <2>2, <3>1, Zenon DEF SameRequest
    <3> QED BY <1>2, <1>3, <3>2, Zenon DEF RequestInv
  <2> QED BY <1>2, <1>21, <2>1, <2>2, RequestsSame, Zenon
<1>25. LockInv'
  <2>1. ASSUME NEW q \in DiskProcs PROVE vproc'[q].pc # "publish" /\ disk'.lock # q
    <3>1. disk.lock # q /\ disk'.lock # q
      BY <1>3, <1>10, DriverAssumption, Zenon
    <3>2. vproc[q].pc # "publish"
      BY <1>2, <3>1, Zenon DEF LockInv
    <3> QED BY <1>13, <1>14, <3>1, <3>2, Zenon
  <2>2. ASSUME NEW i \in Completed PROVE disk'.info[i].status = 0
    <3>1. i \in Ids /\ i \in Pending
      BY Zenon DEF Completed, Entries, Pending
    <3>2. i # h
      <4>1. PICK q \in DiskProcs : Owns(q, i)
        BY <1>2, <3>1, Zenon DEF RequestInv
      <4>2. CASE i = h
        <5>1. q = p
          BY <1>1, <1>4, <1>6, <4>1, <4>2, HeadsDiffer, Zenon DEF Owns
        <5> QED BY <1>23, <3>1, <4>1, <5>1, Zenon
      <4> QED BY <4>2, Zenon
    <3> QED BY <1>2, <1>12, <3>1, <3>2, Zenon DEF LockInv
  <2> QED BY <1>2, <1>3, <1>10, <1>21, <2>1, <2>2, Zenon DEF LockInv
<1>26. (DiskShape /\ ProcShape /\ BuffersApart /\ ChainInv /\ ChainsApart /\ CountInv)'
  BY <1>15, <1>16, <1>17, <1>18, <1>19, Zenon
<1>27. (PlaceInv /\ RequestInv /\ LockInv /\ AvailInv /\ UsedInv /\ ~diskPanic)'
  BY <1>9, <1>20, <1>22, <1>24, <1>25, Zenon
<1> QED BY <1>26, <1>27, Zenon DEF DiskInv

-----------------------------------------------------------------------------
(* All together *)

LEMMA DiskStepKeeps == ASSUME DiskInv, DiskStep PROVE DiskInv'
<1>1. CASE Device
  BY <1>1, FetchKeeps, CompleteKeeps, Zenon DEF Device
<1>2. CASE Intr
  BY <1>2, IntrKeeps, IntrOneKeeps, IntrEndKeeps, Zenon DEF Intr
<1>3. ASSUME NEW p \in DiskProcs, DriverStep(p) \/ kill_in_disk(p) PROVE DiskInv'
  <2>1. CASE alloc3_desc_fail(p) \/ virtio_disk_again(p) \/ kill_in_disk(p)
    BY <2>1, MoveFacts, MoveKeeps, Zenon
  <2>2. CASE virtio_disk_fill(p)
    BY <2>2, FillFacts, FillKeeps, Zenon
  <2>3. CASE virtio_disk_publish(p)
    BY <2>3, PublishKeeps, Zenon
  <2>4. CASE virtio_disk_done(p)
    BY <2>4, DoneKeeps, Zenon
  <2> QED BY <1>3, <2>1, <2>2, <2>3, <2>4, Zenon DEF DriverStep
<1> QED BY <1>1, <1>2, <1>3, Zenon DEF DiskStep

(* A process keeps its request as long as it is in the driver. *)
LEMMA StepKeepsRequest ==
  ASSUME DiskInv, DiskStep, NEW q \in DiskProcs, vproc'[q].pc # "out"
  PROVE  /\ vproc[q].pc # "out" /\ vproc'[q].b = vproc[q].b
         /\ vproc'[q].block = vproc[q].block /\ vproc'[q].write = vproc[q].write
<1>1. DOMAIN vproc = DiskProcs /\ ProcFields \subseteq DOMAIN vproc[q]
  BY Zenon DEF DiskInv, ProcShape, ProcOk
<1>2. CASE UNCHANGED vproc
  BY <1>2, Zenon
<1>3. ASSUME NEW p \in DiskProcs, alloc3_desc_fail(p) \/ virtio_disk_again(p) \/ kill_in_disk(p)
      PROVE  /\ vproc[q].pc # "out" /\ vproc'[q].b = vproc[q].b
             /\ vproc'[q].block = vproc[q].block /\ vproc'[q].write = vproc[q].write
  <2>1. MoveEffect
    BY <1>3, MoveFacts, Zenon
  <2> QED BY <2>1, Zenon DEF MoveEffect, SameRequest
<1>4. ASSUME NEW p \in DiskProcs, virtio_disk_fill(p)
      PROVE  /\ vproc[q].pc # "out" /\ vproc'[q].b = vproc[q].b
             /\ vproc'[q].block = vproc[q].block /\ vproc'[q].write = vproc[q].write
  <2>1. PICK h \in Ids : FillProcs(p, h) /\ vproc[p].pc = "enter"
    BY <1>4, FillFacts, Zenon DEF FillEffect
  <2> QED BY <2>1, Zenon DEF FillProcs
<1>5. ASSUME NEW r, vproc'[q] = vproc[q] \/ (vproc[q].pc # "out" /\ vproc'[q] = [vproc[q] EXCEPT !.pc = r])
      PROVE  /\ vproc[q].pc # "out" /\ vproc'[q].b = vproc[q].b
             /\ vproc'[q].block = vproc[q].block /\ vproc'[q].write = vproc[q].write
  <2>1. CASE vproc'[q] = vproc[q]
    BY <2>1, Zenon
  <2>2. CASE vproc[q].pc # "out" /\ vproc'[q] = [vproc[q] EXCEPT !.pc = r]
    BY <1>1, <2>2 DEF ProcFields
  <2> QED BY <1>5, <2>1, <2>2, Zenon
<1>6. ASSUME NEW p \in DiskProcs, virtio_disk_publish(p)
      PROVE  vproc'[q] = vproc[q] \/ (vproc[q].pc # "out" /\ vproc'[q] = [vproc[q] EXCEPT !.pc = "wbuf"])
  BY <1>1, <1>6, Zenon DEF virtio_disk_publish
<1>7. ASSUME NEW p \in DiskProcs, virtio_disk_done(p)
      PROVE  vproc'[q] = vproc[q] \/ (vproc[q].pc # "out" /\ vproc'[q] = [vproc[q] EXCEPT !.pc = "enter"])
  <2>1. q # p
    BY <1>7 DEF virtio_disk_done, WakeDescWaiters, Outside
  <2> QED BY <1>7, <2>1, Zenon DEF virtio_disk_done, WakeDescWaiters
<1>8. CASE virtio_disk_intr_one
  <2>1. vproc'[q] = vproc[q] \/ (vproc[q].pc # "out" /\ vproc'[q] = [vproc[q] EXCEPT !.pc = "woken"])
    BY <1>8, Zenon DEF virtio_disk_intr_one
  <2> QED BY <1>5, <2>1, Zenon
<1>9. CASE Device
  BY <1>2, <1>9, Zenon DEF Device, device_fetch, device_complete
<1>10. CASE Intr
  BY <1>2, <1>8, <1>10, Zenon DEF Intr, virtio_disk_intr, virtio_disk_intr_end
<1>11. ASSUME NEW p \in DiskProcs, DriverStep(p) \/ kill_in_disk(p)
       PROVE  /\ vproc[q].pc # "out" /\ vproc'[q].b = vproc[q].b
              /\ vproc'[q].block = vproc[q].block /\ vproc'[q].write = vproc[q].write
  BY <1>3, <1>4, <1>5, <1>6, <1>7, <1>11, Zenon DEF DriverStep
<1> QED BY <1>9, <1>10, <1>11, Zenon DEF DiskStep

LEMMA EmptyRing ==
  ASSUME NEW ring, ring = [i \in Ids |-> Nobody]
  PROVE  HasEntries(ring, 0, 0) /\ Entries(ring) = {}
<1>1. Nobody \notin Ids
  BY DriverAssumption, Zenon DEF Ids
<1>2. Entries(ring) = {}
  BY <1>1, Zenon DEF Entries
<1>3. ASSUME NEW k \in Ids
      PROVE  ring[k] = Nobody /\ ~\E j \in 0..0 - 1 : k = Slot(0 + j)
  OBVIOUS
<1>4. DOMAIN ring = Ids /\ Cardinality(Entries(ring)) = 0
  BY <1>2, FS_EmptySet, Zenon
<1> QED BY <1>2, <1>3, <1>4, Zenon DEF HasEntries

LEMMA InitDiskInv == ASSUME DiskInit, DOMAIN bdata = Bufs PROVE DiskInv
<1>1. /\ disk = [free |-> Ids, desc |-> [i \in Ids |-> FreeDesc],
             ops |-> [i \in Ids |-> Nobody], info |-> [i \in Ids |-> [b |-> Nobody, status |-> 0]],
             avail |-> [i \in Ids |-> Nobody], availIdx |-> 0,
             used |-> [i \in Ids |-> Nobody], usedIdx |-> 0, used_idx |-> 0, lock |-> Nobody]
  BY Zenon DEF DiskInit
<1>2. /\ dev = [seen |-> 0, inflight |-> {}, irq |-> FALSE] /\ vproc = [p \in DiskProcs |-> Outside]
      /\ bdisk = [b \in Bufs |-> 0] /\ sector \in [Blocks -> Values] /\ ~diskPanic
  BY Zenon DEF DiskInit
<1>3. /\ DiskFields \subseteq DOMAIN disk /\ disk.free = Ids /\ disk.lock = Nobody
      /\ disk.desc = [i \in Ids |-> FreeDesc] /\ disk.ops = [i \in Ids |-> Nobody]
      /\ disk.info = [i \in Ids |-> [b |-> Nobody, status |-> 0]]
      /\ disk.avail = [i \in Ids |-> Nobody] /\ disk.used = [i \in Ids |-> Nobody]
      /\ disk.availIdx = 0 /\ disk.usedIdx = 0 /\ disk.used_idx = 0
  BY <1>1 DEF DiskFields
<1>4. {"seen", "inflight", "irq"} \subseteq DOMAIN dev /\ dev.seen = 0 /\ dev.inflight = {}
  BY <1>2
<1>5. \A p \in DiskProcs : /\ ProcFields \subseteq DOMAIN vproc[p] /\ vproc[p].pc = "out" /\ vproc[p].head = Nobody
  BY <1>2 DEF Outside, ProcFields
<1>6. DiskShape
  <2>1. \A i \in Ids : {"b", "status"} \subseteq DOMAIN disk.info[i]
    BY <1>3
  <2>2. bdisk \in [Bufs -> {0, 1}] /\ DOMAIN sector = Blocks
    BY <1>2, Zenon
  <2> QED BY <1>3, <1>4, <2>1, <2>2, Zenon DEF DiskShape
<1>7. DOMAIN vproc = DiskProcs
  BY <1>2, Zenon
<1>8. ProcShape
  BY <1>5, <1>7, Zenon DEF ProcShape, ProcOk
<1>9. BuffersApart /\ ChainInv /\ ChainsApart
  BY <1>5, Zenon DEF BuffersApart, ChainInv, ChainsApart, Busy
<1>10. CountInv
  <2>1. BusyProcs = {}
    BY <1>5, Zenon DEF BusyProcs
  <2>2. Cardinality(BusyProcs) = 0 /\ Cardinality(disk.free) = NUM
    BY <1>3, <2>1, IdsFinite, FS_EmptySet, Zenon
  <2> QED BY <2>2, Sizes DEF CountInv
<1>11. Queued = {} /\ Completed = {} /\ HasEntries(disk.avail, 0, 0) /\ HasEntries(disk.used, 0, 0)
  BY <1>3, EmptyRing, Zenon DEF Queued, Completed
<1>12. Pending = {} /\ PlaceInv
  BY <1>4, <1>11, Zenon DEF Pending, PlaceInv
<1>13. RequestInv
  <2>1. \A p \in DiskProcs : \A i \in Ids : ~Owns(p, i)
    BY <1>5, DriverAssumption, Zenon DEF Owns, Ids
  <2> QED BY <1>5, <1>12, <2>1, Zenon DEF RequestInv
<1>14. LockInv
  BY <1>3, <1>5, <1>11, DriverAssumption, Zenon DEF LockInv
<1>15. Index(0) = 0 /\ 0 + 0 = 0 /\ 0 \in Nat
  BY Sizes DEF Index
<1>16. AvailInv
  <2>1. AvailAt(0, 0)
    BY <1>3, <1>4, <1>11, <1>15, DriverAssumption, Zenon DEF AvailAt
  <2> QED BY <1>15, <2>1, Zenon DEF AvailInv
<1>17. UsedInv
  BY <1>3, <1>11, <1>15, Zenon DEF UsedInv
<1> QED BY <1>2, <1>6, <1>8, <1>9, <1>10, <1>12, <1>13, <1>14, <1>16, <1>17, Zenon DEF DiskInv

LEMMA InvariantKeepsRequests == ASSUME DiskInv PROVE RequestsKept
<1>1. ProcShape /\ ChainInv /\ ChainsApart /\ CountInv /\ PlaceInv /\ RequestInv /\ LockInv /\ ~diskPanic
  BY Zenon DEF DiskInv
<1>2. ASSUME NEW p \in DiskProcs, vproc[p].head # Nobody
      PROVE  Cardinality(Chain(vproc[p].head) \ (disk.free \cup {Nobody})) = 3
  <2>1. PICK h, j, k \in Ids : Linked(p, h, j, k)
    BY <1>1, <1>2, Zenon DEF ChainInv, Busy
  <2>2. /\ h # j /\ j # k /\ h # k /\ h \notin disk.free /\ j \notin disk.free /\ k \notin disk.free
        /\ Nobody \notin Ids
    BY <2>1, DriverAssumption, Zenon DEF Linked, Ids
  <2>3. Chain(vproc[p].head) = {h, j, k}
    BY <2>1, ChainIs
  <2>4. Chain(vproc[p].head) \ (disk.free \cup {Nobody}) = ({h} \cup {j}) \cup {k}
    BY <2>2, <2>3, Zenon
  <2>5. IsFiniteSet({h}) /\ Cardinality({h}) = 1
    BY FS_Singleton, Zenon
  <2>6. IsFiniteSet({h} \cup {j}) /\ Cardinality({h} \cup {j}) = Cardinality({h}) + 1
    <3>1. j \notin {h}
      BY <2>2, Zenon
    <3> QED BY <2>5, <3>1, FS_AddElement, Zenon
  <2>7. Cardinality(({h} \cup {j}) \cup {k}) = Cardinality({h} \cup {j}) + 1
    <3>1. k \notin {h} \cup {j}
      BY <2>2, Zenon
    <3> QED BY <2>6, <3>1, FS_AddElement, Zenon
  <2> QED BY <2>4, <2>5, <2>6, <2>7
<1>3. DescriptorsOwned
  <2>1. ASSUME NEW p \in BusyProcs, NEW q \in BusyProcs, p # q
        PROVE  Chain(vproc[p].head) \cap Chain(vproc[q].head) = {}
    BY <1>1, <2>1, Zenon DEF ChainsApart, BusyProcs, Busy
  <2>2. \A p \in BusyProcs : Cardinality(Chain(vproc[p].head) \ (disk.free \cup {Nobody})) = 3
    BY <1>2, Zenon DEF BusyProcs
  <2> QED BY <1>1, <2>1, <2>2, Zenon DEF DescriptorsOwned, BusyProcs, CountInv
<1>4. CompletionNotLost
  <2>1. ASSUME NEW p \in DiskProcs, vproc[p].pc = "wbuf"
        PROVE  \/ vproc[p].head \in dev.inflight
               \/ \E k \in Ids : disk.avail[k] = vproc[p].head
               \/ /\ \E k \in Ids : disk.used[k] = vproc[p].head
                  /\ dev.irq \/ disk.lock = "intr"
    <3>1. vproc[p].head \in Ids /\ Owns(p, vproc[p].head)
      BY <1>1, <2>1, Zenon DEF ProcShape, ProcOk, RequestInv, Owns
    <3>2. vproc[p].head \in Pending
      BY <1>1, <3>1, Zenon DEF RequestInv
    <3>3. CASE vproc[p].head \in Queued
      BY <3>3, Zenon DEF Queued, Entries
    <3>4. CASE vproc[p].head \in Completed
      <4>1. dev.irq \/ disk.lock = "intr"
        BY <1>1, <3>4, Zenon DEF LockInv
      <4> QED BY <3>4, <4>1, Zenon DEF Completed, Entries
    <3> QED BY <3>2, <3>3, <3>4, Zenon DEF Pending
  <2> QED BY <2>1, Zenon DEF CompletionNotLost
<1> QED BY <1>1, <1>3, <1>4, Zenon DEF RequestsKept, NoDiskPanic

(* In the driver by itself a process has only its own buffer there. *)
OwnBuffers == \A p \in DiskProcs : vproc[p].pc # "out" => vproc[p].b = p

(* virtio_disk_rw() and virtio_disk_intr() keep track of every request,    *)
(* whatever the number of processes and of descriptors: none of the latter *)
(* leaks or serves two requests, neither of the two functions panics, and  *)
(* no process sleeps for a completion that is lost.                        *)
THEOREM DriverKeepsRequests ==
  ASSUME DiskProcs \subseteq Bufs
  PROVE  DriverSpec => []RequestsKept
<1>1. DriverInit => DiskInv /\ OwnBuffers
  <2>1. SUFFICES ASSUME DriverInit PROVE DiskInv /\ OwnBuffers
    OBVIOUS
  <2>2. DiskInit /\ DOMAIN bdata = Bufs
    BY <2>1, Zenon DEF DriverInit
  <2>3. OwnBuffers
    BY <2>2, Zenon DEF DiskInit, OwnBuffers, Outside
  <2> QED BY <2>2, <2>3, InitDiskInv, Zenon
<1>2. DiskInv /\ OwnBuffers /\ [DriverNext]_diskVars => (DiskInv /\ OwnBuffers)'
  <2>1. SUFFICES ASSUME DiskInv, OwnBuffers, [DriverNext]_diskVars PROVE DiskInv' /\ OwnBuffers'
    OBVIOUS
  <2>2. CASE DiskStep
    <3>1. \A q \in DiskProcs : vproc'[q].pc # "out" => vproc[q].pc # "out" /\ vproc'[q].b = vproc[q].b
      BY <2>1, <2>2, StepKeepsRequest, Zenon
    <3> QED BY <2>1, <2>2, <3>1, DiskStepKeeps, Zenon DEF OwnBuffers
  <2>3. ASSUME NEW p \in DiskProcs, Request(p) PROVE DiskInv' /\ OwnBuffers'
    <3>1. PICK block \in Blocks : virtio_disk_rw(p, p, block, 0)
      BY <2>3, Zenon DEF Request
    <3>2. vproc[p].pc = "out" /\ UNCHANGED <<disk, dev, bdisk, bdata, sector, diskPanic>>
      BY <2>3, Zenon DEF Request
    <3>3. DOMAIN bdata = Bufs /\ DOMAIN sector = Blocks /\ DOMAIN vproc = DiskProcs
      BY <2>1, Zenon DEF DiskInv, DiskShape, ProcShape
    <3>4. p \in Bufs /\ 0 \in {0, 1} /\ \A q \in DiskProcs : vproc[q].pc # "out" => vproc[q].b # p
      BY <2>1, <3>2, Zenon DEF OwnBuffers
    <3>5. DiskInv'
      BY <2>1, <3>1, <3>2, <3>3, <3>4, CallKeeps
    <3>6. vproc'[p].b = p /\ \A q \in DiskProcs : q # p => vproc'[q] = vproc[q]
      BY <3>1, <3>3 DEF virtio_disk_rw, Outside
    <3>7. OwnBuffers'
      BY <2>1, <3>6, Zenon DEF OwnBuffers
    <3> QED BY <3>5, <3>7, Zenon
  <2>4. CASE UNCHANGED diskVars
    <3>1. MoveEffect
      BY <2>1, <2>4, Zenon DEF diskVars, MoveEffect, SameRequest, DiskInv, DiskShape, ProcShape, ProcOk
    <3>2. OwnBuffers'
      BY <2>1, <2>4, Zenon DEF diskVars, OwnBuffers
    <3> QED BY <2>1, <3>1, <3>2, MoveKeeps, Zenon
  <2> QED BY <2>1, <2>2, <2>3, <2>4, Zenon DEF DriverNext
<1>3. DiskInv => RequestsKept
  BY InvariantKeepsRequests, Zenon
<1> QED BY <1>1, <1>2, <1>3, PTL DEF DriverSpec
=============================================================================
