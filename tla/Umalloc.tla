------------------------------ MODULE Umalloc -------------------------------
(***************************************************************************)
(* The allocator of user programs, user/umalloc.c: a circular list of free *)
(* blocks in the order of their addresses, with the dummy block base below *)
(* them all.  Addresses and sizes count Headers.  A program calls malloc() *)
(* and free(), and may move the break itself with sbrk().                  *)
(***************************************************************************)
EXTENDS Integers, FiniteSets

CONSTANTS
  CORE,       \* the least morecore() asks for, 4096 in the code
  MaxBreak,   \* bound of the model: sbrk() fails beyond
  MaxUnits    \* bound of the model: the largest request, header included

ASSUME UmallocAssumption == {CORE, MaxBreak, MaxUnits} \subseteq Nat \ {0}

base == 0
Null == -1

VARIABLES
  ptr, size,   \* s.ptr and s.size of every Header
  freep,
  brk,         \* the break
  lentTo,      \* the blocks the program has
  gaps,        \* Headers the program took with sbrk()
  scan         \* malloc(): its step, nunits, p and prevp

uVars == <<ptr, size, freep, brk, lentTo, gaps, scan>>

NoScan == [pc |-> "idle", n |-> 0, p |-> base, prevp |-> base]

UInit ==
  /\ ptr = [a \in 0..MaxBreak |-> base] /\ size = [a \in 0..MaxBreak |-> 0]
  /\ freep = Null /\ brk = 1 /\ lentTo = {} /\ gaps = {} /\ scan = NoScan

(* The list from base *)
List == LET next(S) == S \cup {ptr[a] : a \in S}
            grow[k \in 0..MaxBreak] == IF k = 0 THEN {base} ELSE next(grow[k - 1])
        IN  grow[MaxBreak]

-----------------------------------------------------------------------------
(* The place of bp in the list: after the last free block below it, or at  *)
(* the end.                                                                *)
Place(bp) ==
  CHOOSE p \in List : \/ bp > p /\ bp < ptr[p]
                      \/ p >= ptr[p] /\ (bp > p \/ bp < ptr[p])

(* A Header that is inside a block now is the program's data: 0 here. *)
Erase(f, a, is) == IF is THEN [f EXCEPT ![a] = 0] ELSE f

(* Mutant: free() does not join the block with the one below it. *)
Freed_Upper(sz, bp) ==
  LET p == Place(bp)
      q == ptr[p]
      up == bp + sz[bp] = q
  IN  [ptr |-> Erase([ptr EXCEPT ![bp] = IF up THEN ptr[q] ELSE q, ![p] = bp], q, up),
       size |-> Erase([sz EXCEPT ![bp] = IF up THEN @ + sz[q] ELSE @], q, up),
       freep |-> p]

(* free() of the block at bp: into the list, joined with the free block    *)
(* above it, then with the one below.                                      *)
Freed(sz, bp) ==
  LET p == Place(bp)
      q == ptr[p]
      up == bp + sz[bp] = q
      pt1 == Erase([ptr EXCEPT ![bp] = IF up THEN ptr[q] ELSE q], q, up)
      sz1 == Erase([sz EXCEPT ![bp] = IF up THEN @ + sz[q] ELSE @], q, up)
      down == p + sz1[p] = bp
  IN  [ptr |-> Erase([pt1 EXCEPT ![p] = IF down THEN pt1[bp] ELSE bp], bp, down),
       size |-> Erase([sz1 EXCEPT ![p] = IF down THEN @ + sz1[bp] ELSE @], bp, down),
       freep |-> p]

free(bp) ==
  /\ scan.pc = "idle" /\ bp \in lentTo
  /\ LET f == Freed(size, bp) IN ptr' = f.ptr /\ size' = f.size /\ freep' = f.freep
  /\ lentTo' = lentTo \ {bp}
  /\ UNCHANGED <<brk, gaps, scan>>

(* malloc(): the first call makes the list; the search starts after freep. *)
malloc(n) ==
  /\ scan.pc = "idle"
  /\ freep' = IF freep = Null THEN base ELSE freep
  /\ ptr' = IF freep = Null THEN [ptr EXCEPT ![base] = base] ELSE ptr
  /\ scan' = [pc |-> "scan", n |-> n, prevp |-> freep', p |-> ptr'[freep']]
  /\ UNCHANGED <<size, brk, lentTo, gaps>>

(* A block that is large enough: all of it, or its upper end. *)
malloc_take(p) ==
  LET rest == size[p] - scan.n
  IN  /\ scan.pc = "scan" /\ p = scan.p /\ rest >= 0
      /\ IF rest = 0
         THEN /\ ptr' = [ptr EXCEPT ![scan.prevp] = ptr[p], ![p] = 0]
              /\ lentTo' = lentTo \cup {p} /\ UNCHANGED size
         ELSE /\ size' = [size EXCEPT ![p] = rest, ![p + rest] = scan.n]
              /\ lentTo' = lentTo \cup {p + rest} /\ UNCHANGED ptr
      /\ freep' = scan.prevp
      /\ scan' = NoScan
      /\ UNCHANGED <<brk, gaps>>

malloc_next ==
  /\ scan.pc = "scan" /\ size[scan.p] < scan.n /\ scan.p # freep
  /\ scan' = [scan EXCEPT !.prevp = scan.p, !.p = ptr[scan.p]]
  /\ UNCHANGED <<ptr, size, freep, brk, lentTo, gaps>>

(* All around the list: morecore(), which frees what sbrk() gave it; the   *)
(* search goes on behind freep.                                            *)
morecore ==
  LET nu == IF scan.n < CORE THEN CORE ELSE scan.n
      f == Freed([size EXCEPT ![brk] = nu], brk)
  IN  /\ scan.pc = "scan" /\ size[scan.p] < scan.n /\ scan.p = freep
      /\ IF brk + nu > MaxBreak
         THEN scan' = NoScan /\ UNCHANGED <<ptr, size, freep, brk>>
         ELSE /\ ptr' = f.ptr /\ size' = f.size /\ freep' = f.freep
              /\ brk' = brk + nu
              /\ scan' = [scan EXCEPT !.prevp = freep', !.p = ptr'[freep']]
      /\ UNCHANGED <<lentTo, gaps>>

(* The program moves the break. *)
sbrk ==
  /\ scan.pc = "idle" /\ brk + 1 <= MaxBreak
  /\ gaps' = gaps \cup {brk} /\ brk' = brk + 1
  /\ UNCHANGED <<ptr, size, freep, lentTo, scan>>

UNext ==
  \/ \E n \in 2..MaxUnits : malloc(n)
  \/ \E a \in 1..MaxBreak : free(a) \/ malloc_take(a)
  \/ malloc_next \/ morecore \/ sbrk

USpec == UInit /\ [][UNext]_uVars

-----------------------------------------------------------------------------
(* Properties *)

FreeBlocks == IF freep = Null THEN {} ELSE List \ {base}
Extent(a) == a..a + size[a] - 1

(* Every Header below the break belongs to one block, free or lent: none   *)
(* is lent twice, none is lost, whatever the order of the calls.           *)
Tiled ==
  LET blocks == FreeBlocks \cup lentTo
  IN  /\ FreeBlocks \cap lentTo = {}
      /\ \A a, b \in blocks : a # b => Extent(a) \cap Extent(b) = {}
      /\ UNION {Extent(a) : a \in blocks} \cup gaps = 1..brk - 1

(* The list goes up through all free blocks and around once, and no two    *)
(* neighbours in it touch: free memory does not stay in pieces.            *)
Coalesced ==
  freep # Null =>
    \A a \in List : /\ ptr[a] > a \/ ptr[a] = base
                    /\ a # base => a + size[a] # ptr[a]

(* malloc() asks for memory only where no free block would do.             *)
NoNeedlessCore ==
  scan.pc = "scan" /\ size[scan.p] < scan.n /\ scan.p = freep
    => \A a \in FreeBlocks : size[a] < scan.n
=============================================================================
