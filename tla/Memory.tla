------------------------------- MODULE Memory -------------------------------
(***************************************************************************)
(* Physical pages and user address spaces: kernel/kalloc.c, the user half  *)
(* of kernel/vm.c, and the operations that build and tear down images when *)
(* memory may run out at any page: fork, exec, sbrk, exit and wait         *)
(* (kernel/proc.c, exec.c).                                                *)
(*                                                                         *)
(* A page table is the tree of Sv39 with a fan-out of 2: eight virtual     *)
(* pages, the trampoline and the trapframe in the last two.  A size counts *)
(* bytes, PGSIZE to the page.                                              *)
(*                                                                         *)
(* Granularity.  kmem.lock is held for single steps.  The loops of         *)
(* uvmalloc() and uvmcopy(), and the parts of exec(), are steps: other     *)
(* processes take and give back pages in between.                          *)
(***************************************************************************)
EXTENDS Integers, FiniteSets

CONSTANTS
  MemProcs,
  PAGES,       \* physical pages above the kernel
  Scarce,      \* how many of them the rest of the kernel may hold
  PGSIZE,
  ExecSizes,   \* bytes of the programs there are
  Grow,        \* how far sbrk goes, up or down
  MaxMemOps       \* bound of the model: calls in a behaviour

ASSUME MemoryAssumption ==
  /\ PAGES \in Nat /\ Scarce \subseteq 0..PAGES /\ PGSIZE \in Nat \ {0}
  /\ ExecSizes \subseteq Nat /\ Grow \subseteq Nat

Page == 1..PAGES
NoPage == 0
Kernel == PAGES + 1     \* the page of the trampoline, which is never freed
Va == 0..7
TRAMPOLINE == 7
TRAPFRAME == 6
PGROUNDUP(sz) == (sz + PGSIZE - 1) \div PGSIZE    \* in pages

NoPte == [pa |-> NoPage, u |-> FALSE]
NoTable == [root |-> NoPage, mid |-> [k \in 0..1 |-> NoPage], low |-> [k \in 0..3 |-> NoPage],
            leaf |-> [v \in Va |-> NoPte]]

VARIABLES
  kmem,      \* the free pages
  held,      \* pages of the rest of the kernel: pipes, arguments of exec
  mp,        \* of each process: trapframe, page table, size, and its call
  mops,
  memPanic

memVars == <<kmem, held, mp, mops, memPanic>>

NoImage == [pc |-> "unused", tf |-> NoPage, t |-> NoTable, sz |-> 0, t2 |-> NoTable, sz2 |-> 0, a |-> 0, old |-> 0,
         goal |-> 0, child |-> NoPage, guard |-> -1, guard2 |-> -1]

-----------------------------------------------------------------------------
(* Page tables.  m has the free pages, a table t, whether all went well,   *)
(* and whether something panicked.                                         *)

M(free, t) == [free |-> free, t |-> t, ok |-> TRUE, panic |-> FALSE]

(* The page kalloc() returns. *)
FirstFree(S) == CHOOSE x \in S : \A y \in S : x <= y

(* walk() with alloc: the tables on the way to v; those made before memory *)
(* runs out stay.                                                          *)
WalkMid(m, v) ==
  IF m.t.mid[v \div 4] # NoPage THEN m
  ELSE IF m.free = {} THEN [m EXCEPT !.ok = FALSE]
  ELSE [m EXCEPT !.t.mid[v \div 4] = FirstFree(m.free), !.free = @ \ {FirstFree(m.free)}]

walk(m, v) ==
  LET n == WalkMid(m, v)
  IN  IF ~n.ok \/ n.t.low[v \div 2] # NoPage THEN n
      ELSE IF n.free = {} THEN [n EXCEPT !.ok = FALSE]
      ELSE [n EXCEPT !.t.low[v \div 2] = FirstFree(n.free), !.free = @ \ {FirstFree(n.free)}]

mappages(m, v, pte) ==
  LET n == walk(m, v)
  IN  IF ~n.ok THEN n
      ELSE [n EXCEPT !.t.leaf[v] = pte, !.panic = @ \/ n.t.leaf[v] # NoPte]

(* uvmunmap() of the virtual pages V; the mappings must exist. *)
uvmunmap(m, V, do_free) ==
  [m EXCEPT !.t.leaf = [v \in Va |-> IF v \in V THEN NoPte ELSE @[v]],
            !.free = IF do_free THEN @ \cup {m.t.leaf[v].pa : v \in V} ELSE @,
            !.panic = @ \/ \E v \in V : m.t.leaf[v] = NoPte]

(* freewalk() of the whole tree, which may hold no mapping any more. *)
freewalk(m) ==
  [m EXCEPT !.t = NoTable,
            !.free = @ \cup (({m.t.root} \cup {m.t.mid[k] : k \in 0..1} \cup {m.t.low[k] : k \in 0..3}) \ {NoPage}),
            !.panic = @ \/ \E v \in Va : m.t.leaf[v] # NoPte]

uvmfree(m, sz) == freewalk(uvmunmap(m, 0..PGROUNDUP(sz) - 1, TRUE))

uvmdealloc(m, oldsz, newsz) ==
  IF newsz >= oldsz THEN m ELSE uvmunmap(m, PGROUNDUP(newsz)..PGROUNDUP(oldsz) - 1, TRUE)

(* uvmcreate() and proc_pagetable(): an empty table with the trampoline    *)
(* and the trapframe, or nothing.                                          *)
proc_pagetable(free, tf) ==
  LET root == FirstFree(free)
      m == mappages(M(free \ {root}, [NoTable EXCEPT !.root = root]), TRAMPOLINE, [pa |-> Kernel, u |-> FALSE])
      n == mappages(m, TRAPFRAME, [pa |-> tf, u |-> FALSE])
  IN  IF free = {} THEN [M(free, NoTable) EXCEPT !.ok = FALSE]
      ELSE IF ~m.ok THEN [uvmfree(m, 0) EXCEPT !.ok = FALSE]
      ELSE IF ~n.ok THEN [uvmfree(uvmunmap(n, {TRAMPOLINE}, FALSE), 0) EXCEPT !.ok = FALSE]
      ELSE n

proc_freepagetable(m, sz) ==
  uvmfree(uvmunmap(uvmunmap(m, {TRAMPOLINE}, FALSE), {TRAPFRAME}, FALSE), sz)

(* freeproc(): the trapframe and the image. *)
freeproc(free, q) ==
  LET m == M(free \cup ({q.tf} \ {NoPage}), q.t)
  IN  IF q.t = NoTable THEN m ELSE proc_freepagetable(m, q.sz)

(* Mutant: a page that cannot be mapped is not given back. *)
uvmalloc_page_Leak(m, a, old) ==
  LET pa == FirstFree(m.free)
      n == mappages([m EXCEPT !.free = @ \ {pa}], a, [pa |-> pa, u |-> TRUE])
  IN  IF m.free = {} THEN [uvmunmap(m, old..a - 1, TRUE) EXCEPT !.ok = FALSE]
      ELSE IF ~n.ok THEN uvmunmap(n, old..a - 1, TRUE)
      ELSE n

(* One page of uvmalloc() that began at page old: a page and its mapping;  *)
(* without either, all that was added is given back.                       *)
uvmalloc_page(m, a, old) ==
  LET pa == FirstFree(m.free)
      n == mappages([m EXCEPT !.free = @ \ {pa}], a, [pa |-> pa, u |-> TRUE])
  IN  IF m.free = {} THEN [uvmunmap(m, old..a - 1, TRUE) EXCEPT !.ok = FALSE]
      ELSE IF ~n.ok THEN uvmunmap([n EXCEPT !.free = @ \cup {pa}], old..a - 1, TRUE)
      ELSE n

-----------------------------------------------------------------------------
(* userinit(): the first process has one page. *)
initproc == CHOOSE p \in MemProcs : TRUE
MemInit ==
  LET tf == 1
      m == uvmalloc_page(proc_pagetable(Page \ {tf}, tf), 0, 0)
  IN  /\ \E k \in Scarce : held = PAGES - k + 1..PAGES
      /\ kmem = m.free \ held
      /\ mp = [p \in MemProcs |-> IF p = initproc THEN [NoImage EXCEPT !.pc = "run", !.tf = tf, !.t = m.t, !.sz = PGSIZE]
                                  ELSE NoImage]
      /\ mops = 0 /\ memPanic = FALSE

Starts(p) == ~memPanic /\ mp[p].pc = "run" /\ mops < MaxMemOps /\ mops' = mops + 1 /\ UNCHANGED held
InCall(p, pc) == ~memPanic /\ mp[p].pc = pc /\ UNCHANGED <<mops, held>>

(* growproc(): growing is a loop; shrinking below zero wraps around to a   *)
(* huge size, which uvmdealloc() takes for no change.  There is less       *)
(* memory than there are addresses: no process reaches its trapframe.      *)
growproc(p, n) ==
  LET q == mp[p]
      m == uvmdealloc(M(kmem, q.t), q.sz, q.sz + n)
  IN  /\ Starts(p) /\ q.sz + n <= TRAPFRAME * PGSIZE
      /\ IF n > 0
         THEN /\ mp' = [mp EXCEPT ![p].pc = "grow", ![p].goal = q.sz + n,
                                  ![p].a = PGROUNDUP(q.sz), ![p].old = PGROUNDUP(q.sz)]
              /\ UNCHANGED <<kmem, memPanic>>
         ELSE /\ mp' = IF q.sz + n < 0 THEN mp ELSE [mp EXCEPT ![p].t = m.t, ![p].sz = q.sz + n,
                                                     ![p].guard = IF @ >= PGROUNDUP(q.sz + n) THEN -1 ELSE @]
              /\ kmem' = IF q.sz + n < 0 THEN kmem ELSE m.free
              /\ memPanic' = (q.sz + n >= 0 /\ m.panic)

(* uvmalloc() for growproc(); the size changes at the end. *)
growproc_page(p) ==
  LET q == mp[p]
      m == uvmalloc_page(M(kmem, q.t), q.a, q.old)
  IN  /\ InCall(p, "grow")
      /\ IF q.a * PGSIZE >= q.goal
         THEN mp' = [mp EXCEPT ![p].pc = "run", ![p].sz = q.goal, ![p].a = 0, ![p].old = 0, ![p].goal = 0]
              /\ UNCHANGED <<kmem, memPanic>>
         ELSE /\ kmem' = m.free /\ memPanic' = m.panic
              /\ mp' = IF m.ok THEN [mp EXCEPT ![p].t = m.t, ![p].a = @ + 1]
                       ELSE [mp EXCEPT ![p].t = m.t, ![p].pc = "run", ![p].a = 0, ![p].old = 0, ![p].goal = 0]

(* exec(): a second image, empty at first. *)
exec(p, size) ==
  LET m == proc_pagetable(kmem, mp[p].tf)
  IN  /\ Starts(p)
      /\ kmem' = m.free /\ memPanic' = m.panic
      /\ mp' = IF m.ok THEN [mp EXCEPT ![p].pc = "load", ![p].t2 = m.t, ![p].goal = size] ELSE mp

Failed(q) == [q EXCEPT !.pc = "run", !.t2 = NoTable, !.sz2 = 0, !.a = 0, !.old = 0, !.goal = 0, !.guard2 = -1]

(* bad: the second image goes. *)
exec_bad(p, m, sz) ==
  LET n == proc_freepagetable(m, sz)
  IN  /\ kmem' = n.free /\ memPanic' = n.panic
      /\ mp' = [mp EXCEPT ![p] = Failed(@)]

(* The program, in segments of one page; reading one may fail.             *)
exec_load(p) ==
  LET q == mp[p]
      m == uvmalloc_page(M(kmem, q.t2), q.a, q.a)
  IN  /\ InCall(p, "load")
      /\ \/ /\ q.a * PGSIZE < q.goal /\ m.ok
            /\ kmem' = m.free /\ memPanic' = m.panic
            /\ mp' = [mp EXCEPT ![p].t2 = m.t, ![p].a = @ + 1, ![p].sz2 = (q.a + 1) * PGSIZE]
         \/ /\ q.a * PGSIZE < q.goal /\ ~m.ok
            /\ exec_bad(p, m, q.sz2)
         \/ exec_bad(p, M(kmem, q.t2), q.sz2)
         \/ /\ q.a * PGSIZE >= q.goal
            /\ mp' = [mp EXCEPT ![p].pc = "stack", ![p].old = q.a]
            /\ UNCHANGED <<kmem, memPanic>>

(* Two pages for the stack, in one uvmalloc(); uvmclear() of the first. *)
exec_stack(p) ==
  LET q == mp[p]
      m == uvmalloc_page(M(kmem, q.t2), q.a, q.old)
  IN  /\ InCall(p, "stack") /\ q.a < q.old + 2
      /\ IF m.ok
         THEN /\ kmem' = m.free /\ memPanic' = m.panic
              /\ mp' = [mp EXCEPT ![p].t2 = [m.t EXCEPT !.leaf[q.old].u = FALSE], ![p].a = @ + 1,
                                  ![p].guard2 = q.old]
         ELSE exec_bad(p, m, q.sz2)

(* The arguments may not fit; otherwise the new image replaces the old.    *)
exec_end(p) ==
  LET q == mp[p]
      n == proc_freepagetable(M(kmem, q.t), q.sz)
  IN  /\ InCall(p, "stack") /\ q.a = q.old + 2
      /\ \/ exec_bad(p, M(kmem, q.t2), q.a * PGSIZE)
         \/ /\ kmem' = n.free /\ memPanic' = n.panic
            /\ mp' = [mp EXCEPT ![p] = [Failed(@) EXCEPT !.t = q.t2, !.sz = q.a * PGSIZE, !.guard = q.guard2]]

(* fork(): allocproc() gives the child a trapframe and an empty image.     *)
fork_alloc(p, c) ==
  LET tf == FirstFree(kmem)
      m == proc_pagetable(kmem \ {tf}, tf)
  IN  /\ Starts(p) /\ mp[c].pc = "unused"
      /\ \/ /\ kmem = {} /\ UNCHANGED <<kmem, mp, memPanic>>
         \/ /\ kmem # {} /\ m.ok
            /\ kmem' = m.free /\ memPanic' = m.panic
            /\ mp' = [mp EXCEPT ![p].pc = "copy", ![p].child = c, ![p].a = 0,
                                ![c] = [NoImage EXCEPT !.pc = "embryo", !.tf = tf, !.t = m.t]]
         \/ /\ kmem # {} /\ ~m.ok
            /\ LET f == freeproc(m.free, [NoImage EXCEPT !.tf = tf]) IN kmem' = f.free /\ memPanic' = (m.panic \/ f.panic)
            /\ UNCHANGED mp

(* One page of uvmcopy(), with its permissions *)
uvmcopy(p) ==
  LET q == mp[p]
      c == mp[q.child]
      pte == q.t.leaf[q.a]
      pa == FirstFree(kmem)
      m == mappages(M(kmem \ {pa}, c.t), q.a, [pte EXCEPT !.pa = pa])
  IN  /\ InCall(p, "copy") /\ q.a * PGSIZE < q.sz /\ kmem # {} /\ m.ok
      /\ kmem' = m.free /\ memPanic' = (m.panic \/ pte = NoPte)
      /\ mp' = [mp EXCEPT ![q.child].t = m.t, ![p].a = @ + 1]

(* err: what was copied goes, then freeproc() of the child, whose size is 0. *)
uvmcopy_err(p) ==
  LET q == mp[p]
      c == mp[q.child]
      pa == FirstFree(kmem)
      m == IF kmem = {} THEN [M(kmem, c.t) EXCEPT !.ok = FALSE]
           ELSE mappages(M(kmem \ {pa}, c.t), q.a, [pa |-> pa, u |-> TRUE])
      n == uvmunmap([m EXCEPT !.free = IF kmem = {} THEN @ ELSE @ \cup {pa}], 0..q.a - 1, TRUE)
      f == freeproc(n.free, [c EXCEPT !.t = n.t])
  IN  /\ InCall(p, "copy") /\ q.a * PGSIZE < q.sz /\ ~m.ok
      /\ kmem' = f.free /\ memPanic' = (n.panic \/ f.panic)
      /\ mp' = [mp EXCEPT ![q.child] = NoImage, ![p].pc = "run", ![p].a = 0, ![p].child = NoPage]

fork_end(p) ==
  LET q == mp[p]
  IN  /\ InCall(p, "copy") /\ q.a * PGSIZE >= q.sz
      /\ mp' = [mp EXCEPT ![q.child].pc = "run", ![q.child].sz = q.sz, ![q.child].guard = q.guard,
                          ![p].pc = "run", ![p].a = 0, ![p].child = NoPage]
      /\ UNCHANGED <<kmem, memPanic>>

(* exit() keeps the image, *)
exit_image(p) ==
  /\ Starts(p) /\ p # initproc
  /\ mp' = [mp EXCEPT ![p].pc = "zombie"]
  /\ UNCHANGED <<kmem, memPanic>>

(* which wait() of a process that is in no other call frees. *)
wait_image(p) ==
  LET f == freeproc(kmem, mp[p])
  IN  /\ InCall(p, "zombie") /\ \E c \in MemProcs : mp[c].pc = "run"
      /\ kmem' = f.free /\ memPanic' = f.panic
      /\ mp' = [mp EXCEPT ![p] = NoImage]

MemNext ==
  \E p \in MemProcs :
    \/ growproc_page(p) \/ exec_load(p) \/ exec_stack(p) \/ exec_end(p)
    \/ uvmcopy(p) \/ uvmcopy_err(p) \/ fork_end(p) \/ exit_image(p) \/ wait_image(p)
    \/ \E n \in Grow : growproc(p, n) \/ growproc(p, -n)
    \/ \E s \in ExecSizes : exec(p, s)
    \/ \E c \in MemProcs : fork_alloc(p, c)

MemSpec == MemInit /\ [][MemNext]_memVars

-----------------------------------------------------------------------------
(* Properties *)

(* The pages of a table, each with its place *)
Places(t) ==
  {<<"root", 0, t.root>>} \cup {<<"mid", k, t.mid[k]>> : k \in 0..1}
  \cup {<<"low", k, t.low[k]>> : k \in 0..3}
  \cup {<<"leaf", v, t.leaf[v].pa>> : v \in Va \ {TRAMPOLINE, TRAPFRAME}}

(* The pages of all images and trapframes, each with its place *)
Placed ==
  {<<p, 0, <<"tf", 0, mp[p].tf>>>> : p \in MemProcs}
  \cup UNION {{<<p, 1, x>> : x \in Places(mp[p].t)} \cup {<<p, 2, x>> : x \in Places(mp[p].t2)} : p \in MemProcs}

(* Every page is free, or at one place of one image: nothing is leaked and *)
(* nothing is given back twice, wherever memory runs out.                  *)
PagesExact ==
  LET placed == Placed
  IN  /\ ~memPanic
      /\ \A pg \in Page : Cardinality({x \in placed : x[3][3] = pg}) = IF pg \in kmem \cup held THEN 0 ELSE 1

(* A process that runs has exactly the pages below its size, and its       *)
(* trampoline and trapframe, whether its last call succeeded or not.       *)
ImageExact ==
  \A p \in MemProcs : mp[p].pc \in {"run", "zombie"} =>
    /\ {v \in Va : mp[p].t.leaf[v] # NoPte} = (0..PGROUNDUP(mp[p].sz) - 1) \cup {TRAMPOLINE, TRAPFRAME}
    /\ mp[p].t.leaf[TRAPFRAME].pa = mp[p].tf

(* The page under the stack that exec() made is the only page below the    *)
(* size a program cannot use, in a child as in its parent.                 *)
GuardKept ==
  \A p \in MemProcs : mp[p].pc \in {"run", "zombie"} =>
    \A v \in 0..PGROUNDUP(mp[p].sz) - 1 : mp[p].t.leaf[v].u <=> v # mp[p].guard
=============================================================================
