----------------------------- MODULE Namespace ------------------------------
(***************************************************************************)
(* Inodes, directories and path names: the inode table of kernel/fs.c with *)
(* namex(), dirlookup() and dirlink(), and the system calls of             *)
(* kernel/sysfile.c that create, look up and remove names.                 *)
(*                                                                         *)
(* Granularity.  A step ends where another process can act on what was     *)
(* read: where an inode lock is taken while another is held, between the   *)
(* lookups of two path elements, and on both sides of every iput(), whose  *)
(* freeing and dropping are two steps.  itable.lock is held for single     *)
(* steps.  A directory is a function from names to inode numbers; what     *)
(* files contain, and the blocks, are in FileData, the transactions around *)
(* the calls in Transactions.                                              *)
(***************************************************************************)
EXTENDS Integers, Sequences, FiniteSetsExt

CONSTANTS
  FsProcs,
  NINODE,      \* slots of itable
  NINODES,     \* inodes on the disk, number 1 is the root
  Calls,       \* the calls processes may make
  MaxCalls,    \* bound of the model: calls in a behaviour
  MayFill      \* TRUE: dirlink() and filealloc() may fail for lack of space

ASSUME NamespaceAssumption == NINODE \in Nat \ {0} /\ NINODES \in Nat \ {0}

NoInode == 0
Slots == 1..NINODE
Inums == 1..NINODES
ROOTINO == 1

VARIABLES
  dinode,   \* on disk: type, nlink and, of directories, the entries
  islot,    \* itable: inum, ref, valid, the cached type and nlink, the lock's holder
  cwd,      \* p->cwd, and the inode of the one file p may have open
  opened,
  fsp,      \* of each process: its system call
  calls,    \* calls made
  fsPanic

nsVars == <<dinode, islot, cwd, opened, fsp, calls, fsPanic>>

Free == [type |-> "free", nlink |-> 0, ents |-> <<>>]
NoCall == [op |-> "", path |-> <<>>, to |-> <<>>, type |-> ""]
Resting == [pc |-> "idle", call |-> NoCall, path |-> <<>>, ip |-> NoInode, dp |-> NoInode,
            src |-> NoInode, drop |-> <<>>, freed |-> FALSE, then |-> "idle"]

(* mkfs makes a root directory with a file in it; every process starts in  *)
(* the root.                                                               *)
NsInit ==
  /\ dinode = [i \in Inums |->
       CASE i = ROOTINO -> [type |-> "dir", nlink |-> 1,
                            ents |-> [n \in {".", "..", "a"} |-> IF n = "a" THEN 2 ELSE ROOTINO]]
         [] i = 2 -> [type |-> "file", nlink |-> 1, ents |-> <<>>]
         [] OTHER -> Free]
  /\ islot = [s \in Slots |-> [inum |-> IF s = 1 THEN ROOTINO ELSE 0,
                               ref |-> IF s = 1 THEN Cardinality(FsProcs) ELSE 0,
                               valid |-> FALSE, type |-> "free", nlink |-> 0, lock |-> NoInode]]
  /\ cwd = [p \in FsProcs |-> 1] /\ opened = [p \in FsProcs |-> NoInode]
  /\ fsp = [p \in FsProcs |-> Resting]
  /\ calls = 0
  /\ fsPanic = FALSE

-----------------------------------------------------------------------------
(* The inode table.  t is a table to change, s a slot. *)

LowestOf(S) == CHOOSE i \in S : \A j \in S : i <= j

(* The slot iget() returns; NoInode is its panic. *)
IgetSlot(t, inum) ==
  LET hit == {s \in Slots : t[s].ref > 0 /\ t[s].inum = inum}
      empty == {s \in Slots : t[s].ref = 0}
  IN  IF hit # {} THEN LowestOf(hit) ELSE IF empty # {} THEN LowestOf(empty) ELSE NoInode

iget(t, inum) ==
  LET s == IgetSlot(t, inum)
  IN  IF s = NoInode THEN t
      ELSE IF t[s].ref > 0 THEN [t EXCEPT ![s].ref = @ + 1]
      ELSE [t EXCEPT ![s].inum = inum, ![s].ref = 1, ![s].valid = FALSE]

idup(t, s) == [t EXCEPT ![s].ref = @ + 1]

(* ilock() once it has the lock: the inode is read if it is not yet valid. *)
ilock(t, s, p) ==
  LET d == dinode[t[s].inum]
  IN  IF t[s].valid THEN [t EXCEPT ![s].lock = p]
      ELSE [t EXCEPT ![s].lock = p, ![s].valid = TRUE, ![s].type = d.type, ![s].nlink = d.nlink]

iunlock(t, s) == [t EXCEPT ![s].lock = NoInode]

(* Change nlink and iupdate(): the copy and the disk. *)
SetLink(t, s, n) == [t EXCEPT ![s].nlink = n]
iupdate(D, t, s) == [D EXCEPT ![t[s].inum].type = t[s].type, ![t[s].inum].nlink = t[s].nlink]

Ents(s) == dinode[islot[s].inum].ents

(* The inode the next step of p locks. *)
Wanted(p) == IF fsp[p].pc = "bad" THEN fsp[p].src ELSE fsp[p].ip

(* ilock() of that inode: the lock is free; the panics are an inode        *)
(* without references and one without a type; bad is a panic further on.   *)
ilocking(p, bad) ==
  /\ ~fsPanic /\ islot[Wanted(p)].lock = NoInode
  /\ fsPanic' = (\/ bad \/ islot[Wanted(p)].ref < 1
                 \/ ~islot[Wanted(p)].valid /\ dinode[islot[Wanted(p)].inum].type = "free")

(* Continue p's call: iput() the inodes in drop, then go to pc. *)
Drop(p, drop, pc) == [fsp EXCEPT ![p].pc = "iput", ![p].drop = drop, ![p].then = pc]

Quiet == UNCHANGED <<calls, fsPanic>>
-----------------------------------------------------------------------------
(* iput() *)

Last(s) == islot[s].ref = 1 /\ islot[s].valid /\ islot[s].nlink = 0

(* The last reference to an inode without links: itrunc(), and the type    *)
(* becomes free on the disk, under the inode's lock.                       *)
iput_free(p) ==
  LET s == Head(fsp[p].drop)
      t == [islot EXCEPT ![s].type = "free", ![s].valid = FALSE]
  IN  /\ ~fsPanic /\ fsp[p].pc = "iput" /\ ~fsp[p].freed /\ Last(s) /\ islot[s].lock = NoInode
      /\ islot' = t
      /\ dinode' = [iupdate(dinode, t, s) EXCEPT ![t[s].inum].ents = <<>>]
      /\ fsp' = [fsp EXCEPT ![p].freed = TRUE]
      /\ Quiet /\ UNCHANGED <<cwd, opened>>

(* Drop the reference; the call ends where nothing is left to do. *)
iput_drop(p) ==
  LET rest == Tail(fsp[p].drop)
      s == Head(fsp[p].drop)
  IN  /\ ~fsPanic /\ fsp[p].pc = "iput" /\ (fsp[p].freed \/ ~Last(s))
      /\ islot' = [islot EXCEPT ![s].ref = @ - 1]
      /\ fsp' = IF rest # <<>> THEN [fsp EXCEPT ![p].drop = rest, ![p].freed = FALSE]
                ELSE IF fsp[p].then = "idle" THEN [fsp EXCEPT ![p] = Resting]
                ELSE [fsp EXCEPT ![p].pc = fsp[p].then, ![p].drop = <<>>, ![p].freed = FALSE]
      /\ Quiet /\ UNCHANGED <<dinode, cwd, opened>>

-----------------------------------------------------------------------------
(* namex() *)

(* Its start: the root or the current directory. *)
StartSlot(t, p, path) == IF Head(path) = "/" THEN IgetSlot(t, ROOTINO) ELSE cwd[p]
Started(t, p, path) == IF Head(path) = "/" THEN iget(t, ROOTINO) ELSE idup(t, cwd[p])
Elements(path) == IF Head(path) = "/" THEN Tail(path) ELSE path

(* Does the lookup of p's call stop at the parent? *)
Parent(p) == fsp[p].call.op \in {"unlink", "create"} \/ fsp[p].src # NoInode

begin(p, c) ==
  /\ ~fsPanic /\ fsp[p].pc = "idle" /\ calls < MaxCalls
  /\ c.op = "open" \/ (c.op = "create" /\ c.type = "file") => opened[p] = NoInode
  /\ islot' = Started(islot, p, c.path)
  /\ fsp' = [fsp EXCEPT ![p] = [Resting EXCEPT !.pc = "walk", !.call = c, !.path = Elements(c.path),
                                               !.ip = StartSlot(islot, p, c.path)]]
  /\ calls' = calls + 1
  /\ fsPanic' = (StartSlot(islot, p, c.path) = NoInode)
  /\ UNCHANGED <<dinode, cwd, opened>>

(* No path, or no inode: the second lookup of link() undoes the first. *)
NotFound(p) == IF fsp[p].src = NoInode THEN "idle" ELSE "bad"

(* The path is used up: the inode, or for nameiparent() nothing. *)
namex_end(p) ==
  /\ ~fsPanic /\ fsp[p].pc = "walk" /\ fsp[p].path = <<>>
  /\ fsp' = IF Parent(p) THEN Drop(p, <<fsp[p].ip>>, NotFound(p)) ELSE [fsp EXCEPT ![p].pc = "found"]
  /\ Quiet /\ UNCHANGED <<dinode, islot, cwd, opened>>

(* One element: ilock(), dirlookup(), iunlockput(). *)
namex(p) ==
  LET ip == fsp[p].ip
      name == Head(fsp[p].path)
      t == iunlock(ilock(islot, ip, p), ip)
      stop == Parent(p) /\ Len(fsp[p].path) = 1
      inum == Ents(ip)[name]
  IN  /\ fsp[p].pc = "walk" /\ fsp[p].path # <<>>
      /\ \/ /\ t[ip].type = "dir" /\ stop
            /\ ilocking(p, FALSE)
            /\ islot' = t
            /\ fsp' = [fsp EXCEPT ![p].pc = "found"]
         \/ /\ t[ip].type # "dir" \/ (~stop /\ name \notin DOMAIN Ents(ip))
            /\ ilocking(p, FALSE)
            /\ islot' = t
            /\ fsp' = Drop(p, <<ip>>, NotFound(p))
         \/ /\ t[ip].type = "dir" /\ ~stop /\ name \in DOMAIN Ents(ip)
            /\ ilocking(p, IgetSlot(t, inum) = NoInode)
            /\ islot' = iget(t, inum)
            /\ fsp' = [Drop(p, <<ip>>, "walk") EXCEPT ![p].ip = IgetSlot(t, inum), ![p].path = Tail(@)]
      /\ UNCHANGED <<calls, dinode, cwd, opened>>

-----------------------------------------------------------------------------
(* The calls, once their path is found *)

(* sys_open() without O_CREATE; it may find no free file. *)
sys_open(p) ==
  LET t == iunlock(ilock(islot, fsp[p].ip, p), fsp[p].ip)
  IN  /\ fsp[p].pc = "found" /\ fsp[p].call.op = "open" /\ ilocking(p, FALSE)
      /\ islot' = t
      /\ \/ /\ opened' = [opened EXCEPT ![p] = fsp[p].ip]
            /\ fsp' = [fsp EXCEPT ![p] = Resting]
         \/ /\ MayFill \/ t[fsp[p].ip].type = "dir"
            /\ fsp' = Drop(p, <<fsp[p].ip>>, "idle")
            /\ UNCHANGED opened
      /\ UNCHANGED <<calls, dinode, cwd>>

(* sys_close(): fileclose() of the only descriptor *)
fileclose_inode(p) ==
  /\ ~fsPanic /\ fsp[p].pc = "idle" /\ opened[p] # NoInode
  /\ fsp' = Drop(p, <<opened[p]>>, "idle")
  /\ opened' = [opened EXCEPT ![p] = NoInode]
  /\ Quiet /\ UNCHANGED <<dinode, islot, cwd>>

sys_chdir(p) ==
  LET t == iunlock(ilock(islot, fsp[p].ip, p), fsp[p].ip)
  IN  /\ fsp[p].pc = "found" /\ fsp[p].call.op = "chdir" /\ ilocking(p, FALSE)
      /\ islot' = t
      /\ IF t[fsp[p].ip].type # "dir"
         THEN fsp' = Drop(p, <<fsp[p].ip>>, "idle") /\ UNCHANGED cwd
         ELSE fsp' = Drop(p, <<cwd[p]>>, "idle") /\ cwd' = [cwd EXCEPT ![p] = fsp[p].ip]
      /\ UNCHANGED <<calls, dinode, opened>>

(* Mutant: the link is not counted. *)
sys_link_NoInc(p) ==
  LET ip == fsp[p].ip
      t == iunlock(ilock(islot, ip, p), ip)
      u == SetLink(t, ip, t[ip].nlink)
      to == fsp[p].call.to
  IN  /\ fsp[p].pc = "found" /\ fsp[p].call.op = "link" /\ fsp[p].src = NoInode
      /\ ilocking(p, t[ip].type # "dir" /\ StartSlot(u, p, to) = NoInode)
      /\ IF t[ip].type = "dir"
         THEN islot' = t /\ fsp' = Drop(p, <<ip>>, "idle") /\ UNCHANGED dinode
         ELSE /\ dinode' = iupdate(dinode, u, ip)
              /\ islot' = Started(u, p, to)
              /\ fsp' = [fsp EXCEPT ![p].pc = "walk", ![p].src = ip, ![p].path = Elements(to),
                                    ![p].ip = StartSlot(u, p, to)]
      /\ UNCHANGED <<calls, cwd, opened>>

(* sys_link(): first the inode gets its link, then the new name is looked up, *)
sys_link(p) ==
  LET ip == fsp[p].ip
      t == iunlock(ilock(islot, ip, p), ip)
      u == SetLink(t, ip, t[ip].nlink + 1)
      to == fsp[p].call.to
  IN  /\ fsp[p].pc = "found" /\ fsp[p].call.op = "link" /\ fsp[p].src = NoInode
      /\ ilocking(p, t[ip].type # "dir" /\ StartSlot(u, p, to) = NoInode)
      /\ IF t[ip].type = "dir"
         THEN islot' = t /\ fsp' = Drop(p, <<ip>>, "idle") /\ UNCHANGED dinode
         ELSE /\ dinode' = iupdate(dinode, u, ip)
              /\ islot' = Started(u, p, to)
              /\ fsp' = [fsp EXCEPT ![p].pc = "walk", ![p].src = ip, ![p].path = Elements(to),
                                    ![p].ip = StartSlot(u, p, to)]
      /\ UNCHANGED <<calls, cwd, opened>>

(* and entered in its directory, unless it exists or the disk is full (the *)
(* reference dirlink() takes to an entry that exists is put at once).      *)
sys_link_enter(p) ==
  LET dp == fsp[p].ip
      name == Head(fsp[p].path)
      t == iunlock(ilock(islot, dp, p), dp)
  IN  /\ fsp[p].pc = "found" /\ fsp[p].call.op = "link" /\ fsp[p].src # NoInode
      /\ ilocking(p, t[dp].type # "dir")
      /\ islot' = t
      /\ \/ /\ name \notin DOMAIN Ents(dp)
            /\ dinode' = [dinode EXCEPT ![islot[dp].inum].ents =
                            [n \in DOMAIN @ \cup {name} |-> IF n = name THEN islot[fsp[p].src].inum ELSE @[n]]]
            /\ fsp' = [Drop(p, <<dp, fsp[p].src>>, "idle") EXCEPT ![p].src = NoInode]
         \/ /\ name \in DOMAIN Ents(dp) \/ MayFill
            /\ fsp' = Drop(p, <<dp>>, "bad")
            /\ UNCHANGED dinode
      /\ UNCHANGED <<calls, cwd, opened>>

(* Otherwise the link is taken back. *)
sys_link_bad(p) ==
  LET ip == fsp[p].src
      t == iunlock(ilock(islot, ip, p), ip)
      u == SetLink(t, ip, t[ip].nlink - 1)
  IN  /\ fsp[p].pc = "bad" /\ ilocking(p, FALSE)
      /\ islot' = u /\ dinode' = iupdate(dinode, u, ip)
      /\ fsp' = [Drop(p, <<ip>>, "idle") EXCEPT ![p].src = NoInode]
      /\ UNCHANGED <<calls, cwd, opened>>

(* Mutant: "." may be unlinked. *)
sys_unlink_Dot(p) ==
  LET dp == fsp[p].ip
      name == Head(fsp[p].path)
      t == ilock(islot, dp, p)
  IN  /\ fsp[p].pc = "found" /\ fsp[p].call.op = "unlink"
      /\ IF name \notin DOMAIN Ents(dp)
         THEN /\ ilocking(p, t[dp].type # "dir")
              /\ islot' = iunlock(t, dp) /\ fsp' = Drop(p, <<dp>>, "idle")
         ELSE /\ ilocking(p, t[dp].type # "dir" \/ IgetSlot(t, Ents(dp)[name]) = NoInode)
              /\ islot' = iget(t, Ents(dp)[name])
              /\ fsp' = [fsp EXCEPT ![p].pc = "unlink_ip", ![p].dp = dp, ![p].ip = IgetSlot(t, Ents(dp)[name])]
      /\ UNCHANGED <<calls, dinode, cwd, opened>>

(* sys_unlink(): with the parent locked, look the name up; *)
sys_unlink(p) ==
  LET dp == fsp[p].ip
      name == Head(fsp[p].path)
      t == ilock(islot, dp, p)
  IN  /\ fsp[p].pc = "found" /\ fsp[p].call.op = "unlink"
      /\ IF name \in {".", ".."} \/ name \notin DOMAIN Ents(dp)
         THEN /\ ilocking(p, t[dp].type # "dir")
              /\ islot' = iunlock(t, dp) /\ fsp' = Drop(p, <<dp>>, "idle")
         ELSE /\ ilocking(p, t[dp].type # "dir" \/ IgetSlot(t, Ents(dp)[name]) = NoInode)
              /\ islot' = iget(t, Ents(dp)[name])
              /\ fsp' = [fsp EXCEPT ![p].pc = "unlink_ip", ![p].dp = dp, ![p].ip = IgetSlot(t, Ents(dp)[name])]
      /\ UNCHANGED <<calls, dinode, cwd, opened>>

IsDirEmpty(s) == DOMAIN Ents(s) \subseteq {".", ".."}

(* then, with the inode locked too, clear the entry and unlock the parent. *)
sys_unlink_ip(p) ==
  LET dp == fsp[p].dp
      ip == fsp[p].ip
      t == ilock(islot, ip, p)
      u == IF t[ip].type = "dir" THEN SetLink(t, dp, t[dp].nlink - 1) ELSE t
  IN  /\ fsp[p].pc = "unlink_ip" /\ ilocking(p, t[ip].nlink < 1)
      /\ IF t[ip].type = "dir" /\ ~IsDirEmpty(ip)
         THEN /\ islot' = iunlock(t, ip)
              /\ fsp' = Drop(p, <<ip>>, "unlock_dp")
              /\ UNCHANGED dinode
         ELSE /\ islot' = iunlock(u, dp)
              /\ dinode' = [iupdate(dinode, u, dp) EXCEPT ![u[dp].inum].ents =
                              [n \in DOMAIN @ \ {Head(fsp[p].path)} |-> @[n]]]
              /\ fsp' = Drop(p, <<dp>>, "unlink_end")
      /\ UNCHANGED <<calls, cwd, opened>>

(* At last the inode loses its link. *)
sys_unlink_end(p) ==
  LET ip == fsp[p].ip
      t == iunlock(SetLink(islot, ip, islot[ip].nlink - 1), ip)
  IN  /\ ~fsPanic /\ fsp[p].pc = "unlink_end"
      /\ islot' = t /\ dinode' = iupdate(dinode, t, ip)
      /\ fsp' = Drop(p, <<ip>>, "idle")
      /\ Quiet /\ UNCHANGED <<cwd, opened>>

(* iunlockput(dp), where unlink() and create() give up *)
unlock_dp(p) ==
  /\ ~fsPanic /\ fsp[p].pc = "unlock_dp"
  /\ islot' = iunlock(islot, fsp[p].dp)
  /\ fsp' = Drop(p, <<fsp[p].dp>>, "idle")
  /\ Quiet /\ UNCHANGED <<dinode, cwd, opened>>

(* create(): the name exists, *)
create_exists(p) ==
  LET dp == fsp[p].ip
      name == Head(fsp[p].path)
      t == iunlock(ilock(islot, dp, p), dp)
  IN  /\ fsp[p].pc = "found" /\ fsp[p].call.op = "create" /\ name \in DOMAIN Ents(dp)
      /\ ilocking(p, t[dp].type # "dir" \/ IgetSlot(t, Ents(dp)[name]) = NoInode)
      /\ islot' = iget(t, Ents(dp)[name])
      /\ fsp' = [Drop(p, <<dp>>, "create_old") EXCEPT ![p].ip = IgetSlot(t, Ents(dp)[name])]
      /\ UNCHANGED <<calls, dinode, cwd, opened>>

(* and then sys_open() opens the file, if there is a file to be had;       *)
(* everything else fails;                                                  *)
create_old(p) ==
  LET ip == fsp[p].ip
      t == iunlock(ilock(islot, ip, p), ip)
      opens == fsp[p].call.type = "file" /\ t[ip].type \in {"file", "device"}
  IN  /\ fsp[p].pc = "create_old" /\ ilocking(p, FALSE)
      /\ islot' = t
      /\ \/ /\ opens
            /\ opened' = [opened EXCEPT ![p] = ip]
            /\ fsp' = [fsp EXCEPT ![p] = Resting]
         \/ /\ ~opens \/ MayFill
            /\ fsp' = Drop(p, <<ip>>, "idle")
            /\ UNCHANGED opened
      /\ UNCHANGED <<calls, dinode, cwd>>

(* it does not exist: ialloc() takes the first free inode, with the parent *)
(* locked;                                                                 *)
create_ialloc(p) ==
  LET dp == fsp[p].ip
      t == ilock(islot, dp, p)
      free == {i \in Inums : dinode[i].type = "free"}
      inum == LowestOf(free)
  IN  /\ fsp[p].pc = "found" /\ fsp[p].call.op = "create" /\ Head(fsp[p].path) \notin DOMAIN Ents(dp)
      /\ ilocking(p, t[dp].type # "dir" \/ (free # {} /\ IgetSlot(t, inum) = NoInode))
      /\ IF free = {}
         THEN islot' = iunlock(t, dp) /\ fsp' = Drop(p, <<dp>>, "idle") /\ UNCHANGED dinode
         ELSE /\ islot' = iget(t, inum)
              /\ dinode' = [dinode EXCEPT ![inum] = [Free EXCEPT !.type = fsp[p].call.type]]
              /\ fsp' = [fsp EXCEPT ![p].pc = "create_new", ![p].dp = dp, ![p].ip = IgetSlot(t, inum)]
      /\ UNCHANGED <<calls, cwd, opened>>

(* the new inode gets its link, . and .., and its name; *)
create_new(p) ==
  LET dp == fsp[p].dp
      ip == fsp[p].ip
      dir == fsp[p].call.type = "dir"
      t == SetLink(ilock(islot, ip, p), ip, 1)
      u == IF dir THEN SetLink(t, dp, t[dp].nlink + 1) ELSE t
      name == Head(fsp[p].path)
      own == IF dir THEN [n \in {".", ".."} |-> IF n = "." THEN t[ip].inum ELSE t[dp].inum] ELSE <<>>
      named == [n \in DOMAIN Ents(dp) \cup {name} |-> IF n = name THEN t[ip].inum ELSE Ents(dp)[n]]
  IN  /\ fsp[p].pc = "create_new" /\ ilocking(p, FALSE)
      /\ islot' = iunlock(u, dp)
      /\ dinode' = [iupdate(iupdate(dinode, u, ip), u, dp) EXCEPT
                      ![t[ip].inum].ents = own, ![t[dp].inum].ents = named]
      /\ fsp' = Drop(p, <<dp>>, "created")
      /\ UNCHANGED <<calls, cwd, opened>>

(* and where the disk is full the inode is given back: nlink becomes 0.    *)
create_fail(p) ==
  LET ip == fsp[p].ip
      t == iunlock(SetLink(ilock(islot, ip, p), ip, 0), ip)
  IN  /\ fsp[p].pc = "create_new" /\ MayFill /\ ilocking(p, FALSE)
      /\ islot' = t /\ dinode' = iupdate(dinode, t, ip)
      /\ fsp' = Drop(p, <<ip>>, "unlock_dp")
      /\ UNCHANGED <<calls, cwd, opened>>

(* sys_open() opens the new file, if there is a file to be had; mkdir and  *)
(* mknod let go of it.                                                     *)
created(p) ==
  LET ip == fsp[p].ip
  IN  /\ ~fsPanic /\ fsp[p].pc = "created"
      /\ islot' = iunlock(islot, ip)
      /\ \/ /\ fsp[p].call.type = "file"
            /\ opened' = [opened EXCEPT ![p] = ip]
            /\ fsp' = [fsp EXCEPT ![p] = Resting]
         \/ /\ fsp[p].call.type # "file" \/ MayFill
            /\ fsp' = Drop(p, <<ip>>, "idle")
            /\ UNCHANGED opened
      /\ Quiet /\ UNCHANGED <<dinode, cwd>>

-----------------------------------------------------------------------------
FsStep(p) ==
  \/ iput_free(p) \/ iput_drop(p) \/ namex_end(p) \/ namex(p)
  \/ sys_open(p) \/ sys_chdir(p)
  \/ sys_link(p) \/ sys_link_enter(p) \/ sys_link_bad(p)
  \/ sys_unlink(p) \/ sys_unlink_ip(p) \/ sys_unlink_end(p) \/ unlock_dp(p)
  \/ create_exists(p) \/ create_old(p) \/ create_ialloc(p) \/ create_new(p) \/ create_fail(p) \/ created(p)

NsNext == \E p \in FsProcs : FsStep(p) \/ fileclose_inode(p) \/ \E c \in Calls : begin(p, c)

NsSpec == NsInit /\ [][NsNext]_nsVars

-----------------------------------------------------------------------------
(* Properties *)

Busy(p) == fsp[p].pc # "idle"

(* No assertion of the inode layer fails: every inode that is locked is    *)
(* referenced and has a type, and what unlink() removes has a link.  This  *)
(* is for paths without "..": a process in a removed directory whose       *)
(* parent was removed after it still finds ".." there, which leads to an   *)
(* inode that is free or somebody else's.                                  *)
NoFsPanic == ~fsPanic

(* How often p refers to slot s. *)
Count(q, s) == Cardinality({k \in DOMAIN q : q[k] = s})
RefsOf(p, s) ==
  LET c == fsp[p]
      holds == <<cwd[p], opened[p], c.src>>
      working == CASE c.pc \in {"idle", "bad"} -> <<>>
                   [] c.pc \in {"walk", "found", "create_old", "created", "unlink_end"} -> <<c.ip>>
                   [] c.pc \in {"unlink_ip", "create_new"} -> <<c.dp, c.ip>>
                   [] c.pc = "unlock_dp" -> <<c.dp>>
                   [] c.pc = "iput" -> c.drop \o
                        (CASE c.then \in {"idle", "bad"} -> <<>>
                           [] c.then = "unlock_dp" -> <<c.dp>>
                           [] OTHER -> <<c.ip>>)
  IN  Count(holds \o working, s)

(* ref counts the references exactly, on every path through every call,    *)
(* the failing ones included: none is leaked, none dropped twice.          *)
RefExact == \A s \in Slots : islot[s].ref = MapThenSumSet(LAMBDA p : RefsOf(p, s), FsProcs)

Dirs == {i \in Inums : dinode[i].type = "dir"}
Named(d) == {n \in DOMAIN dinode[d].ents : n \notin {".", ".."}}
NamesOf(i) == UNION {{<<d, n>> : n \in {m \in Named(d) : dinode[d].ents[m] = i}} : d \in Dirs}
Subdirs(i) == IF i \in Dirs THEN {n \in Named(i) : dinode[i].ents[n] \in Dirs} ELSE {}

(* However calls race, an inode has at least as many links as names and    *)
(* subdirectories: none that a name leads to is freed.  (It may have more: *)
(* a file made in a directory that is being removed keeps its link when    *)
(* the directory and the name in it are gone.)                             *)
NoDangling ==
  \A i \in Inums :
    /\ NamesOf(i) # {} => dinode[i].type # "free"
    /\ dinode[i].nlink >= Cardinality(NamesOf(i)) + Cardinality(Subdirs(i))

(* iput() holds itable.lock, a spin lock, while it takes the lock of the   *)
(* inode it frees: nobody else may hold that one.                          *)
IputNeverBlocks ==
  \A p \in FsProcs : fsp[p].pc = "iput" /\ ~fsp[p].freed /\ Last(Head(fsp[p].drop))
                       => islot[Head(fsp[p].drop)].lock = NoInode

(* Processes that wait for each other's inodes do not wait in a circle.    *)
NeverStuck == ~fsPanic /\ (\E p \in FsProcs : Busy(p)) => ENABLED (\E p \in FsProcs : FsStep(p))

(* An inode without links that nobody refers to is free on the disk.       *)
NoLeak ==
  \A i \in Inums : dinode[i].type # "free" /\ dinode[i].nlink = 0
                     => \E s \in Slots : islot[s].ref > 0 /\ islot[s].inum = i
=============================================================================
