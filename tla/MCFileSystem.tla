---------------------------- MODULE MCFileSystem ----------------------------
(***************************************************************************)
(* Small instances of the buffer cache, of the inodes and directories, and *)
(* of mkfs, whose image they start from.  A behaviour is one of one        *)
(* component, named by part.                                               *)
(***************************************************************************)
EXTENDS TLC, BufferCache, MCNamespace, Mkfs

CONSTANTS
  Parts,   \* the components to check
  Off      \* the value of the variables of a component that is not running

VARIABLE part

FileSystemInit ==
  /\ part \in Parts
  /\ CacheInit    \* also when another component runs
  /\ part = "cache" \/ \A k \in Blocks : sector[k] = 0
  /\ IF part = "names" THEN NsInit
     ELSE /\ dinode = Off /\ islot = Off /\ cwd = Off /\ opened = Off /\ fsp = Off /\ calls = Off
          /\ fsPanic = Off
  /\ IF part = "mkfs" THEN MkfsInit ELSE img = Off /\ making = Off

Others(p) ==
  /\ UNCHANGED part
  /\ IF p = "cache" THEN TRUE ELSE UNCHANGED <<diskVars, cacheVars>>
  /\ IF p = "names" THEN TRUE ELSE UNCHANGED nsVars
  /\ IF p = "mkfs" THEN TRUE ELSE UNCHANGED mkfsVars

FileSystemNext ==
  \/ part = "cache" /\ CacheNext /\ Others("cache")
  \/ part = "names" /\ NsNext /\ Others("names")
  \/ part = "mkfs" /\ MkfsNext /\ Others("mkfs")

fileSystemVars == <<part, diskVars, cacheVars, nsVars, mkfsVars>>
FileSystemSpec == FileSystemInit /\ [][FileSystemNext]_fileSystemVars

Symmetry == Permutations(FsProcs) \cup Permutations(DiskProcs) \cup Permutations(Blocks)

-----------------------------------------------------------------------------
(* The properties of the components, each while its component runs; the    *)
(* invariant of the buffer cache is that of its module.                    *)

In(p, P) == part = p => P

(* However link, unlink, create, open, close and chdir race: ref counts    *)
(* the references to an inode exactly, on failing paths too, no inode that *)
(* a name leads to is freed, and so no assertion of ilock(), iunlock(),    *)
(* unlink() or create() fails.                                             *)
Names_Consistent == In("names", NoFsPanic /\ RefExact /\ NoDangling)

(* Nobody waits for ever for an inode: calls never wait for each other's   *)
(* locks in a circle, nor iput() for one while it holds itable.lock.       *)
Names_NeverStuck == In("names", IputNeverBlocks /\ NeverStuck)

(* mkfs makes an image the kernel can start from: its bitmap marks the     *)
(* blocks in use, each of one owner, and each file has its data in place.  *)
Mkfs_ImageSound == In("mkfs", ImageBlocksExact /\ ImageReadsBack)
=============================================================================
