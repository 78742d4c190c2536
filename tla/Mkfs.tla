-------------------------------- MODULE Mkfs --------------------------------
(***************************************************************************)
(* mkfs/mkfs.c, the program that makes the first image of the file system: *)
(* the root directory, then each file, its blocks allocated one after the  *)
(* other, and last the bitmap.  Sizes count directory entries, of which a  *)
(* block holds EPB.  A unit of data is the pair of the inode and of its    *)
(* place in the file.                                                      *)
(***************************************************************************)
EXTENDS Integers, Sequences, FiniteSetsExt

CONSTANTS
  NMETA,      \* nmeta: boot block, superblock, log, inodes and bitmap
  EPB,        \* BSIZE
  MKDIRECT,   \* NDIRECT
  MaxMade,    \* bound of the model: the files given to mkfs
  MaxLength   \* bound of the model: the length of a file

ASSUME MkfsAssumption == {NMETA, EPB, MKDIRECT, MaxMade, MaxLength} \subseteq Nat \ {0}

ROOT == 1

VARIABLES
  img,       \* the image: freeinode, freeblock, and by inode number
             \* size, addrs (data blocks in order) and ind (indirect block);
             \* data by block and place; the bitmap
  making     \* step of main() and the file it works on

mkfsVars == <<img, making>>

MadeInums == 1..MaxMade + 1
MkfsInit ==
  /\ img = [freeinode |-> 1, freeblock |-> NMETA, size |-> [i \in MadeInums |-> 0],
            addrs |-> [i \in MadeInums |-> <<>>], ind |-> [i \in MadeInums |-> 0], data |-> {}, bitmap |-> {}]
  /\ making = [pc |-> "root", inum |-> 0]

(* Mutant: the block of an append is taken from where it ends. *)
RECURSIVE iappend_End(_, _, _)
iappend_End(im, inum, n) ==
  LET off == im.size[inum]
      fbn == (off + n) \div EPB
      isNew == fbn >= Len(im.addrs[inum])
      needInd == isNew /\ fbn >= MKDIRECT /\ im.ind[inum] = 0
      b == im.freeblock + (IF needInd THEN 1 ELSE 0)
      x == IF isNew THEN b ELSE im.addrs[inum][fbn + 1]
      n1 == Min({n, (fbn + 1) * EPB - off})
  IN  IF n = 0 THEN im
      ELSE iappend_End([im EXCEPT !.freeblock = IF isNew THEN b + 1 ELSE @,
                              !.ind[inum] = IF needInd THEN im.freeblock ELSE @,
                              !.addrs[inum] = IF isNew THEN Append(@, b) ELSE @,
                              !.data = @ \cup {<<x, (off + k) % EPB, inum, off + k>> : k \in 0..n1 - 1},
                              !.size[inum] = off + n1], inum, n - n1)

RECURSIVE iappend(_, _, _)
iappend(im, inum, n) ==
  LET off == im.size[inum]
      fbn == off \div EPB
      isNew == fbn >= Len(im.addrs[inum])
      needInd == isNew /\ fbn >= MKDIRECT /\ im.ind[inum] = 0
      b == im.freeblock + (IF needInd THEN 1 ELSE 0)
      x == IF isNew THEN b ELSE im.addrs[inum][fbn + 1]
      n1 == Min({n, (fbn + 1) * EPB - off})
  IN  IF n = 0 THEN im
      ELSE iappend([im EXCEPT !.freeblock = IF isNew THEN b + 1 ELSE @,
                              !.ind[inum] = IF needInd THEN im.freeblock ELSE @,
                              !.addrs[inum] = IF isNew THEN Append(@, b) ELSE @,
                              !.data = @ \cup {<<x, (off + k) % EPB, inum, off + k>> : k \in 0..n1 - 1},
                              !.size[inum] = off + n1], inum, n - n1)

ialloc(im) == [im EXCEPT !.freeinode = @ + 1]

(* The root with its entries . and .. *)
mkfs_root ==
  /\ making.pc = "root"
  /\ img' = iappend(iappend(ialloc(img), ROOT, 1), ROOT, 1)
  /\ making' = [pc |-> "files", inum |-> 0]

(* The next file: its inode and its entry in the root *)
mkfs_file ==
  /\ making.pc = "files" /\ img.freeinode \in MadeInums
  /\ img' = iappend(ialloc(img), ROOT, 1)
  /\ making' = [pc |-> "files", inum |-> img.freeinode]

(* A piece of it *)
mkfs_copy ==
  /\ making.pc = "files" /\ making.inum # 0
  /\ \E n \in 1..EPB : /\ img.size[making.inum] + n <= MaxLength
                       /\ img' = iappend(img, making.inum, n)
  /\ UNCHANGED making

(* The size of the root made whole blocks, and balloc() *)
mkfs_end ==
  /\ making.pc = "files"
  /\ img' = [img EXCEPT !.size[ROOT] = (@ \div EPB + 1) * EPB, !.bitmap = 0..img.freeblock - 1]
  /\ making' = [pc |-> "done", inum |-> 0]

MkfsNext == mkfs_root \/ mkfs_file \/ mkfs_copy \/ mkfs_end
MkfsSpec == MkfsInit /\ [][MkfsNext]_mkfsVars

-----------------------------------------------------------------------------
Made == 1..img.freeinode - 1
BlocksOf(i) == {img.addrs[i][k] : k \in DOMAIN img.addrs[i]} \cup ({img.ind[i]} \ {0})

(* The bitmap of the image marks the blocks that are in use and no other,  *)
(* and no block has two owners: the kernel's balloc() can start from it.   *)
ImageBlocksExact ==
  making.pc = "done" =>
    /\ img.bitmap = 0..NMETA - 1 \cup UNION {BlocksOf(i) : i \in Made}
    /\ \A i, j \in Made : i # j => BlocksOf(i) \cap BlocksOf(j) = {}
    /\ \A i \in Made : /\ Cardinality(BlocksOf(i)) = Len(img.addrs[i]) + (IF img.ind[i] = 0 THEN 0 ELSE 1)
                       /\ img.ind[i] # 0 <=> Len(img.addrs[i]) > MKDIRECT
                       /\ \A b \in BlocksOf(i) : b >= NMETA

(* Each file has all its data, at its place, and no hole: a block for each *)
(* part of its size.  The root too, unless its entries fill its blocks, in *)
(* which case its size reaches a block further than it has.                *)
ImageReadsBack ==
  making.pc = "done" =>
    \A i \in Made :
      LET n == IF i = ROOT THEN img.freeinode ELSE img.size[i]
      IN  /\ \A k \in 0..n - 1 : <<img.addrs[i][k \div EPB + 1], k % EPB, i, k>> \in img.data
          /\ i # ROOT \/ n % EPB # 0 => Len(img.addrs[i]) = (img.size[i] + EPB - 1) \div EPB
=============================================================================
