----------------------------- MODULE FileTable ------------------------------
(***************************************************************************)
(* Open files: the file table of kernel/file.c, the descriptors of the     *)
(* processes, and the calls that copy and drop them: dup, close, open,     *)
(* pipe, fork and exit (kernel/sysfile.c, pipe.c, proc.c).                 *)
(*                                                                         *)
(* Granularity.  ftable.lock and a pipe's lock are held for single steps.  *)
(* fileclose() drops the reference in one step and closes what the file    *)
(* stood for, from its copy ff, in another; the steps of open and pipe are *)
(* their allocations.  A process's descriptors are its own, so fork copies *)
(* them in one step.                                                       *)
(***************************************************************************)
EXTENDS Integers, Sequences, FiniteSetsExt

CONSTANTS Users, First, NFILE, NOFILE, NPIPE

ASSUME FileTableAssumption == First \in Users /\ {NFILE, NOFILE, NPIPE} \subseteq Nat \ {0}

Files == 1..NFILE
Fds == 0..NOFILE - 1
NoFile == 0
Nothing == [type |-> "none", pipe |-> 0]
Inode == [type |-> "inode", pipe |-> 0]
End(side, i) == [type |-> side, pipe |-> i]   \* "read" and "write" ends of pipe i

VARIABLES
  ftable,    \* ref of every file, and what it stands for
  ofile,     \* the descriptors of every process
  call,      \* of every process: its step, its files in flight, what to close
  pipes,     \* readopen, writeopen and whether the page is in use
  irefs,     \* references to inodes that files hold
  filePanic

fileVars == <<ftable, ofile, call, pipes, irefs, filePanic>>

Rest == [pc |-> "run", files |-> <<>>, ff |-> Nothing, then |-> "run"]
Absent == [Rest EXCEPT !.pc = "unused"]

FilesInit ==
  /\ ftable = [f \in Files |-> [ref |-> 0, is |-> Nothing]]
  /\ ofile = [p \in Users |-> [fd \in Fds |-> NoFile]]
  /\ call = [p \in Users |-> IF p = First THEN Rest ELSE Absent]
  /\ pipes = [i \in 1..NPIPE |-> [used |-> FALSE, read |-> FALSE, write |-> FALSE]]
  /\ irefs = 0
  /\ filePanic = FALSE

-----------------------------------------------------------------------------
Least(S) == CHOOSE i \in S : \A j \in S : i <= j
FreeFiles == {f \in Files : ftable[f].ref = 0}
FreeFds(p) == {fd \in Fds : ofile[p][fd] = NoFile}
Fail(p, files) == [call EXCEPT ![p].pc = "close", ![p].files = files, ![p].then = "run"]

(* filealloc(): f is free and becomes p's, in flight. *)
filealloc(p, pc) ==
  /\ FreeFiles # {}
  /\ ftable' = [ftable EXCEPT ![Least(FreeFiles)].ref = 1]
  /\ call' = [call EXCEPT ![p].pc = pc, ![p].files = Append(@, Least(FreeFiles))]

(* sys_dup(): the descriptor first, *)
sys_dup(p, fd) ==
  /\ ~filePanic /\ call[p].pc = "run" /\ ofile[p][fd] # NoFile /\ FreeFds(p) # {}
  /\ ofile' = [ofile EXCEPT ![p][Least(FreeFds(p))] = ofile[p][fd]]
  /\ call' = [call EXCEPT ![p].pc = "dup", ![p].files = <<ofile[p][fd]>>]
  /\ UNCHANGED <<ftable, pipes, irefs, filePanic>>

(* then the reference. *)
filedup(p) ==
  /\ ~filePanic /\ call[p].pc = "dup"
  /\ filePanic' = (ftable[call[p].files[1]].ref < 1)
  /\ ftable' = [ftable EXCEPT ![call[p].files[1]].ref = @ + 1]
  /\ call' = [call EXCEPT ![p] = Rest]
  /\ UNCHANGED <<ofile, pipes, irefs>>

sys_close(p, fd) ==
  /\ ~filePanic /\ call[p].pc = "run" /\ ofile[p][fd] # NoFile
  /\ ofile' = [ofile EXCEPT ![p][fd] = NoFile]
  /\ call' = Fail(p, <<ofile[p][fd]>>)
  /\ UNCHANGED <<ftable, pipes, irefs, filePanic>>

(* fileclose() of the next file p gives up, under ftable.lock: with the    *)
(* last reference the file is free again and p keeps the copy ff.          *)
fileclose(p) ==
  LET f == Head(call[p].files)
      last == ftable[f].ref = 1
  IN  /\ ~filePanic /\ call[p].pc = "close" /\ call[p].ff = Nothing /\ call[p].files # <<>>
      /\ filePanic' = (ftable[f].ref < 1)
      /\ ftable' = [ftable EXCEPT ![f] = [ref |-> @.ref - 1, is |-> IF last THEN Nothing ELSE @.is]]
      /\ call' = [call EXCEPT ![p].files = Tail(@), ![p].ff = IF last THEN ftable[f].is ELSE Nothing]
      /\ UNCHANGED <<ofile, pipes, irefs>>

(* fileclose() after the release: pipeclose() or iput() of the copy. *)
fileclose_last(p) ==
  /\ ~filePanic /\ call[p].pc = "close" /\ call[p].ff # Nothing
  /\ call' = [call EXCEPT ![p].ff = Nothing]
  /\ IF call[p].ff = Inode
     THEN irefs' = irefs - 1 /\ UNCHANGED pipes
     ELSE /\ pipes' = [pipes EXCEPT ![call[p].ff.pipe] =
                         LET closed == [@ EXCEPT ![call[p].ff.type] = FALSE]
                         IN  [closed EXCEPT !.used = closed.read \/ closed.write]]
          /\ UNCHANGED irefs
  /\ UNCHANGED <<ftable, ofile, filePanic>>

fileclose_done(p) ==
  /\ ~filePanic /\ call[p].pc = "close" /\ call[p].ff = Nothing /\ call[p].files = <<>>
  /\ call' = [call EXCEPT ![p] = [Rest EXCEPT !.pc = call[p].then]]
  /\ UNCHANGED <<ftable, ofile, pipes, irefs, filePanic>>

(* sys_open() with an inode in hand: filealloc(), *)
sys_open_file(p) ==
  /\ ~filePanic /\ call[p].pc = "run"
  /\ filealloc(p, "open")
  /\ UNCHANGED <<ofile, pipes, irefs, filePanic>>

(* fdalloc(), and the file takes over the reference to the inode; without  *)
(* a descriptor it is closed again.                                        *)
sys_open_fd(p) ==
  LET f == call[p].files[1]
  IN  /\ ~filePanic /\ call[p].pc = "open"
      /\ IF FreeFds(p) # {}
         THEN /\ ofile' = [ofile EXCEPT ![p][Least(FreeFds(p))] = f]
              /\ ftable' = [ftable EXCEPT ![f].is = Inode]
              /\ irefs' = irefs + 1
              /\ call' = [call EXCEPT ![p] = Rest]
         ELSE call' = Fail(p, <<f>>) /\ UNCHANGED <<ofile, ftable, irefs>>
      /\ UNCHANGED <<pipes, filePanic>>

(* pipealloc(): a file, another file, *)
sys_pipe(p) ==
  /\ ~filePanic /\ call[p].pc = "run"
  /\ filealloc(p, "pipe1")
  /\ UNCHANGED <<ofile, pipes, irefs, filePanic>>

pipealloc(p) ==
  /\ ~filePanic /\ call[p].pc = "pipe1"
  /\ \/ filealloc(p, "pipe2")
     \/ FreeFiles = {} /\ call' = Fail(p, call[p].files) /\ UNCHANGED ftable
  /\ UNCHANGED <<ofile, pipes, irefs, filePanic>>

(* and a page for the pipe, which is open at both ends. *)
pipealloc_page(p) ==
  LET free == {i \in DOMAIN pipes : ~pipes[i].used}
      i == Least(free)
      f == call[p].files
  IN  /\ ~filePanic /\ call[p].pc = "pipe2"
      /\ IF free = {}
         THEN call' = Fail(p, f) /\ UNCHANGED <<ftable, pipes>>
         ELSE /\ pipes' = [pipes EXCEPT ![i] = [used |-> TRUE, read |-> TRUE, write |-> TRUE]]
              /\ ftable' = [ftable EXCEPT ![f[1]].is = End("read", i), ![f[2]].is = End("write", i)]
              /\ call' = [call EXCEPT ![p].pc = "pipefd"]
      /\ UNCHANGED <<ofile, irefs, filePanic>>

(* Mutant: where there is only one descriptor, it is kept. *)
sys_pipe_fds_KeepFd(p) ==
  LET f == call[p].files
      fd0 == Least(FreeFds(p))
      fd1 == Least(FreeFds(p) \ {fd0})
  IN  /\ ~filePanic /\ call[p].pc = "pipefd"
      /\ \/ Cardinality(FreeFds(p)) >= 2
            /\ ofile' = [ofile EXCEPT ![p][fd0] = f[1], ![p][fd1] = f[2]]
            /\ call' = [call EXCEPT ![p] = Rest]
         \/ call' = Fail(p, f)
            /\ ofile' = IF Cardinality(FreeFds(p)) = 1 THEN [ofile EXCEPT ![p][fd0] = f[1]] ELSE ofile
      /\ UNCHANGED <<ftable, pipes, irefs, filePanic>>

(* sys_pipe(): two descriptors, and their numbers to the user; if there    *)
(* are not two, or copyout() fails, neither is kept.                       *)
sys_pipe_fds(p) ==
  LET f == call[p].files
      fd0 == Least(FreeFds(p))
      fd1 == Least(FreeFds(p) \ {fd0})
  IN  /\ ~filePanic /\ call[p].pc = "pipefd"
      /\ \/ /\ Cardinality(FreeFds(p)) >= 2
            /\ ofile' = [ofile EXCEPT ![p][fd0] = f[1], ![p][fd1] = f[2]]
            /\ call' = [call EXCEPT ![p] = Rest]
         \/ call' = Fail(p, f) /\ UNCHANGED ofile
      /\ UNCHANGED <<ftable, pipes, irefs, filePanic>>

(* fork(): the child gets a reference for each descriptor. *)
fork_files(p, q) ==
  LET n(f) == Cardinality({fd \in Fds : ofile[p][fd] = f})
  IN  /\ ~filePanic /\ call[p].pc = "run" /\ call[q].pc = "unused"
      /\ filePanic' = (\E f \in Files : n(f) > 0 /\ ftable[f].ref < 1)
      /\ ftable' = [f \in Files |-> [ftable[f] EXCEPT !.ref = @ + n(f)]]
      /\ ofile' = [ofile EXCEPT ![q] = ofile[p]]
      /\ call' = [call EXCEPT ![q] = Rest]
      /\ UNCHANGED <<pipes, irefs>>

(* exit() closes every descriptor, the lowest first; fileclose() and the   *)
(* clearing of the descriptor are seen by nobody else.                     *)
exit_files(p) ==
  /\ ~filePanic /\ p # First /\ call[p].pc = "run"
  /\ call' = [call EXCEPT ![p].pc = "exit"]
  /\ UNCHANGED <<ftable, ofile, pipes, irefs, filePanic>>

exit_close(p) ==
  LET open == Fds \ FreeFds(p)
      fd == Least(open)
  IN  /\ ~filePanic /\ call[p].pc = "exit"
      /\ IF open = {}
         THEN call' = [call EXCEPT ![p] = Absent] /\ UNCHANGED ofile
         ELSE /\ call' = [call EXCEPT ![p].pc = "close", ![p].files = <<ofile[p][fd]>>, ![p].then = "exit"]
              /\ ofile' = [ofile EXCEPT ![p][fd] = NoFile]
      /\ UNCHANGED <<ftable, pipes, irefs, filePanic>>

FileStep(p) ==
  \/ filedup(p) \/ fileclose(p) \/ fileclose_last(p) \/ fileclose_done(p)
  \/ sys_open_file(p) \/ sys_open_fd(p)
  \/ sys_pipe(p) \/ pipealloc(p) \/ pipealloc_page(p) \/ sys_pipe_fds(p)
  \/ exit_files(p) \/ exit_close(p)
  \/ \E fd \in Fds : sys_dup(p, fd) \/ sys_close(p, fd)
  \/ \E q \in Users : fork_files(p, q)

FilesNext == \E p \in Users : FileStep(p)

FilesSpec == FilesInit /\ [][FilesNext]_fileVars

-----------------------------------------------------------------------------
(* Properties *)

HeldBy(p, f) ==
  Cardinality({fd \in Fds : ofile[p][fd] = f})
  + IF call[p].pc = "dup" THEN IF f = call[p].files[1] THEN -1 ELSE 0
    ELSE Cardinality({k \in DOMAIN call[p].files : call[p].files[k] = f})

(* A file's ref is the number of descriptors that name it, and of calls    *)
(* that hold it: open and pipe give back all of it on every failure.       *)
FileRefExact ==
  ~filePanic /\ \A f \in Files : ftable[f].ref = MapThenSumSet(LAMBDA p : HeldBy(p, f), Users)

Closing(e) == {p \in Users : call[p].ff = e}
Standing(e) == {f \in Files : ftable[f].ref > 0 /\ ftable[f].is = e}

(* An end of a pipe is open exactly while a file stands for it or its last *)
(* close is under way; the page is given back with the second end, once.   *)
(* The same holds of the references to inodes.                             *)
ClosedOnce ==
  /\ \A i \in DOMAIN pipes :
       /\ \A side \in {"read", "write"} :
            /\ pipes[i][side] <=> Standing(End(side, i)) \cup Closing(End(side, i)) # {}
            /\ Cardinality(Standing(End(side, i))) + Cardinality(Closing(End(side, i))) <= 1
       /\ pipes[i].used <=> pipes[i].read \/ pipes[i].write
  /\ irefs = Cardinality(Standing(Inode)) + Cardinality(Closing(Inode))
=============================================================================
