------------------------------- MODULE Shell --------------------------------
(***************************************************************************)
(* The processes of a session: init (user/init.c), the shell and the       *)
(* processes runcmd() makes for a line (user/sh.c), the programs they run. *)
(* A step is one system call, or several in a row that only concern the    *)
(* descriptors of the process.  fork(), exit() and wait() do what they do  *)
(* for user programs: the lowest free entry of the process table, orphans  *)
(* to init, the first zombie child.                                        *)
(*                                                                         *)
(* Programs are external: "e" writes once and exits, "c" copies its input  *)
(* to its output up to the end of file; no other file can be executed.     *)
(***************************************************************************)
EXTENDS ShParse

CONSTANTS
  NSLOT,      \* entries of the process table
  NPIPES, NFDS,
  Sessions,   \* bound of the model: the lines that are typed, one after the other
  MaxRestarts,\* bound of the model: ends of input
  MaxFaults   \* bound of the model: system calls that fail without need

Pids == 1..NSLOT
InitPid == 1
NoFile == <<"none", 0>>
Console == <<"console", 0>>
File == <<"file", 0>>

VARIABLES
  sp,       \* the processes
  pfull,    \* pipe: whether it has a byte
  ahead,    \* the lines still to come, in each of the sessions it may be
  restarts, faults

shVars == <<sp, pfull, ahead, restarts, faults>>

NoFds == [d \in 0..NFDS - 1 |-> NoFile]
NoCmd == execcmd(<<>>)
NoProc == [st |-> "unused", parent |-> 0, pc |-> "none", cmd |-> NoCmd, fd |-> NoFds,
           text |-> <<>>, bg |-> FALSE, end |-> <<0, 0>>, child |-> 0]

ShInit ==
  /\ sp = [p \in Pids |-> IF p = InitPid THEN [NoProc EXCEPT !.st = "run", !.pc = "init_main"]
                                         ELSE NoProc]
  /\ pfull = [k \in 1..NPIPES |-> FALSE]
  /\ ahead = Sessions /\ restarts = 0 /\ faults = 0

-----------------------------------------------------------------------------
(* System calls: on the descriptors fd of a process, on the table t. *)
Opened(fd, f) == [fd EXCEPT ![Min({d \in DOMAIN fd : fd[d] = NoFile})] = f]
Closed(fd, D) == [d \in DOMAIN fd |-> IF d \in D THEN NoFile ELSE fd[d]]

HasEnd(f) == \E p \in Pids : \E d \in DOMAIN sp[p].fd : sp[p].fd[d] = f
FreePipes == {k \in 1..NPIPES : ~HasEnd(<<"r", k>>) /\ ~HasEnd(<<"w", k>>)}

FreeSlots == {p \in Pids : sp[p].st = "unused"}
(* fork(): the table with a child of p, which is q, going on at pc *)
forked(t, p, q, pc, cmd) ==
  [t EXCEPT ![q] = [t[p] EXCEPT !.parent = p, !.pc = pc, !.cmd = cmd]]

exited(t, p) ==
  [q \in Pids |-> IF q = p THEN [t[p] EXCEPT !.st = "zombie", !.fd = NoFds, !.pc = "none",
                                            !.cmd = NoCmd, !.text = <<>>, !.end = <<0, 0>>]
                  ELSE IF t[q].parent = p THEN [t[q] EXCEPT !.parent = InitPid] ELSE t[q]]

Children(p) == {q \in Pids : sp[q].parent = p /\ sp[q].st # "unused"}
Zombies(p) == {q \in Children(p) : sp[q].st = "zombie"}
CanReturn(p) == Children(p) = {} \/ Zombies(p) # {}
(* wait(): the entry it frees, none where p has no child *)
Reaped(p) == IF Zombies(p) = {} THEN {} ELSE {Min(Zombies(p))}
freed(t, Q) == [q \in Pids |-> IF q \in Q THEN NoProc ELSE t[q]]

Is(p, pc) == sp[p].st = "run" /\ sp[p].pc = pc
Exit(p) == sp' = exited(sp, p)
To(p, pc) == sp' = [sp EXCEPT ![p].pc = pc]
(* A system call fails, which p reports and exits. *)
Failing(p) == Exit(p) /\ faults' = MaxFaults

(* The child of a process that forks *)
Child == Min(FreeSlots)

(* fork1(), which makes the table t, or fails, and then p exits. *)
fork1(p, t) ==
  \/ FreeSlots # {} /\ sp' = t /\ UNCHANGED faults
  \/ (FreeSlots = {} \/ faults < MaxFaults) /\ Failing(p)

-----------------------------------------------------------------------------
(* init.c: the console on 0, 1 and 2 *)
init_main(p) ==
  /\ Is(p, "init_main")
  /\ sp' = [sp EXCEPT ![p].fd = Opened(Opened(Opened(@, Console), Console), Console),
                      ![p].pc = "init_fork"]
  /\ UNCHANGED <<pfull, ahead, restarts, faults>>

init_fork(p) ==
  /\ Is(p, "init_fork")
  /\ IF FreeSlots = {} THEN Exit(p)
     ELSE sp' = [forked(sp, p, Child, "sh_exec", NoCmd) EXCEPT ![p].pc = "init_wait", ![p].child = Child]
  /\ UNCHANGED <<pfull, ahead, restarts, faults>>

(* Mutant: init waits for the shell only. *)
init_wait_Shell(p) ==
  /\ Is(p, "init_wait") /\ sp[p].child \in Zombies(p)
  /\ sp' = [freed(sp, {sp[p].child}) EXCEPT ![p].pc = "init_fork"]
  /\ UNCHANGED <<pfull, ahead, restarts, faults>>

init_wait(p) ==
  /\ Is(p, "init_wait") /\ CanReturn(p)
  /\ IF Reaped(p) = {} THEN Exit(p)
     ELSE sp' = [freed(sp, Reaped(p)) EXCEPT
                   ![p].pc = IF sp[p].child \in Reaped(p) THEN "init_fork" ELSE "init_wait"]
  /\ UNCHANGED <<pfull, ahead, restarts, faults>>

-----------------------------------------------------------------------------
(* sh.c, main(): exec() by the child of init, then open() until it returns *)
(* a descriptor above 2, which is closed.                                  *)
sh_main(p) ==
  /\ Is(p, "sh_exec")
  /\ \/ /\ sp' = [sp EXCEPT ![p].pc = "prompt", ![p].child = 0,
                            ![p].fd = [d \in DOMAIN @ |-> IF d < 3 /\ @[d] = NoFile THEN Console ELSE @[d]]]
        /\ UNCHANGED faults
     \/ faults < MaxFaults /\ Failing(p)
  /\ UNCHANGED <<pfull, ahead, restarts>>

(* getcmd(): a line, or the end of the input *)
getcmd(p) ==
  /\ Is(p, "prompt")
  /\ \E l \in {Head(s) : s \in ahead \ {<<>>}} :
       /\ sp' = [sp EXCEPT ![p].text = l, ![p].pc = "fork"]
       /\ ahead' = {Tail(s) : s \in {s \in ahead \ {<<>>} : Head(s) = l}}
  /\ UNCHANGED <<pfull, restarts, faults>>

getcmd_eof(p) ==
  /\ Is(p, "prompt") /\ restarts < MaxRestarts
  /\ Exit(p)
  /\ restarts' = restarts + 1
  /\ UNCHANGED <<pfull, ahead, faults>>

(* "cd " is the shell's own; for another line it forks. *)
IsCd(l) == Len(l) >= 3 /\ SubSeq(l, 1, 3) = <<"c", "d", " ">>
sh_fork(p) ==
  /\ Is(p, "fork")
  /\ IF IsCd(sp[p].text)
     THEN sp' = [sp EXCEPT ![p].pc = "prompt", ![p].text = <<>>] /\ UNCHANGED faults
     ELSE fork1(p, [forked(sp, p, Child, "parse", NoCmd) EXCEPT ![p].pc = "wait", ![p].text = <<>>])
  /\ UNCHANGED <<pfull, ahead, restarts>>

sh_wait(p) ==
  /\ Is(p, "wait") /\ CanReturn(p)
  /\ sp' = [freed(sp, Reaped(p)) EXCEPT ![p].pc = "prompt"]
  /\ UNCHANGED <<pfull, ahead, restarts, faults>>

Parsed == [l \in UNION {ToSet(s) : s \in Sessions} |-> parsecmd(l)]
sh_parse(p) ==
  /\ Is(p, "parse")
  /\ IF Parsed[sp[p].text] = Panicked THEN Exit(p)
     ELSE sp' = [sp EXCEPT ![p].cmd = Parsed[sp[p].text], ![p].pc = "run"]
  /\ UNCHANGED <<pfull, ahead, restarts, faults>>

-----------------------------------------------------------------------------
(* runcmd() *)
Running(p, type) == Is(p, "run") /\ sp[p].cmd.type = type
Word(p, w) == SubSeq(sp[p].text, w[1], w[2] - 1)

run_exec(p) ==
  /\ Running(p, "EXEC")
  /\ LET argv == sp[p].cmd.argv
     IN  \/ /\ argv # <<>> /\ Word(p, argv[1]) \in {<<"e">>, <<"c">>}
            /\ sp' = [sp EXCEPT ![p].pc = IF Word(p, argv[1]) = <<"e">> THEN "prog_write" ELSE "prog_read",
                                ![p].cmd = NoCmd]
            /\ UNCHANGED faults
         \/ /\ argv = <<>> \/ Word(p, argv[1]) \notin {<<"e">>, <<"c">>}
            /\ Exit(p) /\ UNCHANGED faults
         \/ faults < MaxFaults /\ Failing(p)
  /\ UNCHANGED <<pfull, ahead, restarts>>

run_redir(p) ==
  /\ Running(p, "REDIR")
  /\ LET c == sp[p].cmd
     IN  \/ /\ sp' = [sp EXCEPT ![p].fd = Opened(Closed(@, {c.fd}), File), ![p].cmd = c.cmd]
            /\ UNCHANGED faults
         \/ faults < MaxFaults /\ Failing(p)
  /\ UNCHANGED <<pfull, ahead, restarts>>

run_list(p) ==
  /\ Running(p, "LIST")
  /\ fork1(p, [forked(sp, p, Child, "run", sp[p].cmd.left) EXCEPT ![p].pc = "list_wait"])
  /\ UNCHANGED <<pfull, ahead, restarts>>

list_wait(p) ==
  /\ Is(p, "list_wait") /\ CanReturn(p)
  /\ sp' = [freed(sp, Reaped(p)) EXCEPT ![p].pc = "run", ![p].cmd = @.right]
  /\ UNCHANGED <<pfull, ahead, restarts, faults>>

run_back(p) ==
  /\ Running(p, "BACK")
  /\ fork1(p, [forked(sp, p, Child, "run", sp[p].cmd.cmd) EXCEPT ![Child].bg = TRUE, ![p].pc = "back_exit"])
  /\ UNCHANGED <<pfull, ahead, restarts>>

(* The exit(0) after the switch *)
back_exit(p) ==
  /\ Is(p, "back_exit") /\ Exit(p)
  /\ UNCHANGED <<pfull, ahead, restarts, faults>>

(* PIPE: p[0] and p[1] are the two lowest free descriptors. *)
run_pipe(p) ==
  /\ Running(p, "PIPE")
  /\ \/ /\ FreePipes # {} /\ Cardinality({d \in DOMAIN sp[p].fd : sp[p].fd[d] = NoFile}) >= 2
        /\ LET k == Min(FreePipes)
               fd == sp[p].fd
               r == Min({d \in DOMAIN fd : fd[d] = NoFile})
               w == Min({d \in DOMAIN fd : fd[d] = NoFile /\ d # r})
           IN  /\ sp' = [sp EXCEPT ![p].fd = [fd EXCEPT ![r] = <<"r", k>>, ![w] = <<"w", k>>],
                                   ![p].end = <<r, w>>, ![p].pc = "pipe_left"]
               /\ pfull' = [pfull EXCEPT ![k] = FALSE]
        /\ UNCHANGED faults
     \/ (FreePipes = {} \/ faults < MaxFaults) /\ Failing(p) /\ UNCHANGED pfull
  /\ UNCHANGED <<ahead, restarts>>

pipe_left(p) ==
  /\ Is(p, "pipe_left")
  /\ fork1(p, [forked(sp, p, Child, "left", sp[p].cmd.left) EXCEPT ![p].pc = "pipe_right"])
  /\ UNCHANGED <<pfull, ahead, restarts>>

pipe_right(p) ==
  /\ Is(p, "pipe_right")
  /\ fork1(p, [forked(sp, p, Child, "right", sp[p].cmd.right) EXCEPT ![p].pc = "pipe_close"])
  /\ UNCHANGED <<pfull, ahead, restarts>>

(* The children: close(1); dup(p[1]), or close(0); dup(p[0]), and both     *)
(* ends of the pipe closed.                                                *)
pipe_child(p) ==
  /\ Is(p, "left") \/ Is(p, "right")
  /\ LET std == IF sp[p].pc = "left" THEN 1 ELSE 0
         end == sp[p].end[1 + std]
         fd == sp[p].fd
     IN  sp' = [sp EXCEPT ![p].fd = Closed(Opened(Closed(fd, {std}), fd[end]), {sp[p].end[1], sp[p].end[2]}),
                          ![p].end = <<0, 0>>, ![p].pc = "run"]
  /\ UNCHANGED <<pfull, ahead, restarts, faults>>

pipe_close(p) ==
  /\ Is(p, "pipe_close")
  /\ sp' = [sp EXCEPT ![p].fd = Closed(@, {sp[p].end[1], sp[p].end[2]}),
                      ![p].end = <<0, 0>>, ![p].pc = "pipe_wait1"]
  /\ UNCHANGED <<pfull, ahead, restarts, faults>>

(* Mutant: one wait() for the two children. *)
pipe_wait_Once(p) ==
  /\ Is(p, "pipe_wait1") /\ CanReturn(p)
  /\ sp' = exited(freed(sp, Reaped(p)), p)
  /\ UNCHANGED <<pfull, ahead, restarts, faults>>

(* wait(0); wait(0); exit(0) *)
pipe_wait(p) ==
  /\ Is(p, "pipe_wait1") \/ Is(p, "pipe_wait2")
  /\ CanReturn(p)
  /\ sp' = IF sp[p].pc = "pipe_wait1" THEN [freed(sp, Reaped(p)) EXCEPT ![p].pc = "pipe_wait2"]
           ELSE exited(freed(sp, Reaped(p)), p)
  /\ UNCHANGED <<pfull, ahead, restarts, faults>>

-----------------------------------------------------------------------------
(* The programs, on pipes that hold one byte.  "c": read() returns 0 where *)
(* the pipe is empty and its other end closed, and for console and file.   *)
prog_read(p) ==
  /\ Is(p, "prog_read")
  /\ LET f == sp[p].fd[0]
     IN  \/ /\ f[1] = "r" /\ pfull[f[2]]
            /\ pfull' = [pfull EXCEPT ![f[2]] = FALSE] /\ To(p, "prog_copy")
         \/ /\ f[1] = "r" => ~pfull[f[2]] /\ ~HasEnd(<<"w", f[2]>>)
            /\ Exit(p) /\ UNCHANGED pfull
  /\ UNCHANGED <<ahead, restarts, faults>>

(* write() fails, and the program exits, where no one can read. *)
prog_write(p) ==
  /\ Is(p, "prog_write") \/ Is(p, "prog_copy")
  /\ LET f == sp[p].fd[1]
         done == IF sp[p].pc = "prog_write" THEN exited(sp, p) ELSE [sp EXCEPT ![p].pc = "prog_read"]
     IN  \/ f[1] # "w" /\ sp' = done /\ UNCHANGED pfull
         \/ f[1] = "w" /\ ~HasEnd(<<"r", f[2]>>) /\ Exit(p) /\ UNCHANGED pfull
         \/ /\ f[1] = "w" /\ HasEnd(<<"r", f[2]>>) /\ ~pfull[f[2]]
            /\ pfull' = [pfull EXCEPT ![f[2]] = TRUE] /\ sp' = done
  /\ UNCHANGED <<ahead, restarts, faults>>

ShProc(p) ==
  \/ init_main(p) \/ init_fork(p) \/ init_wait(p)
  \/ sh_main(p) \/ sh_fork(p) \/ sh_wait(p) \/ sh_parse(p)
  \/ run_exec(p) \/ run_redir(p) \/ run_list(p) \/ list_wait(p)
  \/ run_back(p) \/ back_exit(p)
  \/ run_pipe(p) \/ pipe_left(p) \/ pipe_right(p) \/ pipe_child(p) \/ pipe_close(p) \/ pipe_wait(p)
  \/ prog_read(p) \/ prog_write(p)

User(p) == getcmd(p) \/ getcmd_eof(p)

ShNext == \E p \in Pids : ShProc(p) \/ User(p)

(* While some process can run the kernel runs one; nobody has to type.     *)
ShFairness == WF_shVars(\E p \in Pids : ShProc(p))
ShSpec == ShInit /\ [][ShNext]_shVars /\ ShFairness

-----------------------------------------------------------------------------
(* Properties *)

(* A program is started with the descriptors 0, 1 and 2 and no other: the  *)
(* ends of pipes the shell's processes used on the way are closed.         *)
NoStrayEnds ==
  \A p \in Pids : sp[p].pc \in {"prog_read", "prog_write", "prog_copy"} =>
    {d \in DOMAIN sp[p].fd : sp[p].fd[d] # NoFile} = 0..2

(* When the shell asks for the next line, what is still running or not yet *)
(* waited for was started with &, whatever wait(0) returned to whom, unless *)
(* a system call failed on the way.                                         *)
ForegroundDone ==
  (\E p \in Pids : sp[p].pc = "prompt") /\ faults = 0 =>
    \A p \in Pids \ {InitPid} : sp[p].st # "unused" => sp[p].bg \/ sp[p].pc = "prompt"

(* The shell gets its prompt back: a line in which every program ends at   *)
(* the end of its input ends, also where a call of fork() failed midway.   *)
PromptReturns == (\E p \in Pids : sp[p].pc = "wait") ~> (\A p \in Pids : sp[p].pc # "wait")

(* Every process that exits is waited for, by init when it has lost its    *)
(* parent.                                                                 *)
ZombiesReaped == (\E p \in Pids : sp[p].st = "zombie") ~> (\A p \in Pids : sp[p].st # "zombie")
=============================================================================
