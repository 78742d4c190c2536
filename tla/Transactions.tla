---------------------------- MODULE Transactions ----------------------------
(***************************************************************************)
(* What kernel/log.c promises to file system calls: the writes made        *)
(* between begin_op() and end_op() reach the disk together with those of   *)
(* the calls they overlap with, or not at all, whenever the machine stops. *)
(***************************************************************************)
CONSTANTS Procs, Blocks, Contents

VARIABLES
  durable,   \* the disk as the next recovery will leave it
  current,   \* the disk as running system calls see it
  active     \* processes between begin_op() and end_op()

vars == <<durable, current, active>>

Init ==
  /\ durable \in [Blocks -> Contents]
  /\ current = durable
  /\ active = {}

Begin(p) ==
  /\ p \notin active
  /\ active' = active \cup {p}
  /\ UNCHANGED <<durable, current>>

Write(p, b, v) ==
  /\ p \in active
  /\ current' = [current EXCEPT ![b] = v]
  /\ UNCHANGED <<durable, active>>

End(p) ==
  /\ p \in active
  /\ active' = active \ {p}
  /\ UNCHANGED <<durable, current>>

(* Everything written so far becomes durable at once, and no call is half done. *)
Commit ==
  /\ active = {}
  /\ durable' = current
  /\ UNCHANGED <<current, active>>

Crash ==
  /\ current' = durable
  /\ active' = {}
  /\ UNCHANGED durable

Next ==
  \/ \E p \in Procs : Begin(p) \/ End(p) \/ \E b \in Blocks, v \in Contents : Write(p, b, v)
  \/ Commit
  \/ Crash

Spec == Init /\ [][Next]_vars
=============================================================================
