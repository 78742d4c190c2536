-------------------------------- MODULE Fifo --------------------------------
(***************************************************************************)
(* What kernel/pipe.c promises: bytes come out in the order they went in,  *)
(* none twice and none invented, at most Capacity of them wait, and none   *)
(* goes in once an end is closed.                                          *)
(***************************************************************************)
EXTENDS Naturals, Sequences

CONSTANTS Bytes, Capacity

VARIABLES queue, readopen, writeopen

vars == <<queue, readopen, writeopen>>

Init == queue = <<>> /\ readopen = 1 /\ writeopen = 1

Put ==
  /\ readopen = 1 /\ writeopen = 1 /\ Len(queue) < Capacity
  /\ \E b \in Bytes : queue' = Append(queue, b)
  /\ UNCHANGED <<readopen, writeopen>>

Get ==
  /\ readopen = 1 /\ queue # <<>>
  /\ queue' = Tail(queue)
  /\ UNCHANGED <<readopen, writeopen>>

CloseRead == readopen' = 0 /\ UNCHANGED <<queue, writeopen>>
CloseWrite == writeopen' = 0 /\ UNCHANGED <<queue, readopen>>

Next == Put \/ Get \/ CloseRead \/ CloseWrite

Spec == Init /\ [][Next]_vars
=============================================================================
