----------------------------- MODULE BlockStore -----------------------------
(***************************************************************************)
(* What kernel/bio.c promises, "* Only one process at a time can use a     *)
(* buffer": blocks that one process at a time holds, and only the holder   *)
(* changes.                                                                *)
(***************************************************************************)
CONSTANTS Blocks, Values, DiskProcs, Nobody

VARIABLES store, holder

Init == store \in [Blocks -> Values] /\ holder = [k \in Blocks |-> Nobody]

Hold(p, k) == holder[k] = Nobody /\ holder' = [holder EXCEPT ![k] = p] /\ UNCHANGED store
Write(p, k) ==
  /\ holder[k] = p /\ UNCHANGED holder
  /\ \E v \in Values : store' = [store EXCEPT ![k] = v]
Release(p, k) == holder[k] = p /\ holder' = [holder EXCEPT ![k] = Nobody] /\ UNCHANGED store

Next == \E p \in DiskProcs, k \in Blocks : Hold(p, k) \/ Write(p, k) \/ Release(p, k)

Spec == Init /\ [][Next]_<<store, holder>>
=============================================================================
