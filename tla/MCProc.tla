------------------------------- MODULE MCProc -------------------------------
(***************************************************************************)
(* Instances of module Proc for TLC.                                       *)
(***************************************************************************)
EXTENDS ProcInv

(* Everything user code can do in the model *)
AllCalls == {"fork", "exit", "wait", "kill", "sleep", "co_yield", "io", "fault"}

(* The calls that create, end, find and switch processes *)
ProcessCalls == {"fork", "exit", "wait", "kill", "co_yield"}

(* Processes that only hand the CPU to each other *)
CoYieldCalls == {"fork", "co_yield"}

(* Slots are freed and given out again. *)
ReuseCalls == {"fork", "exit", "wait", "co_yield"}

(* kill() and the processes it may meet *)
KillCalls == {"fork", "kill"}
=============================================================================
