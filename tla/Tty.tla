-------------------------------- MODULE Tty ---------------------------------
(***************************************************************************)
(* What the input half of kernel/console.c promises: characters are edited *)
(* in a line nobody can read yet; a whole line (or end-of-file, or a full  *)
(* buffer) makes it readable, and what is readable is taken in order and   *)
(* never edited again.                                                     *)
(***************************************************************************)
EXTENDS Naturals, Sequences

CONSTANTS Chars, Size

VARIABLES ready, line

Init == ready = <<>> /\ line = <<>>

Type(c) ==
  /\ Len(ready) + Len(line) < Size
  /\ IF c \in {"nl", "eof"} \/ Len(ready) + Len(line) + 1 = Size
     THEN ready' = ready \o Append(line, c) /\ line' = <<>>
     ELSE line' = Append(line, c) /\ UNCHANGED ready

Erase ==
  /\ line # <<>>
  /\ line' \in {<<>>, SubSeq(line, 1, Len(line) - 1)}
  /\ UNCHANGED ready

Take == ready # <<>> /\ ready' = Tail(ready) /\ UNCHANGED line

Next == Erase \/ Take \/ \E c \in Chars : Type(c)

Spec == Init /\ [][Next]_<<ready, line>>
=============================================================================
