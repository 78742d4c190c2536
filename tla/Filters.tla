------------------------------ MODULE Filters -------------------------------
(***************************************************************************)
(* The programs that read a file or a pipe piece by piece, user/grep.c and *)
(* user/wc.c.  A call of read() returns any number of bytes up to the room *)
(* there is, as a pipe or the console does; a step is one turn of the      *)
(* program's loop.                                                         *)
(***************************************************************************)
EXTENDS Text

CONSTANTS
  GREPBUF,   \* sizeof(buf) in grep.c
  WCBUF,     \* and in wc.c
  Pattern,   \* of grep
  Input,     \* the bytes of the input
  MaxInput   \* bound of the model: how many

VARIABLES
  filter,    \* which program
  eof,       \* whether read() returned 0
  input,     \* what was read
  rest,      \* grep: buf[0..m-1] between two calls of read()
  shown,     \* grep: what was written
  count      \* wc: l, w, c and inword

filterVars == <<filter, eof, input, rest, shown, count>>

FilterInit ==
  /\ filter \in {"grep", "wc"} /\ eof = FALSE
  /\ input = <<>> /\ rest = <<>> /\ shown = <<>>
  /\ count = [l |-> 0, w |-> 0, c |-> 0, inword |-> FALSE]

(* What read() may return where there is room for n bytes *)
Chunks(n) == UNION {[1..k -> Input] : k \in 1..Min({n, MaxInput - Len(input)})}

(* grep(): the lines of p up to its last newline: the ones that match, and *)
(* what is behind it                                                       *)
RECURSIVE grepped(_)
grepped(p) ==
  LET nl == {k \in DOMAIN p : p[k] = "\n"}
      q == Min(nl)
      next == grepped(From(p, q + 1))
  IN  IF nl = {} THEN [out |-> <<>>, rest |-> p]
      ELSE [next EXCEPT !.out = (IF match(Pattern, SubSeq(p, 1, q - 1)) THEN SubSeq(p, 1, q) ELSE <<>>) \o @]

(* Mutant: the piece of a line that is left over is dropped. *)
grep_Drop ==
  /\ filter = "grep" /\ ~eof
  /\ \E s \in Chunks(GREPBUF - 1) :
       /\ input' = input \o s
       /\ LET g == grepped(s) IN shown' = shown \o g.out /\ rest' = g.rest
  /\ UNCHANGED <<filter, eof, count>>

grep ==
  /\ filter = "grep" /\ ~eof
  /\ \E s \in Chunks(GREPBUF - Len(rest) - 1) :
       /\ input' = input \o s
       /\ LET g == grepped(rest \o s) IN shown' = shown \o g.out /\ rest' = g.rest
  /\ UNCHANGED <<filter, eof, count>>

wc ==
  LET step(n, b) ==
        LET space == b \in {" ", "\n"}
        IN  [l |-> n.l + (IF b = "\n" THEN 1 ELSE 0), c |-> n.c + 1,
             w |-> n.w + (IF ~space /\ ~n.inword THEN 1 ELSE 0), inword |-> ~space]
  IN  /\ filter = "wc" /\ ~eof
      /\ \E s \in Chunks(WCBUF) : input' = input \o s /\ count' = FoldLeft(step, count, s)
      /\ UNCHANGED <<filter, eof, rest, shown>>

(* read() returns 0 at the end of the input, and where there is no room. *)
read_nothing == ~eof /\ eof' = TRUE /\ UNCHANGED <<filter, input, rest, shown, count>>

FilterNext == grep \/ wc \/ read_nothing
FilterSpec == FilterInit /\ [][FilterNext]_filterVars

-----------------------------------------------------------------------------
(* grep has written the lines of its input that match, each whole and in   *)
(* order, whatever the pieces it read, and keeps the line it has not seen  *)
(* the end of within its buffer.                                           *)
GrepLines ==
  LET ends == SetToSortSeq({k \in DOMAIN input : input[k] = "\n"}, <)
      start(k) == IF k = 1 THEN 1 ELSE ends[k - 1] + 1
      matches(k) == match(Pattern, SubSeq(input, start(k), ends[k] - 1))
      lines == [k \in DOMAIN ends |-> IF matches(k) THEN SubSeq(input, start(k), ends[k]) ELSE <<>>]
  IN  filter = "grep" =>
        /\ shown = FlattenSeq(lines)
        /\ rest = SubSeq(input, start(Len(ends) + 1), Len(input))
        /\ Len(rest) < GREPBUF

(* wc has counted the lines, words and bytes of its input, a word that two *)
(* calls of read() return in two pieces once.                              *)
WcCounts ==
  LET space(k) == k = 0 \/ input[k] \in {" ", "\n"}
  IN  filter = "wc" =>
        /\ count.c = Len(input)
        /\ count.l = Cardinality({k \in DOMAIN input : input[k] = "\n"})
        /\ count.w = Cardinality({k \in DOMAIN input : ~space(k) /\ space(k - 1)})
=============================================================================
