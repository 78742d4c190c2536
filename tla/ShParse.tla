------------------------------ MODULE ShParse -------------------------------
(***************************************************************************)
(* The parser of the shell, user/sh.c.  gettoken() works on a line, a      *)
(* sequence of characters.  What it returns depends on where it stands and *)
(* on nothing else, so the functions of the parser are operators on the    *)
(* sequence of its tokens and a position in that.  A word is the pair of   *)
(* its first position in the line and the one after its last (argv and     *)
(* eargv, file and efile in the code).  A panic() ends the process that    *)
(* parses.                                                                 *)
(*                                                                         *)
(* The lines are typed character by character, so that TLC checks the      *)
(* parser on every line of up to MaxLine characters against a grammar.     *)
(***************************************************************************)
EXTENDS Integers, Sequences, SequencesExt, FiniteSetsExt

CONSTANTS
  Chars,     \* the characters of the lines that are checked
  MaxLine,   \* bound of the model: their length
  MAXARGS

whitespace == {" ", "\n"}
symbols == {"<", "|", ">", "&", ";", "(", ")"}
NUL == "0"

CharAt(s, i) == IF i <= Len(s) THEN s[i] ELSE NUL
SkipSpace(s, i) == Min({j \in i..Len(s) + 1 : j = Len(s) + 1 \/ s[j] \notin whitespace})
IsWord(c) == c \notin whitespace \cup symbols
SkipWord(s, i) == Min({j \in i..Len(s) + 1 : j = Len(s) + 1 \/ ~IsWord(s[j])})

gettoken(s, i) ==
  LET q == SkipSpace(s, i)
      c == CharAt(s, q)
      twice == c = ">" /\ CharAt(s, q + 1) = ">"
      eq == IF c = NUL THEN q
            ELSE IF twice THEN q + 2
            ELSE IF c \in symbols THEN q + 1 ELSE SkipWord(s, q)
  IN  [ret |-> IF twice THEN "+" ELSE IF c \in symbols \cup {NUL} THEN c ELSE "a",
       word |-> <<q, eq>>,
       i |-> SkipSpace(s, eq)]

RECURSIVE tokens(_, _)
(* The tokens from position i on; the last is NUL, where gettoken() stays. *)
tokens(s, i) ==
  LET t == gettoken(s, i) IN IF t.ret = NUL THEN <<t>> ELSE <<t>> \o tokens(s, t.i)

(* The first character of token k is one of toks. *)
peek(T, k, toks) == T[k].ret \in toks

-----------------------------------------------------------------------------
(* The constructors; redircmd() around a command, the first one innermost. *)
execcmd(argv) == [type |-> "EXEC", argv |-> argv]
pipecmd(l, r) == [type |-> "PIPE", left |-> l, right |-> r]
listcmd(l, r) == [type |-> "LIST", left |-> l, right |-> r]
backcmd(c) == [type |-> "BACK", cmd |-> c]
redircmd(c, r) == [type |-> "REDIR", cmd |-> c, file |-> r.file, tok |-> r.tok,
                   fd |-> IF r.tok = "<" THEN 0 ELSE 1]
Redirected(cmd, redirs) == FoldLeft(redircmd, cmd, redirs)

Panicked == [type |-> "PANIC"]
Bad == [cmd |-> Panicked, k |-> 0, redirs |-> <<>>]
IsBad(r) == r.cmd = Panicked

RECURSIVE parseredirs(_, _, _)
(* The redirections from token k on, after the ones in redirs *)
parseredirs(T, k, redirs) ==
  IF ~peek(T, k, {"<", ">", "+"}) THEN [Bad EXCEPT !.cmd = execcmd(<<>>), !.k = k, !.redirs = redirs]
  ELSE IF T[k + 1].ret # "a" THEN Bad
  ELSE parseredirs(T, k + 2, Append(redirs, [tok |-> T[k].ret, file |-> T[k + 1].word]))

RECURSIVE parseargs(_, _, _, _)
(* The loop of parseexec() *)
parseargs(T, k, argv, redirs) ==
  LET r == parseredirs(T, k + 1, redirs)
  IN  IF peek(T, k, {"|", ")", "&", ";", NUL})
      THEN [Bad EXCEPT !.cmd = Redirected(execcmd(argv), redirs), !.k = k]
      ELSE IF T[k].ret # "a" \/ Len(argv) + 1 >= MAXARGS \/ IsBad(r) THEN Bad
      ELSE parseargs(T, r.k, Append(argv, T[k].word), r.redirs)

RECURSIVE parsebacks(_, _)
(* The loop of parseline() *)
parsebacks(T, l) ==
  IF peek(T, l.k, {"&"}) THEN parsebacks(T, [l EXCEPT !.cmd = backcmd(@), !.k = @ + 1]) ELSE l

RECURSIVE parseline(_, _), parsepipe(_, _), parseexec(_, _)

parseblock(T, k) ==
  LET l == parseline(T, k + 1)
      r == parseredirs(T, l.k + 1, <<>>)
  IN  IF IsBad(l) \/ ~peek(T, l.k, {")"}) \/ IsBad(r) THEN Bad
      ELSE [Bad EXCEPT !.cmd = Redirected(l.cmd, r.redirs), !.k = r.k]

parseexec(T, k) ==
  LET r == parseredirs(T, k, <<>>)
  IN  IF peek(T, k, {"("}) THEN parseblock(T, k)
      ELSE IF IsBad(r) THEN Bad
      ELSE parseargs(T, r.k, <<>>, r.redirs)

(* Mutant: no pipe of more than two parts. *)
parsepipe_Once(T, k) ==
  LET l == parseexec(T, k)
      r == parseexec(T, l.k + 1)
  IN  IF IsBad(l) \/ ~peek(T, l.k, {"|"}) THEN l
      ELSE IF IsBad(r) THEN Bad
      ELSE [r EXCEPT !.cmd = pipecmd(l.cmd, r.cmd)]

parsepipe(T, k) ==
  LET l == parseexec(T, k)
      r == parsepipe(T, l.k + 1)
  IN  IF IsBad(l) \/ ~peek(T, l.k, {"|"}) THEN l
      ELSE IF IsBad(r) THEN Bad
      ELSE [r EXCEPT !.cmd = pipecmd(l.cmd, r.cmd)]

parseline(T, k) ==
  LET p == parsepipe(T, k)
      l == parsebacks(T, p)
      r == parseline(T, l.k + 1)
  IN  IF IsBad(p) THEN Bad
      ELSE IF ~peek(T, l.k, {";"}) THEN l
      ELSE IF IsBad(r) THEN Bad
      ELSE [r EXCEPT !.cmd = listcmd(l.cmd, r.cmd)]

(* parsecmd() up to its call of nulterminate() *)
parsecmd(s) ==
  LET all(T, l) == IF IsBad(l) \/ l.k # Len(T) THEN Panicked ELSE l.cmd
  IN  CHOOSE cmd \in UNION {{all(T, l) : l \in {parseline(T, 1)}} : T \in {tokens(s, 1)}} : TRUE

RECURSIVE Terminated(_)
(* The positions nulterminate() writes a NUL to *)
Terminated(cmd) ==
  CASE cmd.type = "EXEC" -> {w[2] : w \in ToSet(cmd.argv)}
    [] cmd.type = "REDIR" -> Terminated(cmd.cmd) \cup {cmd.file[2]}
    [] cmd.type \in {"PIPE", "LIST"} -> Terminated(cmd.left) \cup Terminated(cmd.right)
    [] cmd.type = "BACK" -> Terminated(cmd.cmd)

nulterminate(s, cmd) ==
  [k \in 1..Len(s) + 1 |-> IF k \in Terminated(cmd) THEN NUL ELSE CharAt(s, k)]

-----------------------------------------------------------------------------
(* The grammar.  The commands that derive the tokens from a up to b of T:  *)
(*   line ::= pipe {"&"} [";" line]      pipe ::= exec ["|" pipe]          *)
(*   exec ::= "(" line ")" {redir} | {word | redir}                        *)
(*   redir ::= ("<" | ">" | ">>") word                                     *)

IsRedir(T, k) == T[k].ret \in {"<", ">", "+"}
Words(T, a, b) == SetToSortSeq({k \in a..b - 1 : T[k].ret = "a" /\ (k = a \/ ~IsRedir(T, k - 1))}, <)
Redirs(T, a, b) == SetToSortSeq({k \in a..b - 1 : IsRedir(T, k)}, <)
Simple(T, a, b) ==
  LET ws == Words(T, a, b)
      rs == Redirs(T, a, b)
  IN  IF /\ \A k \in a..b - 1 : T[k].ret = "a" \/ IsRedir(T, k)
         /\ \A k \in a..b - 1 : IsRedir(T, k) => k + 1 < b /\ T[k + 1].ret = "a"
         /\ Len(ws) < MAXARGS
      THEN {[argv |-> [k \in DOMAIN ws |-> T[ws[k]].word],
             redirs |-> [k \in DOMAIN rs |-> [tok |-> T[rs[k]].ret, file |-> T[rs[k] + 1].word]]]}
      ELSE {}

RECURSIVE LineTrees(_, _, _), Pipes(_, _, _)
Execs(T, a, b) ==
  {Redirected(execcmd(x.argv), x.redirs) : x \in Simple(T, a, b)} \cup
  UNION {{Redirected(c, x.redirs) : c \in LineTrees(T, a + 1, m),
                                    x \in {y \in Simple(T, m + 1, b) : y.argv = <<>>}} :
         m \in {m \in a + 1..b - 1 : T[a].ret = "(" /\ T[m].ret = ")"}}
Pipes(T, a, b) ==
  Execs(T, a, b) \cup
  UNION {{pipecmd(l, r) : l \in Execs(T, a, m), r \in Pipes(T, m + 1, b)} :
         m \in {m \in a..b - 1 : T[m].ret = "|"}}

RECURSIVE Backs(_, _, _)
(* A pipe and the "&" behind it *)
Backs(T, a, b) ==
  Pipes(T, a, b) \cup
  (IF a < b /\ T[b - 1].ret = "&" THEN {backcmd(c) : c \in Backs(T, a, b - 1)} ELSE {})
LineTrees(T, a, b) ==
  Backs(T, a, b) \cup
  UNION {{listcmd(l, r) : l \in Backs(T, a, m), r \in LineTrees(T, m + 1, b)} :
         m \in {m \in a..b - 1 : T[m].ret = ";"}}

-----------------------------------------------------------------------------
VARIABLE line    \* the line typed so far

ParseInit == line = <<>>
type_char == Len(line) < MaxLine /\ \E c \in Chars : line' = Append(line, c)
ParseSpec == ParseInit /\ [][type_char]_line

(* The parser, which looks one character ahead and never goes back,        *)
(* accepts a line exactly when the grammar derives it, and the command it  *)
(* makes is the one the grammar gives, the only one.                       *)
ParsesGrammar ==
  \A T \in {tokens(line, 1)} : LineTrees(T, 1, Len(T)) = {parsecmd(line)} \ {Panicked}

RECURSIVE WordsOf(_)
(* The words of a command *)
WordsOf(cmd) ==
  CASE cmd.type = "EXEC" -> ToSet(cmd.argv)
    [] cmd.type = "REDIR" -> WordsOf(cmd.cmd) \cup {cmd.file}
    [] cmd.type \in {"PIPE", "LIST"} -> WordsOf(cmd.left) \cup WordsOf(cmd.right)
    [] cmd.type = "BACK" -> WordsOf(cmd.cmd)

(* nulterminate() writes into the line itself, where a word may touch the  *)
(* symbol behind it.  The words of the command are the words of the line,  *)
(* and each one, read up to its NUL, is still the whole word and no more.  *)
WordsWhole ==
  LET ext == {w \in (1..Len(line)) \X (2..Len(line) + 1) :
                /\ w[1] < w[2] /\ \A k \in w[1]..w[2] - 1 : IsWord(line[k])
                /\ w[1] > 1 => ~IsWord(line[w[1] - 1])
                /\ w[2] <= Len(line) => ~IsWord(line[w[2]])}
  IN  \A cmd \in {parsecmd(line)} \ {Panicked} : \A buf \in {nulterminate(line, cmd)} :
        /\ WordsOf(cmd) = ext
        /\ \A w \in ext : Min({k \in w[1]..Len(buf) : buf[k] = NUL}) = w[2]
=============================================================================
