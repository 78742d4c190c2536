-------------------------------- MODULE Text --------------------------------
(***************************************************************************)
(* The functions of the kernel and of user programs that compute on bytes: *)
(* the matcher of user/grep.c, printf() twice, memmove() twice, the names  *)
(* of paths and directory entries (kernel/fs.c), and the copies between    *)
(* user and kernel memory (kernel/vm.c).  A loop of the code is a recursion *)
(* or a fold here.  The inputs are typed byte by byte, so that TLC checks  *)
(* every one up to a length against a definition of what is meant.         *)
(***************************************************************************)
EXTENDS Integers, Sequences, SequencesExt, FiniteSetsExt

CONSTANTS
  InputBytes,    \* for each kind of input: the bytes it is made of,
  Longest,  \* and bound of the model: how many
  DIRSIZ,
  PGBYTES,  \* PGSIZE
  Regexps   \* bound of the model: the patterns

VARIABLES kind, text
textVars == <<kind, text>>

EOS == "0"
ByteAt(s, i) == IF i \in DOMAIN s THEN s[i] ELSE EOS
From(s, i) == SubSeq(s, i, Len(s))

TextInit == kind \in DOMAIN InputBytes /\ text = <<>>
more_text ==
  /\ Len(text) < Longest[kind]
  /\ \E b \in InputBytes[kind] : text' = Append(text, b)
  /\ UNCHANGED kind
TextSpec == TextInit /\ [][more_text]_textVars

-----------------------------------------------------------------------------
(* user/grep.c *)
RECURSIVE matchhere(_, _), matchstar(_, _, _)
matchhere(re, t) ==
  \/ re = <<>>
  \/ re # <<>> /\ ByteAt(re, 2) = "*" /\ matchstar(re[1], From(re, 3), t)
  \/ re = <<"$">> /\ t = <<>>
  \/ /\ re # <<>> /\ ByteAt(re, 2) # "*" /\ re # <<"$">>
     /\ t # <<>> /\ re[1] \in {".", ByteAt(t, 1)}
     /\ matchhere(Tail(re), Tail(t))

matchstar(c, re, t) ==
  \/ matchhere(re, t)
  \/ t # <<>> /\ c \in {".", t[1]} /\ matchstar(c, re, Tail(t))

match(re, t) ==
  IF ByteAt(re, 1) = "^" THEN matchhere(Tail(re), t)
  ELSE \E k \in 1..Len(t) + 1 : matchhere(re, From(t, k))

(* The meaning of a pattern: its items, each a byte or a byte with a star, *)
(* match consecutive pieces of the text; $ at its end and ^ at its start   *)
(* match the ends of the text.                                             *)
RECURSIVE Items(_)
Items(re) ==
  IF re = <<>> THEN <<>>
  ELSE LET star == ByteAt(re, 2) = "*"
       IN  <<[c |-> re[1], star |-> star]>> \o Items(From(re, IF star THEN 3 ELSE 2))
Fits(items, u) ==
  \E cut \in [0..Len(items) -> 0..Len(u)] :
    /\ cut[0] = 0 /\ cut[Len(items)] = Len(u)
    /\ \A k \in DOMAIN items :
         /\ cut[k - 1] <= cut[k] /\ (~items[k].star => cut[k] = cut[k - 1] + 1)
         /\ \A j \in cut[k - 1] + 1..cut[k] : items[k].c \in {".", u[j]}
Means(re, t) ==
  LET start == ByteAt(re, 1) = "^"
      all == Items(IF start THEN Tail(re) ELSE re)
      end == all # <<>> /\ Last(all) = [c |-> "$", star |-> FALSE]
      items == IF end THEN Front(all) ELSE all
  IN  \E i, j \in 0..Len(t) :
        /\ i <= j /\ (start => i = 0) /\ (end => j = Len(t))
        /\ Fits(items, SubSeq(t, i + 1, j))

(* The matcher of grep, which tries the shortest piece for a star first    *)
(* and goes back, finds a match exactly where there is one.                *)
MatchFinds == kind = "line" => \A re \in Regexps : match(re, text) <=> Means(re, text)

-----------------------------------------------------------------------------
(* printf.c of the kernel and of user programs *)
RECURSIVE digits(_, _)
(* The digits of x, the lowest first *)
digits(x, b) == IF x < b THEN <<x>> ELSE <<x % b>> \o digits(x \div b, b)
Minus == -1

(* xx is an int, and x an unsigned int, of that many bits. *)
printint(xx, b, sign, bits) ==
  LET neg == sign /\ xx < 0
      x == (IF neg THEN -xx ELSE xx) % 2^bits
  IN  Reverse(digits(x, b) \o (IF neg THEN <<Minus>> ELSE <<>>))

(* atoi(): n is an int, which wraps as the compiled code lets it, and the  *)
(* loop ends at the first byte that is no digit, a sign included.          *)
int(n, bits) == ((n + 2^(bits - 1)) % 2^bits) - 2^(bits - 1)
LeadingDigits(s) == {i \in DOMAIN s : ToSet(SubSeq(s, 1, i)) \subseteq 0..9}
atoi(s, bits) ==
  FoldLeft(LAMBDA n, d : int(n * 10 + d, bits), 0, SubSeq(s, 1, Cardinality(LeadingDigits(s))))

(* What printint() prints is the number, also for the least int, whose     *)
(* magnitude is no int, without a zero in front.  atoi() gives back the    *)
(* int that was printed, whatever bytes other than digits follow it: also  *)
(* when it was printed unsigned and is too large for an int, but not when  *)
(* a sign was printed, where it gives 0.                                   *)
PrintsValue ==
  kind = "int" /\ text # <<>> => \A b \in {2, 10} :
    LET bits == Len(text)
        x == FoldLeft(LAMBDA n, d : n * 2 + (IF d = "1" THEN 1 ELSE 0), 0, text)
        xx == IF x >= 2^(bits - 1) THEN x - 2^bits ELSE x
        signed == printint(xx, b, TRUE, bits)
        plain == printint(xx, b, FALSE, bits)
        abs == IF xx < 0 THEN Tail(signed) ELSE signed
        value(s) == FoldLeft(LAMBDA n, d : n * b + d, 0, s)
    IN  /\ xx < 0 => signed[1] = Minus
        /\ value(abs) = IF xx < 0 THEN -xx ELSE xx
        /\ value(plain) = x
        /\ \A s \in {abs, plain} : ToSet(s) \subseteq 0..b - 1 /\ (Len(s) > 1 => s[1] # 0)
        /\ b = 10 => \A after \in {<<>>, <<Minus>>, <<Minus, 1>>} :
             /\ atoi(plain \o after, bits) = xx
             /\ atoi(signed \o after, bits) = IF xx < 0 THEN 0 ELSE xx

(* The output: bytes, and the arguments by their place *)
Byte(c) == <<"byte", c, 0>>
Arg(k) == <<"arg", "", k>>
Shown(c, k) == IF c = "d" THEN <<Arg(k)>>
               ELSE IF c = "%" THEN <<Byte("%")>> ELSE <<Byte("%"), Byte(c)>>

(* The loop of vprintf(), with its state *)
vprintf(fmt) ==
  LET step(r, c) ==
        IF ~r.percent
        THEN IF c = "%" THEN [r EXCEPT !.percent = TRUE] ELSE [r EXCEPT !.out = Append(@, Byte(c))]
        ELSE [percent |-> FALSE, out |-> r.out \o Shown(c, r.ap), ap |-> r.ap + (IF c = "d" THEN 1 ELSE 0)]
  IN  FoldLeft(step, [percent |-> FALSE, out |-> <<>>, ap |-> 1], fmt).out

RECURSIVE kprintf(_, _, _)
(* The kernel's printf() from fmt[i], with the next argument *)
kprintf(fmt, i, ap) ==
  LET c == ByteAt(fmt, i + 1)
  IN  IF i > Len(fmt) THEN <<>>
      ELSE IF fmt[i] # "%" THEN <<Byte(fmt[i])>> \o kprintf(fmt, i + 1, ap)
      ELSE IF c = EOS THEN <<>>
      ELSE Shown(c, ap) \o kprintf(fmt, i + 2, ap + (IF c = "d" THEN 1 ELSE 0))

(* Both loops read a format alike: a % starts a conversion when an even    *)
(* number of % stands before it, the conversions take the arguments in     *)
(* order, and a % at the end prints nothing.                               *)
PrintfReads ==
  LET opens(i) == text[i] = "%" /\ Cardinality({j \in 1..i - 1 : \A k \in j..i - 1 : text[k] = "%"}) % 2 = 0
      conv(i) == i > 1 /\ opens(i - 1)
      place(i) == 1 + Cardinality({j \in 2..i - 1 : conv(j) /\ text[j] = "d"})
      piece(i) == IF conv(i) THEN Shown(text[i], place(i)) ELSE IF opens(i) THEN <<>> ELSE <<Byte(text[i])>>
      out == FlattenSeq([i \in DOMAIN text |-> piece(i)])
  IN  kind = "format" => vprintf(text) = out /\ kprintf(text, 1, 1) = out

-----------------------------------------------------------------------------
(* memmove(): the bytes in the order they are moved.  The kernel goes down *)
(* when the destination starts inside the source.                          *)
Up(n) == [k \in 1..n |-> k - 1]
Down(n) == Reverse(Up(n))
Moved(mem, d, s, order) == FoldLeft(LAMBDA m, k : [m EXCEPT ![d + k] = m[s + k]], mem, order)

memmove(mem, d, s, n) == Moved(mem, d, s, IF s < d /\ s + n > d THEN Down(n) ELSE Up(n))

(* The one of user/ulib.c goes up when the source is above. *)
umemmove(mem, d, s, n) == Moved(mem, d, s, IF s > d THEN Up(n) ELSE Down(n))

(* Both copy the source as it was, however the two ranges overlap, and     *)
(* write nothing else.                                                     *)
MovesWhole ==
  kind = "memory" =>
    \A d, s \in DOMAIN text : \A n \in 0..Len(text) + 1 - (IF d > s THEN d ELSE s) :
      LET copy == [k \in DOMAIN text |-> IF k \in d..d + n - 1 THEN text[s + k - d] ELSE text[k]]
      IN  memmove(text, d, s, n) = copy /\ umemmove(text, d, s, n) = copy

-----------------------------------------------------------------------------
(* kernel/fs.c: the elements of a path.  name[] has DIRSIZ bytes and keeps *)
(* what the element before left in it.                                     *)
SkipSlashes(s, i) == Min({k \in i..Len(s) + 1 : k = Len(s) + 1 \/ s[k] # "/"})
ElementEnd(s, i) == Min({k \in i..Len(s) + 1 : k = Len(s) + 1 \/ s[k] = "/"})

skipelem(path, i, name) ==
  LET s == SkipSlashes(path, i)
      e == ElementEnd(path, s)
      len == e - s
  IN  [found |-> s <= Len(path),
       name |-> [k \in 1..DIRSIZ |-> IF k <= len THEN path[s + k - 1]
                                     ELSE IF k = len + 1 THEN EOS ELSE name[k]],
       next |-> SkipSlashes(path, e)]

RECURSIVE Names(_, _, _)
(* The loop of namex(): name[] at each turn, and whether it is the last *)
Names(path, i, name) ==
  LET r == skipelem(path, i, name)
  IN  IF ~r.found THEN <<>>
      ELSE <<[name |-> r.name, last |-> r.next > Len(path)]>> \o Names(path, r.next, r.name)

(* The name in a directory entry: strncpy(de.name, name, DIRSIZ) *)
strncpy(name) ==
  [k \in 1..DIRSIZ |-> IF \E j \in 1..k - 1 : name[j] = EOS THEN EOS ELSE name[k]]

RECURSIVE strncmp(_, _, _)
strncmp(p, q, n) ==
  IF n > 0 /\ p # <<>> /\ q # <<>> /\ p[1] # EOS /\ p[1] = q[1]
  THEN strncmp(Tail(p), Tail(q), n - 1)
  ELSE n = 0 \/ p[1] = q[1]
namecmp(s, t) == strncmp(s, t, DIRSIZ)

(* namex() walks through the pieces between the slashes, in order, cut to  *)
(* DIRSIZ bytes, and knows which one is the last; and an entry that is made *)
(* for one is found by another exactly when the two pieces, so cut, are    *)
(* equal, whatever is left in name[] from before.                          *)
PathsResolve ==
  LET runs == {r \in (DOMAIN text) \X (DOMAIN text) :
                 /\ r[1] <= r[2] /\ \A k \in r[1]..r[2] : text[k] # "/"
                 /\ ByteAt(text, r[1] - 1) \in {"/", EOS} /\ ByteAt(text, r[2] + 1) \in {"/", EOS}}
      ends == SetToSortSeq(runs, LAMBDA u, v : u[1] < v[1])
      cut == [k \in DOMAIN ends |-> SubSeq(text, ends[k][1], Min({ends[k][2], ends[k][1] + DIRSIZ - 1}))]
      names == Names(text, 1, [k \in 1..DIRSIZ |-> "b"])
  IN  kind = "path" =>
        /\ Len(names) = Len(ends)
        /\ \A k \in DOMAIN names : names[k].last = (k = Len(ends))
        /\ \A j, k \in DOMAIN names :
             namecmp(names[j].name, strncpy(names[k].name)) <=> cut[j] = cut[k]

-----------------------------------------------------------------------------
(* kernel/vm.c: copies from and to the memory of a process, of which the   *)
(* pages in valid are mapped.  text is that memory, from address 0.        *)
PGROUNDDOWN(va) == va - (va % PGBYTES)

RECURSIVE copyin(_, _, _)
(* The bytes copied, and whether all of them *)
copyin(valid, va, len) ==
  LET va0 == PGROUNDDOWN(va)
      n == Min({PGBYTES - (va - va0), len})
      rest == copyin(valid, va0 + PGBYTES, len - n)
  IN  IF len = 0 THEN [ok |-> TRUE, dst |-> <<>>]
      ELSE IF va0 \div PGBYTES \notin valid THEN [ok |-> FALSE, dst |-> <<>>]
      ELSE [ok |-> rest.ok, dst |-> SubSeq(text, va + 1, va + n) \o rest.dst]

RECURSIVE copyout(_, _, _, _)
(* The memory with src in it, and whether all of src *)
copyout(valid, mem, va, src) ==
  LET va0 == PGROUNDDOWN(va)
      n == Min({PGBYTES - (va - va0), Len(src)})
      put == [k \in DOMAIN mem |-> IF k \in va + 1..va + n THEN src[k - va] ELSE mem[k]]
  IN  IF src = <<>> THEN [ok |-> TRUE, mem |-> mem]
      ELSE IF va0 \div PGBYTES \notin valid THEN [ok |-> FALSE, mem |-> mem]
      ELSE copyout(valid, put, va0 + PGBYTES, From(src, n + 1))

RECURSIVE copyinstr_NoMax(_, _, _)
(* Mutant: max is not counted down over a whole page. *)
copyinstr_NoMax(valid, va, max) ==
  LET va0 == PGROUNDDOWN(va)
      n == Min({PGBYTES - (va - va0), max})
      got == {k \in va + 1..va + n : text[k] = EOS}
      rest == copyinstr_NoMax(valid, va0 + PGBYTES, max)
  IN  IF max = 0 \/ va0 \div PGBYTES \notin valid THEN [ok |-> FALSE, dst |-> <<>>]
      ELSE IF got # {} THEN [ok |-> TRUE, dst |-> SubSeq(text, va + 1, Min(got))]
      ELSE [ok |-> rest.ok, dst |-> SubSeq(text, va + 1, va + n) \o rest.dst]

RECURSIVE copyinstr(_, _, _)
(* The bytes copied, and whether a NUL is among them *)
copyinstr(valid, va, max) ==
  LET va0 == PGROUNDDOWN(va)
      n == Min({PGBYTES - (va - va0), max})
      got == {k \in va + 1..va + n : text[k] = EOS}
      rest == copyinstr(valid, va0 + PGBYTES, max - n)
  IN  IF max = 0 \/ va0 \div PGBYTES \notin valid THEN [ok |-> FALSE, dst |-> <<>>]
      ELSE IF got # {} THEN [ok |-> TRUE, dst |-> SubSeq(text, va + 1, Min(got))]
      ELSE [ok |-> rest.ok, dst |-> SubSeq(text, va + 1, va + n) \o rest.dst]

(* A copy that starts or ends within a page, or runs into one that is not  *)
(* mapped: it succeeds exactly when all bytes it needs are mapped, moves   *)
(* those up to the first that is not, and nothing else; a string ends with *)
(* the first NUL, within max bytes.                                        *)
CopiesWhole ==
  LET pages == 0..(Len(text) \div PGBYTES) - 1
  IN  kind = "user" => \A valid \in SUBSET pages : \A va \in 0..Len(text) - 1 : \A len \in 0..Len(text) + 1 :
        LET bad == {a \in va..va + len : a \div PGBYTES \notin valid}
            end == Min(bad \cup {va + len})
            nul == {a \in va..end - 1 : text[a + 1] = EOS}
            src == [k \in 1..len |-> "new"]
            in == copyin(valid, va, len)
            out == copyout(valid, text, va, src)
            str == copyinstr(valid, va, len)
        IN  /\ in.ok <=> end = va + len
            /\ in.dst = SubSeq(text, va + 1, end)
            /\ out.ok = in.ok
            /\ out.mem = [k \in DOMAIN text |-> IF k \in va + 1..end THEN "new" ELSE text[k]]
            /\ str.ok <=> nul # {}
            /\ str.ok => str.dst = SubSeq(text, va + 1, Min(nul) + 1)
            /\ Len(str.dst) <= len
=============================================================================
