---------------------------- MODULE QueueProofs -----------------------------
(***************************************************************************)
(* The two byte queues of the kernel, for any number of processes that use *)
(* them, any size of the ring and any width of the counters that the size  *)
(* divides: the pipe of kernel/pipe.c is a bounded queue and the input of  *)
(* kernel/console.c a line discipline, and neither forgets a sleeper.      *)
(***************************************************************************)
EXTENDS Pipe, Terminal, SequenceTheorems, TLAPS

-----------------------------------------------------------------------------
(* Counters that wrap around at U, and rings of P slots *)

(* Counting one further, and the distance of two counters *)
LEMMA CounterArithmetic ==
  ASSUME NEW U \in Nat \ {0}, NEW a \in 0..U - 1, NEW b \in 0..U - 1
  PROVE  /\ (a + 1) % U = IF a + 1 = U THEN 0 ELSE a + 1
         /\ (a - 1) % U = IF a = 0 THEN U - 1 ELSE a - 1
         /\ (a - b) % U = IF a >= b THEN a - b ELSE a - b + U
  OBVIOUS

(* What dividing a counter by the size of the ring leaves *)
LEMMA Division ==
  ASSUME NEW P \in Nat \ {0}, NEW a \in Int
  PROVE  a % P \in 0..P - 1 /\ a \div P \in Int /\ a = P * (a \div P) + (a % P)
  OBVIOUS

(* Numbers closer than the size of the ring have different slots. *)
LEMMA SlotsDiffer ==
  ASSUME NEW P \in Nat \ {0}, NEW a \in Int, NEW b \in Int, a < b, b < a + P
  PROVE  a % P # b % P
<1> SUFFICES ASSUME a % P = b % P PROVE FALSE
  OBVIOUS
<1> DEFINE q == a \div P
           d == b \div P
           r == a % P
           k == d - q
<1>a. q \in Int /\ r \in Int /\ a = P * q + r
  BY Division
<1>b. d \in Int /\ b = P * d + r
  BY Division, Zenon
<1> HIDE DEF q, d, r
<1>1. k \in Int /\ P * k = b - a
  BY <1>a, <1>b
<1> HIDE DEF k
<1>2. k >= 1 => P * k >= P
  BY <1>1
<1>3. k <= 0 => P * k <= 0
  BY <1>1
<1> QED BY <1>1, <1>2, <1>3

(* The slot does not change when a counter wraps around. *)
LEMMA SlotWraps ==
  ASSUME NEW P \in Nat \ {0}, NEW U \in Nat, U % P = 0, NEW a \in Int
  PROVE  (a + U) % P = a % P
<1> DEFINE k == U \div P
           q == a \div P
           d == (a + U) \div P
           r == a % P
           m == (a + U) % P
<1>1. k \in Int /\ U = P * k
  BY Division
<1>2. q \in Int /\ r \in 0..P - 1 /\ a = P * q + r
  BY Division, Zenon
<1>3. d \in Int /\ m \in 0..P - 1 /\ a + U = P * d + m
  <2>1. a + U \in Int
    OBVIOUS
  <2> QED BY <2>1, Division, Zenon
<1> HIDE DEF k, q, d, r, m
<1> DEFINE e == q + k - d
<1>4. e \in Int /\ P * e = m - r
  BY <1>1, <1>2, <1>3
<1> HIDE DEF e
<1>5. e >= 1 => P * e >= P
  BY <1>4
<1>6. e <= -1 => P * e <= -P
  BY <1>4
<1>7. e = 0
  BY <1>2, <1>3, <1>4, <1>5, <1>6
<1>8. m = r
  BY <1>2, <1>3, <1>4, <1>7
<1> QED BY <1>8, Zenon DEF m, r

(* Rings of P slots for elements of S *)
Rings(P, S) == [0..P - 1 -> S]

(* The slot of a counter in a ring of P slots *)
Slot(a, P) == a % P

(* The n bytes of a ring of P slots that start at counter k *)
Ring(buf, P, k, n) == [i \in 1..n |-> buf[Slot(k + i - 1, P)]]

(* What such a sequence s of elements of S is *)
IsRing(s, S, buf, P, k, n) ==
  /\ s \in Seq(S) /\ Len(s) = n
  /\ \A i \in 1..n : s[i] = buf[Slot(k + i - 1, P)]

(* They are a sequence of length n. *)
LEMMA RingType ==
  ASSUME NEW P \in Nat \ {0}, NEW S, NEW buf \in Rings(P, S), NEW k \in Int, NEW n \in Nat
  PROVE  IsRing(Ring(buf, P, k, n), S, buf, P, k, n)
<1>1. \A i \in 1..n : Slot(k + i - 1, P) \in 0..P - 1
  BY Division DEF Slot
<1>2. \A i \in 1..n : buf[Slot(k + i - 1, P)] \in S
  BY <1>1, Zenon DEF Rings
<1> QED BY <1>2 DEF Ring, IsRing

(* The counter may have wrapped around. *)
LEMMA RingWraps ==
  ASSUME NEW P \in Nat \ {0}, NEW U \in Nat, U % P = 0, NEW buf, NEW k \in Int, NEW n \in Nat
  PROVE  Ring(buf, P, k + U, n) = Ring(buf, P, k, n)
<1>1. ASSUME NEW i \in 1..n PROVE Slot((k + U) + i - 1, P) = Slot(k + i - 1, P)
  <2>1. (k + U) + i - 1 = (k + i - 1) + U /\ k + i - 1 \in Int
    OBVIOUS
  <2>2. Slot((k + i - 1) + U, P) = Slot(k + i - 1, P)
    BY <2>1, SlotWraps, Zenon DEF Slot
  <2> QED BY <2>1, <2>2, Zenon
<1> QED BY <1>1, Zenon DEF Ring

(* Sums and multiples, as facts that are matched before they are computed with *)
Plus(a, b, c) == c = a + b
Laps(U, P) == U % P = 0

LEMMA RingLaps ==
  ASSUME NEW P \in Nat \ {0}, NEW U \in Nat, Laps(U, P), NEW buf, NEW k \in Int, NEW n \in Nat,
         NEW j \in Int, Plus(k, U, j)
  PROVE  Ring(buf, P, j, n) = Ring(buf, P, k, n)
<1>1. ASSUME NEW i \in 1..n PROVE Slot(j + i - 1, P) = Slot(k + i - 1, P)
  <2>1. j + i - 1 = (k + i - 1) + U /\ k + i - 1 \in Int
    BY DEF Plus
  <2>2. Slot((k + i - 1) + U, P) = Slot(k + i - 1, P)
    BY <2>1, SlotWraps, Zenon DEF Slot, Laps
  <2> QED BY <2>1, <2>2, Zenon
<1> QED BY <1>1, Zenon DEF Ring

(* b is the ring buf with c stored in the slot of m. *)
Updated(b, buf, P, S, m, c) ==
  /\ b \in Rings(P, S) /\ b[Slot(m, P)] = c
  /\ \A x \in 0..P - 1 : x # Slot(m, P) => b[x] = buf[x]

LEMMA RingUpdated ==
  ASSUME NEW P \in Nat \ {0}, NEW S, NEW buf \in Rings(P, S), NEW m \in Int, NEW c \in S
  PROVE  Updated([buf EXCEPT ![m % P] = c], buf, P, S, m, c)
<1>1. m % P \in 0..P - 1
  BY Division, Zenon
<1> QED BY <1>1, Zenon DEF Updated, Rings, Slot

(* A slot beyond the end is not one of theirs. *)
LEMMA RingFrame ==
  ASSUME NEW P \in Nat \ {0}, NEW S, NEW buf \in Rings(P, S), NEW k \in Int, NEW n \in Nat,
         NEW m \in Int, NEW c \in S, k + n <= m, m < k + P, NEW b, Updated(b, buf, P, S, m, c)
  PROVE  Ring(b, P, k, n) = Ring(buf, P, k, n)
<1>1. ASSUME NEW i \in 1..n
      PROVE  Slot(k + i - 1, P) # Slot(m, P) /\ Slot(k + i - 1, P) \in 0..P - 1
  <2>1. k + i - 1 \in Int /\ k + i - 1 < m /\ m < (k + i - 1) + P
    OBVIOUS
  <2> QED BY <2>1, SlotsDiffer, Division, Zenon DEF Slot
<1>2. ASSUME NEW i \in 1..n PROVE b[Slot(k + i - 1, P)] = buf[Slot(k + i - 1, P)]
  BY <1>1, Zenon DEF Updated
<1> QED BY <1>2, Zenon DEF Ring

(* Storing in the next slot appends. *)
LEMMA RingAppend ==
  ASSUME NEW P \in Nat \ {0}, NEW S, NEW buf \in Rings(P, S), NEW k \in Int, NEW n \in Nat,
         NEW m \in Int, NEW c \in S, m = k + n, n < P, NEW b, Updated(b, buf, P, S, m, c),
         NEW l \in Nat, l = n + 1
  PROVE  Ring(b, P, k, l) = Append(Ring(buf, P, k, n), c)
<1> DEFINE s == Ring(buf, P, k, n)
           t == Ring(b, P, k, l)
           u == Append(s, c)
<1>1. b \in Rings(P, S) /\ b[Slot(m, P)] = c
  BY Zenon DEF Updated
<1>2. k + n <= m /\ m < k + P
  OBVIOUS
<1>3. Ring(b, P, k, n) = s
  BY <1>2, RingFrame
<1>4. Ring(b, P, k, n) \in Seq(S) /\ Len(Ring(b, P, k, n)) = n
      /\ \A i \in 1..n : Ring(b, P, k, n)[i] = b[Slot(k + i - 1, P)]
  BY <1>1, RingType DEF IsRing
<1>5. t \in Seq(S) /\ Len(t) = l /\ \A i \in 1..l : t[i] = b[Slot(k + i - 1, P)]
  BY <1>1, RingType DEF IsRing
<1> HIDE DEF s, t
<1>6. u \in Seq(S) /\ Len(u) = n + 1 /\ (\A i \in 1..n : u[i] = s[i]) /\ u[n + 1] = c
  BY <1>3, <1>4, AppendProperties
<1> HIDE DEF u
<1>7. t[n + 1] = c
  <2>1. k + (n + 1) - 1 = m /\ n + 1 \in 1..l
    OBVIOUS
  <2> QED BY <1>1, <1>5, <2>1, Zenon
<1>8. ASSUME NEW i \in 1..Len(t) PROVE t[i] = u[i]
  <2>1. CASE i = n + 1
    BY <1>6, <1>7, <2>1, Zenon
  <2>2. CASE i # n + 1
    <3>1. i \in 1..n
      BY <1>5, <2>2
    <3> QED BY <1>3, <1>4, <1>5, <1>6, <3>1, Zenon
  <2> QED BY <2>1, <2>2, Zenon
<1>9. t = u
  BY <1>5, <1>6, <1>8, SeqEqual, Zenon
<1> QED BY <1>9, Zenon DEF t, u, s

(* Skipping the first slot leaves the tail. *)
LEMMA RingTail ==
  ASSUME NEW P \in Nat \ {0}, NEW S, NEW buf \in Rings(P, S), NEW k \in Int, NEW n \in Nat \ {0},
         NEW j \in Int, j = k + 1, NEW m \in Nat, m = n - 1
  PROVE  /\ Ring(buf, P, k, n) # <<>>
         /\ Ring(buf, P, j, m) = Tail(Ring(buf, P, k, n))
<1> DEFINE s == Ring(buf, P, k, n)
           t == Ring(buf, P, j, m)
           u == Tail(s)
<1>0. n \in Nat
  OBVIOUS
<1>1. s \in Seq(S) /\ Len(s) = n /\ \A i \in 1..n : s[i] = buf[Slot(k + i - 1, P)]
  <2>1. IsRing(s, S, buf, P, k, n)
    BY <1>0, RingType
  <2> QED BY <2>1 DEF IsRing
<1>2. t \in Seq(S) /\ Len(t) = m /\ \A i \in 1..m : t[i] = buf[Slot(j + i - 1, P)]
  <2>1. IsRing(t, S, buf, P, j, m)
    BY RingType
  <2> QED BY <2>1 DEF IsRing
<1> HIDE DEF s, t
<1>3. s # <<>>
  BY <1>1, EmptySeq, Zenon
<1>4. u \in Seq(S) /\ Len(u) = m /\ \A i \in 1..m : u[i] = s[i + 1]
  BY <1>1, <1>3, HeadTailProperties
<1> HIDE DEF u
<1>5. ASSUME NEW i \in 1..m PROVE t[i] = u[i]
  <2>1. j + i - 1 = k + (i + 1) - 1 /\ i + 1 \in 1..n
    OBVIOUS
  <2>2. t[i] = buf[Slot(j + i - 1, P)] /\ u[i] = s[i + 1]
    BY <1>2, <1>4, Zenon
  <2>3. s[i + 1] = buf[Slot(k + (i + 1) - 1, P)]
    BY <1>1, <2>1, Zenon
  <2> QED BY <2>1, <2>2, <2>3, Zenon
<1>6. t = u
  BY <1>2, <1>4, <1>5, SeqEqual, Zenon
<1> QED BY <1>3, <1>6, Zenon DEF s, t, u

(* Two adjacent parts of a ring *)
LEMMA RingConcat ==
  ASSUME NEW P \in Nat \ {0}, NEW S, NEW buf \in Rings(P, S), NEW k \in Int,
         NEW n \in Nat, NEW m \in Nat, NEW j \in Int, Plus(k, n, j), NEW l \in Nat, Plus(n, m, l)
  PROVE  Ring(buf, P, k, l) = Ring(buf, P, k, n) \o Ring(buf, P, j, m)
<1> USE DEF Plus
<1> DEFINE s == Ring(buf, P, k, n)
           t == Ring(buf, P, j, m)
           u == Ring(buf, P, k, l)
           v == s \o t
<1>1. s \in Seq(S) /\ Len(s) = n /\ \A i \in 1..n : s[i] = buf[Slot(k + i - 1, P)]
  <2>1. IsRing(s, S, buf, P, k, n)
    BY RingType
  <2> QED BY <2>1 DEF IsRing
<1>2. t \in Seq(S) /\ Len(t) = m /\ \A i \in 1..m : t[i] = buf[Slot(j + i - 1, P)]
  <2>1. IsRing(t, S, buf, P, j, m)
    BY RingType
  <2> QED BY <2>1 DEF IsRing
<1>3. u \in Seq(S) /\ Len(u) = l /\ \A i \in 1..l : u[i] = buf[Slot(k + i - 1, P)]
  <2>1. IsRing(u, S, buf, P, k, l)
    BY RingType
  <2> QED BY <2>1 DEF IsRing
<1> HIDE DEF s, t, u
<1>4. v \in Seq(S) /\ Len(v) = l
      /\ \A i \in 1..l : v[i] = IF i <= n THEN s[i] ELSE t[i - n]
  <2>1. /\ v \in Seq(S) /\ Len(v) = Len(s) + Len(t)
        /\ \A i \in 1..Len(s) + Len(t) : v[i] = IF i <= Len(s) THEN s[i] ELSE t[i - Len(s)]
    BY <1>1, <1>2, ConcatProperties, ZenonT(30)
  <2> HIDE DEF v
  <2> QED BY <1>1, <1>2, <2>1, Zenon
<1> HIDE DEF v
<1>5. ASSUME NEW i \in 1..l PROVE u[i] = v[i]
  <2>1. CASE i <= n
    <3>1. i \in 1..n
      BY <2>1
    <3> QED BY <1>1, <1>3, <1>4, <2>1, <3>1, Zenon
  <2>2. CASE ~(i <= n)
    <3>1. i - n \in 1..m /\ j + (i - n) - 1 = k + i - 1
      BY <2>2
    <3>2. u[i] = buf[Slot(k + i - 1, P)] /\ v[i] = t[i - n]
      BY <1>3, <1>4, <2>2, Zenon
    <3>3. t[i - n] = buf[Slot(j + (i - n) - 1, P)]
      BY <1>2, <3>1, Zenon
    <3> QED BY <3>1, <3>2, <3>3, Zenon
  <2> QED BY <2>1, <2>2, Zenon
<1>6. u = v
  BY <1>3, <1>4, <1>5, SeqEqual, Zenon
<1> QED BY <1>6, Zenon DEF s, t, u, v

(* Taking the end back *)
LEMMA RingFront ==
  ASSUME NEW P \in Nat \ {0}, NEW S, NEW buf \in Rings(P, S), NEW k \in Int, NEW n \in Nat,
         NEW m \in Nat, m <= n
  PROVE  Ring(buf, P, k, m) = SubSeq(Ring(buf, P, k, n), 1, m)
<1> DEFINE s == Ring(buf, P, k, n)
           t == Ring(buf, P, k, m)
           u == SubSeq(s, 1, m)
<1>1. s \in Seq(S) /\ Len(s) = n /\ \A i \in 1..n : s[i] = buf[Slot(k + i - 1, P)]
  <2>1. IsRing(s, S, buf, P, k, n)
    BY RingType
  <2> QED BY <2>1 DEF IsRing
<1>2. t \in Seq(S) /\ Len(t) = m /\ \A i \in 1..m : t[i] = buf[Slot(k + i - 1, P)]
  <2>1. IsRing(t, S, buf, P, k, m)
    BY RingType
  <2> QED BY <2>1 DEF IsRing
<1> HIDE DEF s, t
<1>3. u \in Seq(S) /\ Len(u) = m /\ \A i \in 1..m : u[i] = s[i]
  <2>1. \A i \in 1..m : s[i] \in S
    BY <1>1, ElementOfSeq
  <2>2. m \in Int /\ 1 \in Int
    OBVIOUS
  <2>3. /\ u \in Seq(S) /\ Len(u) = IF 1 <= m THEN m - 1 + 1 ELSE 0
        /\ \A i \in 1..m - 1 + 1 : u[i] = s[1 + i - 1]
    BY <2>1, <2>2, SubSeqProperties
  <2> HIDE DEF u
  <2> QED BY <2>3
<1> HIDE DEF u
<1>4. Len(t) = Len(u) /\ \A i \in 1..Len(t) : t[i] = u[i]
  <2>1. 1..m \subseteq 1..n
    OBVIOUS
  <2>2. \A i \in 1..m : t[i] = u[i]
    BY <1>1, <1>2, <1>3, <2>1, Zenon
  <2> QED BY <1>2, <1>3, <2>2, Zenon
<1>5. t = u
  BY <1>2, <1>3, <1>4, SeqEqual, Zenon
<1> QED BY <1>5, Zenon DEF s, t, u
-----------------------------------------------------------------------------
(* The counters of a pipe *)

Word == 0..UINT - 1

(* Counting one further, and the distance of two counters *)
LEMMA WordArithmetic ==
  ASSUME NEW a \in Word, NEW b \in Word
  PROVE  /\ (a + 1) % UINT = IF a + 1 = UINT THEN 0 ELSE a + 1
         /\ (a - b) % UINT = IF a >= b THEN a - b ELSE a - b + UINT
         /\ (a + PIPESIZE) % UINT = IF a + PIPESIZE < UINT THEN a + PIPESIZE
                                    ELSE a + PIPESIZE - UINT
  BY PipeSizeAssumption DEF Word

(* The number of bytes in the pipe *)
Used == (nwrite - nread) % UINT

(* The tests of pipe.c for an empty and a full pipe are exact. *)
LEMMA UsedFacts ==
  ASSUME TypeOK
  PROVE  /\ Used \in Word
         /\ nwrite = IF nread + Used < UINT THEN nread + Used ELSE nread + Used - UINT
         /\ Empty <=> Used = 0
         /\ Full <=> Used = PIPESIZE
<1>1. nread \in Word /\ nwrite \in Word
  BY Zenon DEF TypeOK, Word
<1>2. Used = IF nwrite >= nread THEN nwrite - nread ELSE nwrite - nread + UINT
  BY <1>1, WordArithmetic, Zenon DEF Used
<1>3. (nread + PIPESIZE) % UINT = IF nread + PIPESIZE < UINT THEN nread + PIPESIZE
                                  ELSE nread + PIPESIZE - UINT
  BY <1>1, WordArithmetic, Zenon
<1> QED BY <1>1, <1>2, <1>3, PipeSizeAssumption DEF Empty, Full, Word

(* A byte written or read changes the distance by one. *)
LEMMA UsedNext ==
  ASSUME TypeOK
  PROVE  /\ nwrite' = (nwrite + 1) % UINT /\ nread' = nread /\ Used + 1 < UINT
              => nwrite' \in Word /\ Used' = Used + 1
         /\ nread' = (nread + 1) % UINT /\ nwrite' = nwrite /\ Used > 0
              => nread' \in Word /\ Used' = Used - 1
<1>1. nread \in Word /\ nwrite \in Word
  BY Zenon DEF TypeOK, Word
<1>2. Used = IF nwrite >= nread THEN nwrite - nread ELSE nwrite - nread + UINT
  BY <1>1, WordArithmetic, Zenon DEF Used
<1>3. ASSUME nwrite' = (nwrite + 1) % UINT, nread' = nread, Used + 1 < UINT
      PROVE  nwrite' \in Word /\ Used' = Used + 1
  <2>1. nwrite' = (IF nwrite + 1 = UINT THEN 0 ELSE nwrite + 1) /\ nwrite' \in Word
    BY <1>1, <1>3, WordArithmetic, PipeSizeAssumption DEF Word
  <2>2. Used' = IF nwrite' >= nread THEN nwrite' - nread ELSE nwrite' - nread + UINT
    BY <1>1, <1>3, <2>1, WordArithmetic, Zenon DEF Used
  <2> QED BY <1>1, <1>2, <1>3, <2>1, <2>2, PipeSizeAssumption DEF Word
<1>4. ASSUME nread' = (nread + 1) % UINT, nwrite' = nwrite, Used > 0
      PROVE  nread' \in Word /\ Used' = Used - 1
  <2>1. nread' = (IF nread + 1 = UINT THEN 0 ELSE nread + 1) /\ nread' \in Word
    BY <1>1, <1>4, WordArithmetic, PipeSizeAssumption DEF Word
  <2>2. Used' = IF nwrite >= nread' THEN nwrite - nread' ELSE nwrite - nread' + UINT
    BY <1>1, <1>4, <2>1, WordArithmetic, Zenon DEF Used
  <2> QED BY <1>1, <1>2, <1>4, <2>1, <2>2, PipeSizeAssumption DEF Word
<1> QED BY <1>3, <1>4, Zenon

-----------------------------------------------------------------------------
(* The inductive invariant *)

(* Who is in a loop of piperead() or pipewrite() holds pi->lock, and has   *)
(* its end open.                                                           *)
HoldersInv ==
  \A p \in PipeProcs :
    /\ pc[p] \in {"write", "read_wait", "read"} => lock = p
    /\ pc[p] = "write" => p \in Writers
    /\ pc[p] \in {"read_wait", "read"} => p \in Readers
    /\ pc[p] # "idle" => p \in fd

EndsInv ==
  /\ readopen = 0 => fd \cap Readers = {}
  /\ writeopen = 0 => fd \cap Writers = {}

(* Nobody sleeps who has something to do, unless the holder of pi->lock    *)
(* will wake them: pipewrite() after it wrote, unless it was killed before *)
(* it could write; piperead() after it read.                               *)
SleepersInv ==
  /\ \A p \in Readers : pc[p] = "sleep" =>
       /\ killed[p] = 0 /\ writeopen = 1
       /\ Empty \/ \E w \in Writers : pc[w] = "write" /\ killed[w] = 0
  /\ \A p \in Writers : pc[p] = "sleep" =>
       /\ killed[p] = 0 /\ readopen = 1
       /\ Full \/ \E r \in Readers : pc[r] = "read"

PipeInv == TypeOK /\ HoldersInv /\ EndsInv /\ Used <= PIPESIZE /\ SleepersInv

(* A fresh pipe, as pipealloc() leaves it, satisfies the invariant. *)
LEMMA PipeInit == Init => PipeInv
<1> SUFFICES ASSUME Init PROVE PipeInv
  OBVIOUS
<1>1. TypeOK
  BY PipeSizeAssumption DEF Init, TypeOK
<1>2. Empty /\ Used <= PIPESIZE
  BY <1>1, UsedFacts, PipeSizeAssumption DEF Init, Empty
<1> QED BY <1>1, <1>2 DEF Init, PipeInv, HoldersInv, EndsInv, SleepersInv, PipeProcs

(* Every step of piperead(), pipewrite(), pipeclose() and kill() preserves *)
(* the invariant.                                                          *)
LEMMA PipeNext == PipeInv /\ [Next]_vars => PipeInv'
<1> SUFFICES ASSUME PipeInv, [Next]_vars PROVE PipeInv'
  OBVIOUS
<1>0. TypeOK /\ HoldersInv /\ EndsInv /\ Used <= PIPESIZE /\ SleepersInv
  BY Zenon DEF PipeInv
<1>a. ASSUME UNCHANGED <<nread, nwrite>> PROVE UNCHANGED <<Used, Empty, Full>>
  BY <1>a, Zenon DEF Used, Empty, Full
<1>b. Used \in Word /\ (Empty <=> Used = 0) /\ (Full <=> Used = PIPESIZE)
  BY <1>0, UsedFacts, Zenon
<1>c. ASSUME nwrite' = (nwrite + 1) % UINT, nread' = nread, ~Full
      PROVE  nwrite' \in Word /\ Used' = Used + 1 /\ Used' <= PIPESIZE
  BY <1>0, <1>b, <1>c, UsedNext, PipeSizeAssumption DEF Word
<1>d. ASSUME nread' = (nread + 1) % UINT, nwrite' = nwrite, ~Empty
      PROVE  nread' \in Word /\ Used' = Used - 1 /\ Used' <= PIPESIZE
  BY <1>0, <1>b, <1>d, UsedNext, PipeSizeAssumption DEF Word
<1> USE <1>0, RolesAssumption, PipeSizeAssumption
    DEF PipeInv, TypeOK, HoldersInv, EndsInv, SleepersInv, PipeProcs, Goto, WakeupGoto, At, pipe
<1>1. ASSUME NEW p \in PipeProcs, NEW n \in 0..MaxLen, Start(p, n) PROVE PipeInv'
  BY <1>1, <1>a DEF Start
<1>2. ASSUME NEW p \in PipeProcs, Reacquire(p) PROVE PipeInv'
  BY <1>2, <1>a DEF Reacquire
<1>3. ASSUME NEW p \in PipeProcs, pipewrite_fail(p) PROVE PipeInv'
  BY <1>3, <1>a DEF pipewrite_fail
<1>4. ASSUME NEW p \in PipeProcs, pipewrite_full(p) PROVE PipeInv'
  BY <1>4, <1>a DEF pipewrite_full, CanWrite
<1>5. ASSUME NEW p \in PipeProcs, pipewrite_byte(p) PROVE PipeInv'
  <2>1. nwrite' \in Word /\ Used' = Used + 1 /\ Used' <= PIPESIZE
    BY <1>5, <1>c, Zenon DEF pipewrite_byte
  <2>2. data' \in [0..PIPESIZE - 1 -> Bytes] /\ left' \in [PipeProcs -> 0..MaxLen]
    BY <1>5 DEF pipewrite_byte, CanWrite
  <2>3. TypeOK'
    BY <1>5, <2>1, <2>2, Zenon DEF pipewrite_byte, Word
  <2>4. SleepersInv'
    BY <1>5, Zenon DEF pipewrite_byte, CanWrite
  <2> QED BY <1>5, <2>1, <2>3, <2>4, Zenon DEF pipewrite_byte
<1>6. ASSUME NEW p \in PipeProcs, pipewrite_return(p) PROVE PipeInv'
  BY <1>6, <1>a DEF pipewrite_return, CanWrite
<1>7. ASSUME NEW p \in PipeProcs, piperead_wait(p) PROVE PipeInv'
  BY <1>7, <1>a DEF piperead_wait
<1>8. ASSUME NEW p \in PipeProcs, piperead_go(p) PROVE PipeInv'
  BY <1>8, <1>a DEF piperead_go
<1>9. ASSUME NEW p \in PipeProcs, piperead_byte(p) PROVE PipeInv'
  <2>1. nread' \in Word /\ Used' = Used - 1 /\ Used' <= PIPESIZE
    BY <1>9, <1>d, Zenon DEF piperead_byte
  <2>2. left' \in [PipeProcs -> 0..MaxLen]
    BY <1>9 DEF piperead_byte
  <2>3. TypeOK'
    BY <1>9, <2>1, <2>2, Zenon DEF piperead_byte, Word
  <2>4. SleepersInv'
    BY <1>9, Zenon DEF piperead_byte
  <2> QED BY <1>9, <2>1, <2>3, <2>4, Zenon DEF piperead_byte
<1>10. ASSUME NEW p \in PipeProcs, piperead_return(p) PROVE PipeInv'
  BY <1>10, <1>a DEF piperead_return
<1>11. ASSUME NEW p \in PipeProcs, pipeclose(p) PROVE PipeInv'
  <2>1. /\ pc[p] = "idle" /\ p \in fd /\ lock = None /\ fd' = fd \ {p}
        /\ UNCHANGED <<data, nread, nwrite, lock, left, killed>> /\ UNCHANGED <<Used, Empty, Full>>
    BY <1>11, <1>a, Zenon DEF pipeclose
  <2>2. CASE p \in Writers /\ fd' \cap Writers = {}
    <3>1. writeopen' = 0 /\ UNCHANGED readopen /\ WakeupGoto(Readers, p, "idle")
      BY <1>11, <2>2, Zenon DEF pipeclose
    <3> QED BY <2>1, <2>2, <3>1
  <2>3. CASE p \in Readers /\ fd' \cap Readers = {} /\ p \notin Writers
    <3>1. readopen' = 0 /\ UNCHANGED writeopen /\ WakeupGoto(Writers, p, "idle")
      BY <1>11, <2>3, Zenon DEF pipeclose
    <3> QED BY <2>1, <2>3, <3>1
  <2>4. CASE ~(p \in Writers /\ fd' \cap Writers = {}) /\ ~(p \in Readers /\ fd' \cap Readers = {})
    <3>1. UNCHANGED <<readopen, writeopen, pc>>
      BY <1>11, <2>4, Zenon DEF pipeclose
    <3> QED BY <2>1, <2>4, <3>1
  <2> QED BY <2>2, <2>3, <2>4, Zenon
<1>12. ASSUME NEW p \in PipeProcs, kill(p) PROVE PipeInv'
  BY <1>12, <1>a DEF kill
<1>13. CASE UNCHANGED vars
  BY <1>13, <1>a DEF vars
<1> HIDE DEF PipeInv, TypeOK, HoldersInv, EndsInv, SleepersInv, PipeProcs, Goto, WakeupGoto, At, pipe
<1> QED
  BY <1>1, <1>2, <1>3, <1>4, <1>5, <1>6, <1>7, <1>8, <1>9, <1>10, <1>11, <1>12, <1>13, Zenon DEF Next, Step, Gone

(* The invariant of the pipe holds in every execution. *)
THEOREM PipeInvariance == Spec => []PipeInv
<1> QED BY PipeInit, PipeNext, PTL DEF Spec

(* A process sleeps in piperead() or pipewrite() only while there is       *)
(* nothing for it to do.                                                   *)
THEOREM PipeForgetsNobody == Spec => []NobodyForgotten
<1>1. PipeInv => NobodyForgotten
  BY RolesAssumption, Zenon DEF NobodyForgotten, PipeInv, HoldersInv, SleepersInv, ReaderNotForgotten, WriterNotForgotten, PipeProcs
<1> QED BY <1>1, PipeInvariance, PTL

-----------------------------------------------------------------------------
(* Refinement of Fifo *)

QueueOK == Queue \in Seq(Bytes) /\ Len(Queue) = Used

(* The bytes in the ring are a sequence. *)
LEMMA QueueType == TypeOK => QueueOK
<1> SUFFICES ASSUME TypeOK PROVE QueueOK
  OBVIOUS
<1>1. Used \in Nat /\ nread \in Int /\ data \in Rings(PIPESIZE, Bytes)
  BY UsedFacts DEF Word, TypeOK, Rings
<1>2. Queue = Ring(data, PIPESIZE, nread, Used)
  BY Zenon DEF Queue, Ring, Slot, Used
<1> HIDE DEF Used
<1> QED BY <1>1, <1>2, RingType, PipeSizeAssumption DEF QueueOK, IsRing

(* pipewrite() appends a byte. *)
LEMMA WriteAppends ==
  ASSUME TypeOK, Used < PIPESIZE, NEW b \in Bytes,
         data' = [data EXCEPT ![nwrite % PIPESIZE] = b],
         nread' = nread, Used' = Used + 1
  PROVE  Queue' = Append(Queue, b)
<1>1. Used \in Nat /\ nread \in Nat /\ nwrite \in Nat /\ data \in Rings(PIPESIZE, Bytes)
  BY UsedFacts DEF Word, TypeOK, Rings
<1>2. Queue = Ring(data, PIPESIZE, nread, Used) /\ Queue' = Ring(data', PIPESIZE, nread, Used')
  BY DEF Queue, Ring, Slot, Used
<1> DEFINE m == nread + Used
<1>3. nwrite % PIPESIZE = m % PIPESIZE
  <2>1. CASE nread + Used < UINT
    BY <2>1, UsedFacts, Zenon
  <2>2. CASE ~(nread + Used < UINT)
    <3>1. nwrite + UINT = m
      BY <1>1, <2>2, UsedFacts, PipeSizeAssumption
    <3>2. (nwrite + UINT) % PIPESIZE = nwrite % PIPESIZE
      <4>1. nwrite \in Int
        BY <1>1
      <4> QED BY <4>1, SlotWraps, PipeSizeAssumption, Zenon
    <3> QED BY <3>1, <3>2, Zenon
  <2> QED BY <2>1, <2>2, Zenon
<1>4. m \in Int /\ m = nread + Used /\ Used' \in Nat
  BY <1>1
<1> HIDE DEF m
<1>5. Updated(data', data, PIPESIZE, Bytes, m, b)
  BY <1>1, <1>3, <1>4, RingUpdated, PipeSizeAssumption, Zenon
<1> DEFINE n == Used
           l == Used'
           d == data'
           q == Queue'
<1>6. n \in Nat /\ n < PIPESIZE /\ m = nread + n /\ l \in Nat /\ l = n + 1
  BY <1>1, <1>4, Zenon
<1>7. Updated(d, data, PIPESIZE, Bytes, m, b) /\ q = Ring(d, PIPESIZE, nread, l)
      /\ Queue = Ring(data, PIPESIZE, nread, n)
  BY <1>2, <1>5, Zenon
<1> HIDE DEF n, l, d, q
<1>8. q = Append(Queue, b)
  BY <1>1, <1>4, <1>6, <1>7, RingAppend, PipeSizeAssumption
<1> QED BY <1>8, Zenon DEF q

(* piperead() takes the oldest byte. *)
LEMMA ReadTakes ==
  ASSUME TypeOK, Used > 0, data' = data, nread' = (nread + 1) % UINT, Used' = Used - 1
  PROVE  Queue # <<>> /\ Queue' = Tail(Queue)
<1> DEFINE n == Used
           l == Used'
           q == Queue'
           k == nread + 1
<1>1. n \in Nat \ {0} /\ nread \in Int /\ k \in Int /\ data \in Rings(PIPESIZE, Bytes)
      /\ l \in Nat /\ l = n - 1 /\ k = nread + 1
  BY UsedFacts DEF Word, TypeOK, Rings
<1>2. Queue = Ring(data, PIPESIZE, nread, n) /\ q = Ring(data, PIPESIZE, nread', l)
  BY Zenon DEF Queue, Ring, Slot, Used
<1>3. nread' = IF k = UINT THEN 0 ELSE k
  BY WordArithmetic, Zenon DEF TypeOK, Word
<1> HIDE DEF n, l, q, k
<1>4. Ring(data, PIPESIZE, nread', l) = Ring(data, PIPESIZE, k, l)
  <2>1. Ring(data, PIPESIZE, 0 + UINT, l) = Ring(data, PIPESIZE, 0, l)
    BY <1>1, RingWraps, PipeSizeAssumption
  <2>2. 0 + UINT = UINT
    BY PipeSizeAssumption
  <2> QED BY <1>3, <2>1, <2>2, Zenon
<1>5. Queue # <<>> /\ Ring(data, PIPESIZE, k, l) = Tail(Queue)
  BY <1>1, <1>2, RingTail, PipeSizeAssumption
<1> QED BY <1>2, <1>4, <1>5, Zenon DEF q

(* Every step of the pipe puts a byte into the queue, takes one out,       *)
(* closes an end or leaves the queue alone.                                *)
LEMMA PipeStep ==
  PipeInv /\ QueueOK /\ QueueOK' /\ [Next]_vars
    => [FifoSpec!Next]_(FifoSpec!vars)
<1> SUFFICES ASSUME PipeInv, QueueOK, QueueOK', [Next]_vars
             PROVE  FifoSpec!Next \/ UNCHANGED <<Queue, readopen, writeopen>>
  BY Zenon DEF FifoSpec!vars
<1>0. TypeOK /\ HoldersInv /\ EndsInv /\ Used <= PIPESIZE
  BY Zenon DEF PipeInv
<1>a. ASSUME UNCHANGED <<data, nread, nwrite>> PROVE UNCHANGED Queue
  BY <1>a, Zenon DEF Queue
<1>b. Used \in Word /\ (Empty <=> Used = 0) /\ (Full <=> Used = PIPESIZE)
  BY <1>0, UsedFacts, Zenon
<1>1. ASSUME NEW p \in PipeProcs, pipewrite_byte(p) PROVE FifoSpec!Next
  <2>1. Used < PIPESIZE /\ Used + 1 < UINT
    BY <1>0, <1>1, <1>b, PipeSizeAssumption DEF pipewrite_byte, Word
  <2>2. Used' = Used + 1
    BY <1>0, <1>1, <2>1, UsedNext, Zenon DEF pipewrite_byte
  <2>3. PICK b \in Bytes : data' = [data EXCEPT ![nwrite % PIPESIZE] = b]
    BY <1>1, Zenon DEF pipewrite_byte
  <2>4. Queue' = Append(Queue, b)
    BY <1>0, <1>1, <2>1, <2>2, <2>3, WriteAppends, Zenon DEF pipewrite_byte
  <2>5. Len(Queue) < PIPESIZE
    BY <2>1, Zenon DEF QueueOK
  <2>6. p \in Writers /\ p \in fd
    BY <1>0, <1>1, Zenon DEF pipewrite_byte, CanWrite, At, HoldersInv
  <2>7. readopen = 1 /\ writeopen = 1 /\ UNCHANGED <<readopen, writeopen>>
    BY <1>0, <1>1, <2>6, Zenon DEF pipewrite_byte, CanWrite, EndsInv, TypeOK
  <2>8. FifoSpec!Put
    BY <2>4, <2>5, <2>7, Zenon DEF FifoSpec!Put
  <2> QED BY <2>8, Zenon DEF FifoSpec!Next
<1>2. ASSUME NEW p \in PipeProcs, piperead_byte(p) PROVE FifoSpec!Next
  <2>1. Used > 0
    BY <1>2, <1>b DEF piperead_byte, Word
  <2>2. Used' = Used - 1
    BY <1>0, <1>2, <2>1, UsedNext, Zenon DEF piperead_byte
  <2>3. Queue # <<>> /\ Queue' = Tail(Queue)
    BY <1>0, <1>2, <2>1, <2>2, ReadTakes, Zenon DEF piperead_byte
  <2>4. p \in Readers /\ p \in fd
    BY <1>0, <1>2, Zenon DEF piperead_byte, At, HoldersInv
  <2>5. readopen = 1 /\ UNCHANGED <<readopen, writeopen>>
    BY <1>0, <1>2, <2>4, Zenon DEF piperead_byte, EndsInv, TypeOK
  <2>6. FifoSpec!Get
    BY <2>3, <2>5, Zenon DEF FifoSpec!Get
  <2> QED BY <2>6, Zenon DEF FifoSpec!Next
<1>3. ASSUME NEW p \in PipeProcs, pipeclose(p)
      PROVE  FifoSpec!Next \/ UNCHANGED <<Queue, readopen, writeopen>>
  <2>1. UNCHANGED Queue
    BY <1>3, <1>a, Zenon DEF pipeclose
  <2>2. \/ writeopen' = 0 /\ UNCHANGED readopen
        \/ readopen' = 0 /\ UNCHANGED writeopen
        \/ UNCHANGED <<readopen, writeopen>>
    BY <1>3, Zenon DEF pipeclose
  <2> QED BY <2>1, <2>2, Zenon DEF FifoSpec!Next, FifoSpec!CloseRead, FifoSpec!CloseWrite
<1>4. ASSUME UNCHANGED pipe PROVE UNCHANGED <<Queue, readopen, writeopen>>
  BY <1>4, <1>a, Zenon DEF pipe
<1>5. ASSUME NEW p \in PipeProcs, NEW n \in 0..MaxLen, Start(p, n) PROVE UNCHANGED pipe
  BY <1>5, Zenon DEF Start
<1>6. ASSUME NEW p \in PipeProcs,
             \/ Reacquire(p) \/ pipewrite_fail(p) \/ pipewrite_full(p) \/ pipewrite_return(p)
             \/ piperead_wait(p) \/ piperead_go(p) \/ piperead_return(p) \/ kill(p)
      PROVE UNCHANGED pipe
  BY <1>6, Zenon DEF Reacquire, pipewrite_fail, pipewrite_full, pipewrite_return, piperead_wait,
              piperead_go, piperead_return, kill
<1>7. CASE UNCHANGED vars
  BY <1>4, <1>7, Zenon DEF vars
<1> QED BY <1>1, <1>2, <1>3, <1>4, <1>5, <1>6, <1>7, Zenon DEF Next, Step, Gone

(* The ring of piperead() and pipewrite() is a bounded first-in first-out  *)
(* queue, also where nread and nwrite wrap around.                         *)
THEOREM PipeIsFifo == Spec => IsFifo
<1>1. Init => FifoSpec!Init
  <2> SUFFICES ASSUME Init PROVE Queue = <<>> /\ readopen = 1 /\ writeopen = 1
    BY Zenon DEF FifoSpec!Init
  <2>1. PipeInv
    BY PipeInit, Zenon
  <2>2. Used = 0 /\ QueueOK
    BY <2>1, UsedFacts, QueueType, Zenon DEF Init, Empty, PipeInv
  <2>3. Queue = <<>>
    BY <2>2, EmptySeq, Zenon DEF QueueOK
  <2> QED BY <2>3, Zenon DEF Init
<1>2. PipeInv => QueueOK
  BY QueueType, Zenon DEF PipeInv
<1> QED BY <1>1, <1>2, PipeInvariance, PipeStep, PTL DEF Spec, IsFifo, FifoSpec!Spec

-----------------------------------------------------------------------------
(* The input of the console *)


-----------------------------------------------------------------------------
(* The indices of the input buffer *)

Index == 0..TTYWORD - 1

(* The number of characters from index a to index b *)
Dist(a, b) == (b - a) % TTYWORD

LEMMA Sizes ==
  TTYWORD \in Nat \ {0} /\ INPUT_BUF_SIZE \in Nat \ {0} /\ INPUT_BUF_SIZE < TTYWORD
  BY TerminalAssumption

LEMMA DistValue ==
  ASSUME NEW a \in Index, NEW b \in Index
  PROVE  Dist(a, b) = (IF b >= a THEN b - a ELSE b - a + TTYWORD) /\ Dist(a, b) \in Index
<1>1. Dist(a, b) = IF b >= a THEN b - a ELSE b - a + TTYWORD
  BY Sizes, CounterArithmetic DEF Dist, Index
<1> QED BY <1>1, Sizes DEF Index

(* The order of the three indices, at most a buffer apart *)
InOrder(r, w, e) ==
  /\ r \in Index /\ w \in Index /\ e \in Index
  /\ Dist(r, w) <= Dist(r, e) /\ Dist(r, e) <= INPUT_BUF_SIZE

LEMMA OrderFacts ==
  ASSUME NEW r, NEW w, NEW e, InOrder(r, w, e)
  PROVE  /\ Dist(r, w) \in Nat /\ Dist(w, e) \in Nat /\ Dist(r, e) \in Nat
         /\ Dist(r, w) + Dist(w, e) = Dist(r, e)
         /\ r = w <=> Dist(r, w) = 0
         /\ w = e <=> Dist(w, e) = 0
<1>1. r \in Index /\ w \in Index /\ e \in Index
  BY Zenon DEF InOrder
<1>2. /\ Dist(r, w) = (IF w >= r THEN w - r ELSE w - r + TTYWORD) /\ Dist(r, w) \in Index
      /\ Dist(r, e) = (IF e >= r THEN e - r ELSE e - r + TTYWORD) /\ Dist(r, e) \in Index
      /\ Dist(w, e) = (IF e >= w THEN e - w ELSE e - w + TTYWORD) /\ Dist(w, e) \in Index
  BY <1>1, DistValue, Zenon
<1> QED BY <1>1, <1>2, Sizes DEF InOrder, Index

(* consoleread() takes a character. *)
LEMMA OrderTake ==
  ASSUME NEW r, NEW w, NEW e, InOrder(r, w, e), r # w, NEW s, s = (r + 1) % TTYWORD
  PROVE  /\ InOrder(s, w, e) /\ Dist(s, w) = Dist(r, w) - 1
         /\ s = IF r + 1 = TTYWORD THEN 0 ELSE r + 1
<1>1. r \in Index /\ w \in Index /\ e \in Index
  BY Zenon DEF InOrder
<1>2. s = (IF r + 1 = TTYWORD THEN 0 ELSE r + 1) /\ s \in Index
  BY <1>1, Sizes, CounterArithmetic DEF Index
<1>3. /\ Dist(r, w) = (IF w >= r THEN w - r ELSE w - r + TTYWORD) /\ Dist(r, w) \in Index
      /\ Dist(r, e) = (IF e >= r THEN e - r ELSE e - r + TTYWORD) /\ Dist(r, e) \in Index
      /\ Dist(s, w) = (IF w >= s THEN w - s ELSE w - s + TTYWORD) /\ Dist(s, w) \in Index
      /\ Dist(s, e) = (IF e >= s THEN e - s ELSE e - s + TTYWORD) /\ Dist(s, e) \in Index
  BY <1>1, <1>2, DistValue, Zenon
<1> QED BY <1>1, <1>2, <1>3, Sizes DEF InOrder, Index

(* consoleintr() erases a character, *)
LEMMA OrderErase ==
  ASSUME NEW r, NEW w, NEW e, InOrder(r, w, e), w # e, NEW f, f = (e - 1) % TTYWORD
  PROVE  InOrder(r, w, f) /\ Dist(w, f) = Dist(w, e) - 1
<1>1. r \in Index /\ w \in Index /\ e \in Index
  BY Zenon DEF InOrder
<1>2. f = (IF e = 0 THEN TTYWORD - 1 ELSE e - 1) /\ f \in Index
  <2>1. f = IF e = 0 THEN TTYWORD - 1 ELSE e - 1
    BY <1>1, Sizes, CounterArithmetic, Zenon DEF Index
  <2> QED BY <1>1, <2>1, Sizes DEF Index
<1>3. /\ Dist(r, w) = (IF w >= r THEN w - r ELSE w - r + TTYWORD) /\ Dist(r, w) \in Index
      /\ Dist(r, e) = (IF e >= r THEN e - r ELSE e - r + TTYWORD) /\ Dist(r, e) \in Index
      /\ Dist(w, e) = (IF e >= w THEN e - w ELSE e - w + TTYWORD) /\ Dist(w, e) \in Index
      /\ Dist(r, f) = (IF f >= r THEN f - r ELSE f - r + TTYWORD) /\ Dist(r, f) \in Index
      /\ Dist(w, f) = (IF f >= w THEN f - w ELSE f - w + TTYWORD) /\ Dist(w, f) \in Index
  BY <1>1, <1>2, DistValue, Zenon
<1> QED BY <1>1, <1>2, <1>3, Sizes DEF InOrder, Index

(* and stores one. *)
LEMMA OrderStore ==
  ASSUME NEW r, NEW w, NEW e, InOrder(r, w, e), Dist(r, e) < INPUT_BUF_SIZE,
         NEW f, f = (e + 1) % TTYWORD
  PROVE  /\ InOrder(r, w, f) /\ InOrder(r, f, f)
         /\ Dist(w, f) = Dist(w, e) + 1 /\ Dist(r, f) = Dist(r, e) + 1 /\ Dist(f, f) = 0
<1>1. r \in Index /\ w \in Index /\ e \in Index
  BY Zenon DEF InOrder
<1>2. f = (IF e + 1 = TTYWORD THEN 0 ELSE e + 1) /\ f \in Index
  BY <1>1, Sizes, CounterArithmetic DEF Index
<1>3. /\ Dist(r, w) = (IF w >= r THEN w - r ELSE w - r + TTYWORD) /\ Dist(r, w) \in Index
      /\ Dist(r, e) = (IF e >= r THEN e - r ELSE e - r + TTYWORD) /\ Dist(r, e) \in Index
      /\ Dist(w, e) = (IF e >= w THEN e - w ELSE e - w + TTYWORD) /\ Dist(w, e) \in Index
      /\ Dist(r, f) = (IF f >= r THEN f - r ELSE f - r + TTYWORD) /\ Dist(r, f) \in Index
      /\ Dist(w, f) = (IF f >= w THEN f - w ELSE f - w + TTYWORD) /\ Dist(w, f) \in Index
      /\ Dist(f, f) = (IF f >= f THEN f - f ELSE f - f + TTYWORD) /\ Dist(f, f) \in Index
  BY <1>1, <1>2, DistValue, Zenon
<1> QED BY <1>1, <1>2, <1>3, Sizes DEF InOrder, Index

(* The slot at the edit index is the one after the characters before it. *)
LEMMA EditSlot ==
  ASSUME NEW a \in Index, NEW e \in Index
  PROVE  e % INPUT_BUF_SIZE = (a + Dist(a, e)) % INPUT_BUF_SIZE
<1>1. Dist(a, e) = (IF e >= a THEN e - a ELSE e - a + TTYWORD) /\ e \in Int /\ a \in Int
  BY DistValue, Sizes DEF Index
<1>2. CASE e >= a
  <2>1. a + Dist(a, e) = e
    BY <1>1, <1>2
  <2> QED BY <2>1, Zenon
<1>3. CASE ~(e >= a)
  <2>1. a + Dist(a, e) = e + TTYWORD
    BY <1>1, <1>3, Sizes
  <2>2. (e + TTYWORD) % INPUT_BUF_SIZE = e % INPUT_BUF_SIZE
    BY <1>1, SlotWraps, TerminalAssumption, Zenon
  <2> QED BY <2>1, <2>2, Zenon
<1> QED BY <1>2, <1>3, Zenon

-----------------------------------------------------------------------------
(* The inductive invariant *)

Typed == Stored \cup {"nul"}

(* The indices are in order; cons.lock is with the reader that is in       *)
(* consoleread(), or with consoleintr(); who sleeps has nothing to read.   *)
InputInv ==
  /\ DOMAIN cons = {"buf", "r", "w", "e", "lock"}
  /\ cons.buf \in Rings(INPUT_BUF_SIZE, Typed) /\ InOrder(cons.r, cons.w, cons.e)
  /\ cons.lock \in TtyReaders \cup {Nil, "intr"}
  /\ DOMAIN reader = TtyReaders /\ "pc" \in DOMAIN handler
  /\ cons.lock = "intr" <=> handler.pc \in {"echo", "write"}
  /\ \A p \in TtyReaders :
       /\ "pc" \in DOMAIN reader[p] /\ "n" \in DOMAIN reader[p]
       /\ cons.lock = p <=> reader[p].pc = "read"
       /\ reader[p].pc = "sleep" => cons.r = cons.w

(* An empty buffer, as consoleinit() leaves it, satisfies the invariant. *)
LEMMA TermStart == TermInit => InputInv
<1> SUFFICES ASSUME TermInit PROVE InputInv
  OBVIOUS
<1>1. 0 \in Index
  BY Sizes DEF Index
<1>2. Dist(0, 0) = 0
  BY <1>1, DistValue
<1>3. InOrder(0, 0, 0)
  BY <1>1, <1>2, Sizes DEF InOrder
<1>4. [i \in 0..INPUT_BUF_SIZE - 1 |-> "nul"] \in Rings(INPUT_BUF_SIZE, Typed)
  BY Zenon DEF Rings, Typed
<1> QED BY <1>3, <1>4, NilAssumption, Zenon DEF TermInit, InputInv, Idle

(* The step of the indices: consoleread() takes a character, or            *)
(* consoleintr() erases some of the line or stores a character.            *)
Same == UNCHANGED <<cons.buf, cons.r, cons.w, cons.e>>
Takes ==
  /\ cons.r # cons.w /\ cons'.r = (cons.r + 1) % TTYWORD
  /\ UNCHANGED <<cons.buf, cons.w, cons.e>>
Erases ==
  /\ cons'.e = cons.w \/ (cons.w # cons.e /\ cons'.e = (cons.e - 1) % TTYWORD)
  /\ UNCHANGED <<cons.buf, cons.r, cons.w>>
Stores(c) ==
  /\ Room
  /\ cons'.buf = [cons.buf EXCEPT ![cons.e % INPUT_BUF_SIZE] = c]
  /\ cons'.e = (cons.e + 1) % TTYWORD
  /\ cons'.w = IF c \in {"nl", "eof"} \/ (cons'.e - cons.r) % TTYWORD = INPUT_BUF_SIZE
               THEN cons'.e ELSE cons.w
  /\ UNCHANGED cons.r
IndexStep == Same \/ Takes \/ Erases \/ \E c \in Stored : Stores(c)

(* Every step of the terminal is one of these. *)
LEMMA IndexSteps ==
  ASSUME InputInv, [TermNext]_termVars
  PROVE  IndexStep
<1> USE DEF InputInv, outputVars, inputVars
<1>1. ASSUME UNCHANGED cons PROVE Same
  BY <1>1, Zenon DEF Same
<1>2. ASSUME NEW p \in TtyReaders, NEW n \in 0..MaxRead, consoleread(p, n) PROVE Same
  BY <1>2, Zenon DEF consoleread, Same
<1>3. ASSUME NEW p \in TtyReaders, consoleread_woken(p) PROVE Same
  BY <1>3, Zenon DEF consoleread_woken, Same
<1>4. ASSUME NEW p \in TtyReaders, consoleread_wait(p) PROVE Same
  BY <1>4, Zenon DEF consoleread_wait, Same
<1>5. ASSUME NEW p \in TtyReaders, consoleread_eof(p) PROVE Same \/ Takes
  BY <1>5, Zenon DEF consoleread_eof, Same, Takes
<1>6. ASSUME NEW p \in TtyReaders, consoleread_char(p) PROVE Takes
  BY <1>6, Zenon DEF consoleread_char, Takes
<1>7. ASSUME NEW p \in TtyReaders, consoleread_return(p) PROVE Same
  BY <1>7, Zenon DEF consoleread_return, Same
<1>8. ASSUME uartgetc PROVE Same
  BY <1>8, Zenon DEF uartgetc, Same
<1>9. ASSUME consoleintr_erase PROVE Same \/ Erases
  BY <1>9, OrderFacts DEF consoleintr_erase, Same, Erases, Edited, Dist
<1>10. ASSUME consoleintr_store PROVE Same \/ \E c \in Stored : Stores(c)
  BY <1>10, Zenon DEF consoleintr_store, Same, Stores
<1>11. ASSUME consoleintr_other PROVE Same
  BY <1>11, Zenon DEF consoleintr_other, Same
<1>12. ASSUME \/ \E p \in TtyWriters : WriterStep(p) \/ consolewrite(p)
              \/ uartintr \/ uartputc_sync_poll \/ uartputc_sync_write \/ uartintr_start
              \/ Environment \/ UNCHANGED termVars
       PROVE  UNCHANGED cons
  BY <1>12, Zenon DEF WriterStep, uartputc_full, uartputc, consolewrite, uartintr, uartputc_sync_poll,
               uartputc_sync_write, uartintr_start, Environment, uart_send, keyboard, termVars
<1> HIDE DEF InputInv, outputVars, inputVars
<1> QED BY <1>1, <1>2, <1>3, <1>4, <1>5, <1>6, <1>7, <1>8, <1>9, <1>10, <1>11, <1>12, Zenon DEF IndexStep, TermNext, ReaderStep, HandlerStep

(* They keep the indices in order and the buffer in its type. *)
LEMMA IndexOrder ==
  ASSUME InputInv, IndexStep
  PROVE  cons'.buf \in Rings(INPUT_BUF_SIZE, Typed) /\ InOrder(cons'.r, cons'.w, cons'.e)
<1>0. cons.buf \in Rings(INPUT_BUF_SIZE, Typed) /\ InOrder(cons.r, cons.w, cons.e)
  BY Zenon DEF InputInv
<1>1. CASE Same
  BY <1>0, <1>1, Zenon DEF Same
<1>2. CASE Takes
  BY <1>0, <1>2, OrderTake, Zenon DEF Takes
<1>3. CASE Erases
  <2>1. InOrder(cons.r, cons.w, cons.w)
    <3>1. Dist(cons.r, cons.w) \in Nat /\ Dist(cons.r, cons.e) \in Nat
      BY <1>0, OrderFacts, Zenon
    <3> QED BY <1>0, <3>1, Sizes DEF InOrder
  <2>2. ASSUME cons.w # cons.e, cons'.e = (cons.e - 1) % TTYWORD
        PROVE  InOrder(cons.r, cons.w, cons'.e)
    BY <1>0, <2>2, OrderErase, Zenon
  <2> QED BY <1>0, <1>3, <2>1, <2>2, Zenon DEF Erases
<1>4. ASSUME NEW c \in Stored, Stores(c)
      PROVE  cons'.buf \in Rings(INPUT_BUF_SIZE, Typed) /\ InOrder(cons'.r, cons'.w, cons'.e)
  <2>1. cons'.buf \in Rings(INPUT_BUF_SIZE, Typed)
    BY <1>0, <1>4, Zenon DEF Stores, Rings, Typed
  <2>2. Dist(cons.r, cons.e) < INPUT_BUF_SIZE
    BY <1>4, Zenon DEF Stores, Room, Dist
  <2>3. InOrder(cons.r, cons.w, cons'.e) /\ InOrder(cons.r, cons'.e, cons'.e)
    BY <1>0, <1>4, <2>2, OrderStore DEF Stores
  <2> QED BY <1>4, <2>1, <2>3, Zenon DEF Stores
<1> QED BY <1>1, <1>2, <1>3, <1>4, Zenon DEF IndexStep

(* Every step of consoleread(), consoleintr() and the rest of the terminal *)
(* preserves the invariant.                                                *)
LEMMA TermStep == InputInv /\ [TermNext]_termVars => InputInv'
<1> SUFFICES ASSUME InputInv, [TermNext]_termVars PROVE InputInv'
  OBVIOUS
<1>0. cons'.buf \in Rings(INPUT_BUF_SIZE, Typed) /\ InOrder(cons'.r, cons'.w, cons'.e)
  BY IndexSteps, IndexOrder, Zenon
<1> USE <1>0, NilAssumption DEF InputInv, outputVars, inputVars
<1>2. ASSUME NEW p \in TtyReaders, NEW n \in 0..MaxRead, consoleread(p, n) PROVE InputInv'
  BY <1>2, Zenon DEF consoleread
<1>3. ASSUME NEW p \in TtyReaders, consoleread_woken(p) PROVE InputInv'
  BY <1>3 DEF consoleread_woken
<1>4. ASSUME NEW p \in TtyReaders, consoleread_wait(p) PROVE InputInv'
  <2>1. CASE reader' = [reader EXCEPT ![p] = Idle]
    BY <1>4, <2>1, Zenon DEF consoleread_wait, Idle
  <2>2. CASE reader' = [reader EXCEPT ![p] = [reader[p] EXCEPT !.pc = "sleep"]]
    BY <1>4, <2>2, Zenon DEF consoleread_wait
  <2> QED BY <1>4, <2>1, <2>2, Zenon DEF consoleread_wait
<1>5. ASSUME NEW p \in TtyReaders, consoleread_eof(p) PROVE InputInv'
  BY <1>5 DEF consoleread_eof, Idle
<1>6. ASSUME NEW p \in TtyReaders, consoleread_char(p) PROVE InputInv'
  <2>1. PICK n : reader' = [reader EXCEPT ![p].n = n]
    BY <1>6, Zenon DEF consoleread_char
  <2>2. /\ DOMAIN cons' = DOMAIN cons /\ cons'.lock = cons.lock /\ cons'.w = cons.w
        /\ cons.r # cons.w /\ UNCHANGED handler
    BY <1>6, Zenon DEF consoleread_char
  <2> QED BY <2>1, <2>2
<1>7. ASSUME NEW p \in TtyReaders, consoleread_return(p) PROVE InputInv'
  BY <1>7 DEF consoleread_return, Idle
<1>8. ASSUME uartgetc PROVE InputInv'
  BY <1>8, Zenon DEF uartgetc
<1>9. ASSUME consoleintr_erase PROVE InputInv'
  BY <1>9 DEF consoleintr_erase
<1>10. ASSUME consoleintr_store PROVE InputInv'
  <2>1. /\ DOMAIN cons' = DOMAIN cons /\ cons'.lock = Nil /\ cons'.r = cons.r
        /\ handler'.pc = "getc" /\ "pc" \in DOMAIN handler' /\ handler.pc = "echo"
    BY <1>10, Zenon DEF consoleintr_store
  <2>2. ASSUME NEW p \in TtyReaders
        PROVE  /\ reader[p].pc = "sleep" /\ cons'.w # cons.w => reader'[p].pc = "woken"
               /\ reader'[p].pc = reader[p].pc
                  \/ (reader'[p].pc = "woken" /\ reader[p].pc = "sleep")
               /\ "pc" \in DOMAIN reader'[p] /\ "n" \in DOMAIN reader'[p]
    BY <1>10, Zenon DEF consoleintr_store
  <2>3. DOMAIN reader' = TtyReaders
    BY <1>10, Zenon DEF consoleintr_store
  <2> QED BY <2>1, <2>2, <2>3
<1>11. ASSUME consoleintr_other PROVE InputInv'
  BY <1>11 DEF consoleintr_other
<1>12. ASSUME uartintr \/ uartputc_sync_poll \/ uartputc_sync_write \/ uartintr_start
       PROVE  InputInv'
  <2>1. /\ UNCHANGED <<cons, reader>> /\ "pc" \in DOMAIN handler'
        /\ handler.pc \in {"echo", "write"} <=> handler'.pc \in {"echo", "write"}
    <3>1. CASE uartintr
      BY <3>1, Zenon DEF uartintr
    <3>2. CASE uartputc_sync_poll
      BY <3>2, Zenon DEF uartputc_sync_poll
    <3>3. CASE uartputc_sync_write
      BY <3>3, Zenon DEF uartputc_sync_write
    <3>4. CASE uartintr_start
      BY <3>4, Zenon DEF uartintr_start
    <3> QED BY <1>12, <3>1, <3>2, <3>3, <3>4, Zenon
  <2> QED BY <2>1, Zenon
<1>13. ASSUME \/ \E p \in TtyWriters : WriterStep(p) \/ consolewrite(p)
              \/ Environment \/ UNCHANGED termVars
       PROVE  UNCHANGED <<cons, reader, handler>>
  BY <1>13, Zenon DEF WriterStep, uartputc_full, uartputc, consolewrite, Environment, uart_send,
               keyboard, termVars
<1>14. ASSUME UNCHANGED <<cons, reader, handler>> PROVE InputInv'
  BY <1>14, Zenon
<1> HIDE DEF InputInv, outputVars, inputVars
<1> QED BY <1>2, <1>3, <1>4, <1>5, <1>6, <1>7, <1>8, <1>9, <1>10, <1>11, <1>12, <1>13, <1>14, Zenon DEF TermNext, ReaderStep, HandlerStep

(* The invariant of the input holds in every execution. *)
THEOREM TermInvariance == TermSpec => []InputInv
<1> QED BY TermStart, TermStep, PTL DEF TermSpec

(* A process sleeps in consoleread() only while no whole line waits for it. *)
THEOREM TermWakesReaders == TermSpec => []LineReaderWoken
<1>1. InputInv => LineReaderWoken
  BY Zenon DEF InputInv, LineReaderWoken
<1> QED BY <1>1, TermInvariance, PTL

-----------------------------------------------------------------------------
(* Refinement of Tty *)

(* The characters of buffer b from index k to index l *)
Between(b, k, l) == Ring(b, INPUT_BUF_SIZE, k, Dist(k, l))

LEMMA BetweenType ==
  ASSUME NEW b \in Rings(INPUT_BUF_SIZE, Typed), NEW k \in Index, NEW l \in Index
  PROVE  Between(b, k, l) \in Seq(Typed) /\ Len(Between(b, k, l)) = Dist(k, l)
<1>1. Dist(k, l) \in Index
  BY DistValue, Zenon
<1>2. k \in Int /\ Dist(k, l) \in Nat
  BY <1>1, Sizes DEF Index
<1> QED BY <1>2, RingType, Sizes DEF Between, IsRing

(* There is nothing between an index and itself. *)
LEMMA BetweenEmpty ==
  ASSUME NEW b \in Rings(INPUT_BUF_SIZE, Typed), NEW k \in Index
  PROVE  Between(b, k, k) = <<>>
<1>1. Dist(k, k) = 0
  BY DistValue, Sizes DEF Index
<1>2. Between(b, k, k) \in Seq(Typed) /\ Len(Between(b, k, k)) = 0
  BY <1>1, BetweenType, Zenon
<1> QED BY <1>2, EmptySeq, Zenon

(* A character taken *)
LEMMA BetweenTake ==
  ASSUME NEW b \in Rings(INPUT_BUF_SIZE, Typed), NEW r, NEW w, NEW e, InOrder(r, w, e), r # w,
         NEW s, s = (r + 1) % TTYWORD
  PROVE  Between(b, r, w) # <<>> /\ Between(b, s, w) = Tail(Between(b, r, w))
<1> DEFINE n == Dist(r, w)
           m == Dist(s, w)
           j == r + 1
<1>1. /\ n \in Nat \ {0} /\ m \in Nat /\ m = n - 1 /\ r \in Int /\ j \in Int /\ j = r + 1
      /\ s = IF j = TTYWORD THEN 0 ELSE j
  <2>1. InOrder(s, w, e) /\ m = n - 1 /\ s = IF r + 1 = TTYWORD THEN 0 ELSE r + 1
    BY OrderTake
  <2>2. n \in Nat \ {0} /\ m \in Nat
    BY <2>1, OrderFacts, Zenon
  <2> QED BY <2>1, <2>2, Sizes DEF InOrder, Index
<1> HIDE DEF n, m, j
<1>2. Ring(b, INPUT_BUF_SIZE, r, n) # <<>>
      /\ Ring(b, INPUT_BUF_SIZE, j, m) = Tail(Ring(b, INPUT_BUF_SIZE, r, n))
  BY <1>1, RingTail, Sizes, SMTT(30)
<1>3. Ring(b, INPUT_BUF_SIZE, s, m) = Ring(b, INPUT_BUF_SIZE, j, m)
  <2>1. Ring(b, INPUT_BUF_SIZE, 0 + TTYWORD, m) = Ring(b, INPUT_BUF_SIZE, 0, m)
    BY <1>1, RingWraps, TerminalAssumption
  <2>2. 0 + TTYWORD = TTYWORD
    BY Sizes
  <2> QED BY <1>1, <2>1, <2>2, Zenon
<1> QED BY <1>2, <1>3, Zenon DEF Between, n, m

(* A character erased *)
LEMMA BetweenErase ==
  ASSUME NEW b \in Rings(INPUT_BUF_SIZE, Typed), NEW r, NEW w, NEW e, InOrder(r, w, e), w # e,
         NEW f, f = (e - 1) % TTYWORD
  PROVE  /\ Between(b, w, e) # <<>>
         /\ Between(b, w, f) = SubSeq(Between(b, w, e), 1, Len(Between(b, w, e)) - 1)
<1> DEFINE n == Dist(w, e)
           m == Dist(w, f)
<1>1. /\ n \in Nat \ {0} /\ m \in Nat /\ m = n - 1 /\ m <= n /\ w \in Int
      /\ w \in Index /\ e \in Index
  <2>1. InOrder(r, w, f) /\ m = n - 1
    BY OrderErase
  <2>2. n \in Nat \ {0} /\ m \in Nat
    BY <2>1, OrderFacts
  <2> QED BY <2>1, <2>2, Sizes DEF InOrder, Index
<1>2. Between(b, w, e) \in Seq(Typed) /\ Len(Between(b, w, e)) = n
  BY <1>1, BetweenType, Zenon
<1> HIDE DEF n, m
<1>3. Ring(b, INPUT_BUF_SIZE, w, m) = SubSeq(Ring(b, INPUT_BUF_SIZE, w, n), 1, m)
  BY <1>1, RingFront, Sizes
<1>4. Between(b, w, e) # <<>>
  BY <1>1, <1>2, EmptySeq, Zenon
<1> QED BY <1>1, <1>2, <1>3, <1>4, Zenon DEF Between, n, m

(* What is ready and what follows it, across the wrap of the indices *)
LEMMA BetweenJoin ==
  ASSUME NEW d \in Rings(INPUT_BUF_SIZE, Typed), NEW r \in Index, NEW w \in Index,
         NEW m \in Nat, NEW l \in Nat, Plus(Dist(r, w), m, l)
  PROVE  Ring(d, INPUT_BUF_SIZE, r, l) = Between(d, r, w) \o Ring(d, INPUT_BUF_SIZE, w, m)
<1> DEFINE z == r + Dist(r, w)
<1>1. Dist(r, w) \in Index /\ Dist(r, w) = IF w >= r THEN w - r ELSE w - r + TTYWORD
  BY DistValue, Zenon
<1>2. /\ r \in Int /\ w \in Int /\ Dist(r, w) \in Nat /\ z \in Int
      /\ INPUT_BUF_SIZE \in Nat \ {0} /\ TTYWORD \in Nat
  BY <1>1, Sizes DEF Index
<1>3. Plus(r, Dist(r, w), z) /\ (z = w \/ Plus(w, TTYWORD, z))
  BY <1>1, <1>2 DEF Plus
<1>4. Laps(TTYWORD, INPUT_BUF_SIZE)
  BY TerminalAssumption, Zenon DEF Laps
<1> DEFINE n == Dist(r, w)
<1>5. Plus(r, n, z) /\ Plus(n, m, l) /\ n \in Nat
  BY <1>2, <1>3, Zenon
<1> HIDE DEF z, n
<1>6. Ring(d, INPUT_BUF_SIZE, z, m) = Ring(d, INPUT_BUF_SIZE, w, m)
  BY <1>2, <1>3, <1>4, RingLaps, SMTT(30)
<1>7. Ring(d, INPUT_BUF_SIZE, r, l) = Ring(d, INPUT_BUF_SIZE, r, n) \o Ring(d, INPUT_BUF_SIZE, z, m)
  BY <1>2, <1>5, RingConcat, SMTT(30)
<1> QED BY <1>6, <1>7, Zenon DEF Between, n

(* A character stored *)
LEMMA BetweenStore ==
  ASSUME NEW b \in Rings(INPUT_BUF_SIZE, Typed), NEW r, NEW w, NEW e, InOrder(r, w, e),
         Dist(r, e) < INPUT_BUF_SIZE, NEW f, Dist(w, f) = Dist(w, e) + 1, Dist(r, f) = Dist(r, e) + 1,
         NEW c \in Typed, NEW d, Updated(d, b, INPUT_BUF_SIZE, Typed, e, c)
  PROVE  /\ Between(d, r, w) = Between(b, r, w)
         /\ Between(d, w, f) = Append(Between(b, w, e), c)
         /\ Between(d, r, f) = Between(b, r, w) \o Append(Between(b, w, e), c)
<1> DEFINE P == INPUT_BUF_SIZE
           n == Dist(r, w)
           m == Dist(w, e)
           l == Dist(r, e)
           m1 == Dist(w, f)
           l1 == Dist(r, f)
           x == r + l
           y == w + m
<1>1. /\ r \in Index /\ w \in Index /\ e \in Index /\ r \in Int /\ w \in Int
      /\ P \in Nat \ {0}
  BY Sizes DEF InOrder, Index
<1>2. n \in Nat /\ m \in Nat /\ l \in Nat /\ n + m = l
  BY OrderFacts
<1>3. m1 = m + 1 /\ l1 = l + 1 /\ m1 \in Nat /\ l1 \in Nat
  BY <1>2
<1>4. Slot(e, P) = Slot(x, P) /\ Slot(e, P) = Slot(y, P)
  BY <1>1, EditSlot, Zenon DEF Slot
<1>6. x = r + l /\ y = w + m /\ x \in Int /\ y \in Int /\ l < P
  BY <1>1, <1>2
<1>7. Updated(d, b, P, Typed, x, c) /\ Updated(d, b, P, Typed, y, c)
  BY <1>4, Zenon DEF Updated
<1> HIDE DEF P, n, m, l, m1, l1, x, y
<1>8. b \in Rings(P, Typed) /\ d \in Rings(P, Typed)
  BY <1>7, Zenon DEF P, Updated
<1>9. Ring(d, P, r, n) = Ring(b, P, r, n)
  <2>1. r + n <= x /\ x < r + P
    BY <1>1, <1>2, <1>6, SMTT(30)
  <2> QED BY <1>1, <1>2, <1>6, <1>7, <1>8, <2>1, RingFrame, SMTT(30)
<1>10. Ring(d, P, w, m1) = Append(Ring(b, P, w, m), c)
  <2>1. m < P
    BY <1>1, <1>2, <1>6, SMTT(30)
  <2> QED BY <1>1, <1>2, <1>3, <1>6, <1>7, <1>8, <2>1, RingAppend, SMTT(30)
<1>11. Ring(d, P, r, l1) = Between(d, r, w) \o Ring(d, P, w, m1)
  <2>1. Plus(Dist(r, w), m1, l1)
    BY <1>2, <1>3 DEF n, Plus
  <2> QED BY <1>1, <1>3, <1>8, <2>1, BetweenJoin, SMTT(30) DEF P
<1>12. /\ Between(d, r, w) = Ring(d, P, r, n) /\ Between(b, r, w) = Ring(b, P, r, n)
       /\ Between(d, w, f) = Ring(d, P, w, m1) /\ Between(b, w, e) = Ring(b, P, w, m)
       /\ Between(d, r, f) = Ring(d, P, r, l1)
  BY Zenon DEF Between, P, n, m, m1, l1
<1> QED BY <1>9, <1>10, <1>11, <1>12, Zenon

(* What the indices do is what a line discipline does. *)
LEMMA LinesStep ==
  ASSUME InputInv, InputInv', IndexStep
  PROVE  [Lines!Next]_<<Part(cons.r, cons.w), Part(cons.w, cons.e)>>
<1> DEFINE ready == Part(cons.r, cons.w)
           line == Part(cons.w, cons.e)
           b == cons.buf
           r == cons.r
           w == cons.w
           e == cons.e
<1>0. b \in Rings(INPUT_BUF_SIZE, Typed) /\ InOrder(r, w, e)
  BY Zenon DEF InputInv
<1>1. ready = Between(b, r, w) /\ line = Between(b, w, e)
  BY Zenon DEF Part, Between, Ring, Slot, Dist
<1>2. ready' = Between(cons'.buf, cons'.r, cons'.w) /\ line' = Between(cons'.buf, cons'.w, cons'.e)
  BY Zenon DEF Part, Between, Ring, Slot, Dist
<1>3. CASE Same
  <2>1. ready' = ready /\ line' = line
    BY <1>1, <1>2, <1>3, Zenon DEF Same
  <2> QED BY <2>1, Zenon
<1>4. CASE Takes
  <2>1. cons'.r = (r + 1) % TTYWORD /\ r # w
    BY <1>4, Zenon DEF Takes
  <2>2. Between(b, r, w) # <<>> /\ Between(b, cons'.r, w) = Tail(Between(b, r, w))
    BY <1>0, <2>1, BetweenTake
  <2>3. ready # <<>> /\ ready' = Tail(ready) /\ line' = line
    BY <1>1, <1>2, <1>4, <2>2, Zenon DEF Takes
  <2>4. Lines!Take
    BY <2>3, Zenon DEF Lines!Take
  <2> QED BY <2>4, Zenon DEF Lines!Next
<1>5. CASE Erases
  <2>1. ready' = ready
    BY <1>1, <1>2, <1>5, Zenon DEF Erases
  <2>2. w \in Index /\ e \in Index
    BY <1>0, Zenon DEF InOrder
  <2>3. CASE w = e
    <3>1. line' = line
      BY <1>1, <1>2, <1>5, <2>3, Zenon DEF Erases
    <3> QED BY <2>1, <3>1, Zenon
  <2>4. CASE w # e
    <3>1. line # <<>>
      BY <1>0, <1>1, <2>4, BetweenErase
    <3>2. line' \in {<<>>, SubSeq(line, 1, Len(line) - 1)}
      <4>1. CASE cons'.e = w
        BY <1>0, <1>2, <1>5, <2>2, <4>1, BetweenEmpty, SMTT(30) DEF Erases
      <4>2. CASE cons'.e = (e - 1) % TTYWORD
        BY <1>0, <1>1, <1>2, <1>5, <2>4, <4>2, BetweenErase, SMTT(30) DEF Erases
      <4> QED BY <1>5, <4>1, <4>2, Zenon DEF Erases
    <3>3. Lines!Erase
      BY <2>1, <3>1, <3>2, Zenon DEF Lines!Erase
    <3> QED BY <3>3, Zenon DEF Lines!Next
  <2> QED BY <2>3, <2>4, Zenon
<1>6. ASSUME NEW c \in Stored, Stores(c) PROVE Lines!Type(c)
  <2> DEFINE d == cons'.buf
             f == cons'.e
             whole == c \in {"nl", "eof"} \/ Dist(r, f) = INPUT_BUF_SIZE
  <2>1. /\ d = [b EXCEPT ![e % INPUT_BUF_SIZE] = c] /\ f = (e + 1) % TTYWORD
        /\ Dist(r, e) < INPUT_BUF_SIZE /\ cons'.w = (IF whole THEN f ELSE w) /\ cons'.r = r
    BY <1>6, Zenon DEF Stores, Room, Dist
  <2>2. c \in Typed
    BY <1>6, Zenon DEF Typed
  <2>3. /\ Between(d, r, w) = Between(b, r, w)
        /\ Between(d, w, f) = Append(Between(b, w, e), c)
        /\ Between(d, r, f) = Between(b, r, w) \o Append(Between(b, w, e), c)
    <3>1. Updated(d, b, INPUT_BUF_SIZE, Typed, e, c)
      <4>1. e \in Int
        BY <1>0, Sizes, SMTT(30) DEF InOrder, Index
      <4> QED BY <1>0, <2>1, <2>2, <4>1, RingUpdated, Sizes, SMTT(30)
    <3>2. Dist(w, f) = Dist(w, e) + 1 /\ Dist(r, f) = Dist(r, e) + 1
      BY <1>0, <2>1, OrderStore
    <3>3. Dist(r, e) < INPUT_BUF_SIZE
      BY <2>1, Zenon
    <3> HIDE DEF d, f, b, r, w, e
    <3> QED BY <1>0, <2>2, <3>1, <3>2, <3>3, BetweenStore, SMTT(30)
  <2>4. Len(ready) + Len(line) = Dist(r, e) /\ Dist(r, f) = Dist(r, e) + 1
    <3>1. Len(ready) = Dist(r, w) /\ Len(line) = Dist(w, e)
      BY <1>0, <1>1, BetweenType, SMTT(30) DEF InOrder
    <3>2. Dist(r, w) + Dist(w, e) = Dist(r, e)
      BY <1>0, OrderFacts
    <3>3. Dist(r, f) = Dist(r, e) + 1
      BY <1>0, <2>1, OrderStore
    <3> QED BY <3>1, <3>2, <3>3, Zenon
  <2>5. Between(d, f, f) = <<>>
    <3>1. d \in Rings(INPUT_BUF_SIZE, Typed) /\ f \in Index
      BY Zenon DEF InputInv, InOrder
    <3> QED BY <3>1, BetweenEmpty, Zenon
  <2>6. whole <=> c \in {"nl", "eof"} \/ Len(ready) + Len(line) + 1 = INPUT_BUF_SIZE
    BY <2>4, Zenon
  <2>7. CASE whole
    <3>1. ready' = ready \o Append(line, c) /\ line' = <<>>
      BY <1>1, <1>2, <2>1, <2>3, <2>5, <2>7, Zenon
    <3> QED BY <2>1, <2>4, <2>6, <2>7, <3>1, Zenon DEF Lines!Type
  <2>8. CASE ~whole
    <3>1. ready' = ready /\ line' = Append(line, c)
      BY <1>1, <1>2, <2>1, <2>3, <2>8, Zenon
    <3> QED BY <2>1, <2>4, <2>6, <2>8, <3>1, Zenon DEF Lines!Type
  <2> QED BY <2>7, <2>8, Zenon
<1> QED BY <1>3, <1>4, <1>5, <1>6, Zenon DEF IndexStep, Lines!Next

(* The three indices of console.c implement a line discipline, also where  *)
(* they wrap around.                                                       *)
THEOREM TermIsTty == TermSpec => IsTty
<1>1. TermInit => Lines!Init
  <2> SUFFICES ASSUME TermInit PROVE Part(cons.r, cons.w) = <<>> /\ Part(cons.w, cons.e) = <<>>
    BY Zenon DEF Lines!Init
  <2>1. InputInv
    BY TermStart, Zenon
  <2>2. cons.r = 0 /\ cons.w = 0 /\ cons.e = 0
    BY Zenon DEF TermInit
  <2>3. Between(cons.buf, 0, 0) = <<>>
    BY <2>1, <2>2, BetweenEmpty DEF InputInv, InOrder
  <2>4. Part(0, 0) = Between(cons.buf, 0, 0)
    BY Zenon DEF Part, Between, Ring, Slot, Dist
  <2> QED BY <2>2, <2>3, <2>4, Zenon
<1>2. InputInv /\ InputInv' /\ [TermNext]_termVars
        => [Lines!Next]_<<Part(cons.r, cons.w), Part(cons.w, cons.e)>>
  BY IndexSteps, LinesStep, Zenon
<1> QED BY <1>1, <1>2, TermInvariance, PTL DEF TermSpec, IsTty, Lines!Spec
=============================================================================
