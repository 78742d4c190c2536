------------------------------ MODULE Terminal ------------------------------
(***************************************************************************)
(* The terminal: kernel/console.c (line editing, read) over kernel/uart.c  *)
(* (the output ring, polled output for echo, the interrupt handler), with  *)
(* the UART and the keyboard as the environment.                           *)
(*                                                                         *)
(* Granularity.  cons.lock and uart_tx_lock are held for whole steps, but  *)
(* consoleread() takes a step for each character, and the handler keeps    *)
(* cons.lock while it polls the UART to echo.  cons.r, w and e are         *)
(* unsigned and wrap around, here at TTYWORD; what processes write is      *)
(* numbered modulo TTYWORD, so that loss and reordering show.              *)
(***************************************************************************)
EXTENDS Integers, Sequences

CONSTANTS
  TtyReaders, TtyWriters,
  INPUT_BUF_SIZE, UART_TX_BUF_SIZE,
  TTYWORD,   \* bound of the model: the counters are taken modulo TTYWORD
  MaxRead,   \* bound of the model: the longest read
  Nil        \* no process, character, request

ASSUME TerminalAssumption ==
  /\ INPUT_BUF_SIZE \in Nat \ {0} /\ UART_TX_BUF_SIZE \in Nat \ {0} /\ TTYWORD \in Nat
  /\ TTYWORD > INPUT_BUF_SIZE /\ TTYWORD % INPUT_BUF_SIZE = 0
  /\ TTYWORD > UART_TX_BUF_SIZE + 1 /\ TTYWORD % UART_TX_BUF_SIZE = 0

(* x is any other character; ^H and Delete are bs, ^U is kill, ^P is list. *)
Stored == {"x", "nl", "eof"}
Keys == Stored \cup {"bs", "kill", "list", "nul"}

ASSUME NilAssumption == {Nil, "intr"} \cap TtyReaders = {} /\ Nil \notin Keys \cup {"intr"}

Echo == -1   \* an echoed character in the UART

VARIABLES
  cons,       \* struct cons; lock is a reader, "intr" or Nil
  reader,     \* of each reader: its step, target and n
  tx,         \* uart_tx_buf with uart_tx_r and uart_tx_w
  writer,     \* of each writer: "idle", "putc", "sleep"
  handler,    \* uartintr(): its step, the character, how many to echo
  rhr, thr,   \* the UART: the received character, the characters to send
  uirq,       \* the UART asks for an interrupt
  put, sent   \* numbers of the next character to write and to come out

termVars == <<cons, reader, tx, writer, handler, rhr, thr, uirq, put, sent>>

Idle == [pc |-> "idle", target |-> 0, n |-> 0]

TermInit ==
  /\ cons = [buf |-> [i \in 0..INPUT_BUF_SIZE - 1 |-> "nul"], r |-> 0, w |-> 0, e |-> 0, lock |-> Nil]
  /\ reader = [p \in TtyReaders |-> Idle]
  /\ tx = [buf |-> [i \in 0..UART_TX_BUF_SIZE - 1 |-> 0], r |-> 0, w |-> 0]
  /\ writer = [p \in TtyWriters |-> "idle"]
  /\ handler = [pc |-> "idle", c |-> Nil, echo |-> 0]
  /\ rhr = Nil /\ thr = <<>> /\ uirq = FALSE
  /\ put = 0 /\ sent = 0

-----------------------------------------------------------------------------
(* consoleread() *)

outputVars == <<tx, writer, handler, rhr, thr, uirq, put, sent>>

consoleread(p, n) ==
  /\ reader[p].pc = "idle" /\ cons.lock = Nil
  /\ reader' = [reader EXCEPT ![p] = [pc |-> "read", target |-> n, n |-> n]]
  /\ cons' = [cons EXCEPT !.lock = p]
  /\ UNCHANGED outputVars

(* sleep() takes cons.lock again. *)
consoleread_woken(p) ==
  /\ reader[p].pc = "woken" /\ cons.lock = Nil
  /\ reader' = [reader EXCEPT ![p].pc = "read"]
  /\ cons' = [cons EXCEPT !.lock = p]
  /\ UNCHANGED outputVars

(* Nothing to read: a killed process gives up, others sleep. *)
consoleread_wait(p) ==
  /\ cons.lock = p /\ reader[p].n > 0 /\ cons.r = cons.w
  /\ \E r \in {Idle, [reader[p] EXCEPT !.pc = "sleep"]} : reader' = [reader EXCEPT ![p] = r]
  /\ cons' = [cons EXCEPT !.lock = Nil]
  /\ UNCHANGED outputVars

(* ^D ends the read; unless it is all there is to return, it stays.        *)
consoleread_eof(p) ==
  /\ cons.lock = p /\ reader[p].n > 0 /\ cons.r # cons.w
  /\ cons.buf[cons.r % INPUT_BUF_SIZE] = "eof"
  /\ cons' = [cons EXCEPT !.lock = Nil,
                !.r = IF reader[p].n < reader[p].target THEN @ ELSE (@ + 1) % TTYWORD]
  /\ reader' = [reader EXCEPT ![p] = Idle]
  /\ UNCHANGED outputVars

(* One character; a newline, or a copyout() that fails, ends the read.     *)
consoleread_char(p) ==
  /\ cons.lock = p /\ reader[p].n > 0 /\ cons.r # cons.w
  /\ LET c == cons.buf[cons.r % INPUT_BUF_SIZE]
     IN  /\ c # "eof"
         /\ cons' = [cons EXCEPT !.r = (@ + 1) % TTYWORD]
         /\ \E n \in IF c = "nl" THEN {0} ELSE {reader[p].n - 1, 0} :
              reader' = [reader EXCEPT ![p].n = n]
  /\ UNCHANGED outputVars

consoleread_return(p) ==
  /\ cons.lock = p /\ reader[p].n = 0
  /\ reader' = [reader EXCEPT ![p] = Idle]
  /\ cons' = [cons EXCEPT !.lock = Nil]
  /\ UNCHANGED outputVars

-----------------------------------------------------------------------------
(* consolewrite() of one character: uartputc() and the uartstart() in it *)

inputVars == <<cons, reader, rhr>>

TxFull == tx.w = (tx.r + UART_TX_BUF_SIZE) % TTYWORD

(* uartstart() on the ring t: with the UART idle and something to send,    *)
(* one character leaves; then the UART is not idle.  wr is what becomes of *)
(* the writers but for the wakeup.                                         *)
uartstart(t, wr) ==
  IF t.r # t.w /\ thr = <<>>
  THEN /\ tx' = [t EXCEPT !.r = (@ + 1) % TTYWORD]
       /\ thr' = <<t.buf[t.r % UART_TX_BUF_SIZE]>>
       /\ writer' = [p \in TtyWriters |-> IF wr[p] = "sleep" THEN "putc" ELSE wr[p]]
  ELSE tx' = t /\ writer' = wr /\ UNCHANGED thr

consolewrite(p) ==
  /\ writer[p] = "idle"
  /\ writer' = [writer EXCEPT ![p] = "putc"]
  /\ UNCHANGED <<inputVars, tx, handler, thr, uirq, put, sent>>

uartputc_full(p) ==
  /\ writer[p] = "putc" /\ TxFull
  /\ writer' = [writer EXCEPT ![p] = "sleep"]
  /\ UNCHANGED <<inputVars, tx, handler, thr, uirq, put, sent>>

(* Mutant: the test for a full ring is skipped. *)
uartputc_Unchecked(p) ==
  /\ writer[p] = "putc"
  /\ uartstart([tx EXCEPT !.buf[tx.w % UART_TX_BUF_SIZE] = put, !.w = (@ + 1) % TTYWORD],
               [writer EXCEPT ![p] = "idle"])
  /\ put' = (put + 1) % TTYWORD
  /\ UNCHANGED <<inputVars, handler, uirq, sent>>

uartputc(p) ==
  /\ writer[p] = "putc" /\ ~TxFull
  /\ uartstart([tx EXCEPT !.buf[tx.w % UART_TX_BUF_SIZE] = put, !.w = (@ + 1) % TTYWORD],
               [writer EXCEPT ![p] = "idle"])
  /\ put' = (put + 1) % TTYWORD
  /\ UNCHANGED <<inputVars, handler, uirq, sent>>

-----------------------------------------------------------------------------
(* The UART and the keyboard *)

uart_send ==
  /\ thr # <<>>
  /\ thr' = Tail(thr)
  /\ sent' = IF Head(thr) = Echo THEN sent ELSE (Head(thr) + 1) % TTYWORD
  /\ uirq' = (uirq \/ thr' = <<>>)
  /\ UNCHANGED <<inputVars, tx, writer, handler, put>>

keyboard(c) ==
  /\ rhr = Nil
  /\ rhr' = c /\ uirq' = TRUE
  /\ UNCHANGED <<cons, reader, tx, writer, handler, thr, put, sent>>

-----------------------------------------------------------------------------
(* uartintr() and consoleintr() *)

uartintr ==
  /\ handler.pc = "idle" /\ uirq
  /\ uirq' = FALSE
  /\ handler' = [handler EXCEPT !.pc = "getc"]
  /\ UNCHANGED <<cons, reader, tx, writer, rhr, thr, put, sent>>

(* The characters between the write index and the edit index *)
Edited == (cons.e - cons.w) % TTYWORD
Room == (cons.e - cons.r) % TTYWORD < INPUT_BUF_SIZE

(* What consoleintr(c) echoes: BACKSPACE is three characters. *)
EchoOf(c) ==
  CASE c = "kill" -> 3 * Edited
    [] c = "bs" -> IF Edited > 0 THEN 3 ELSE 0
    [] c \in Stored -> IF Room THEN 1 ELSE 0
    [] OTHER -> 0

uartgetc ==
  /\ handler.pc = "getc" /\ rhr # Nil /\ cons.lock = Nil
  /\ rhr' = Nil
  /\ handler' = [pc |-> "echo", c |-> rhr, echo |-> EchoOf(rhr)]
  /\ cons' = [cons EXCEPT !.lock = "intr"]
  /\ UNCHANGED <<reader, tx, writer, thr, uirq, put, sent>>

(* uartputc_sync() sees the UART idle, *)
uartputc_sync_poll ==
  /\ handler.pc = "echo" /\ handler.echo > 0 /\ thr = <<>>
  /\ handler' = [handler EXCEPT !.pc = "write"]
  /\ UNCHANGED <<cons, reader, tx, writer, rhr, thr, uirq, put, sent>>

(* and writes; it does not hold uart_tx_lock, so uartstart() may have      *)
(* written since.                                                          *)
uartputc_sync_write ==
  /\ handler.pc = "write"
  /\ thr' = Append(thr, Echo)
  /\ handler' = [handler EXCEPT !.pc = "echo", !.echo = @ - 1]
  /\ UNCHANGED <<cons, reader, tx, writer, rhr, uirq, put, sent>>

(* consoleintr() takes the edit index back.  ^U stops at a newline, but    *)
(* there is none between the write and the edit index.                     *)
consoleintr_erase ==
  /\ handler.pc = "echo" /\ handler.echo = 0 /\ handler.c \in {"bs", "kill"}
  /\ cons' = [cons EXCEPT !.lock = Nil,
                !.e = IF handler.c = "kill" THEN cons.w ELSE IF Edited > 0 THEN (@ - 1) % TTYWORD ELSE @]
  /\ handler' = [pc |-> "getc", c |-> Nil, echo |-> 0]
  /\ UNCHANGED <<reader, tx, writer, rhr, thr, uirq, put, sent>>

(* Mutant: the room in the buffer is measured from the write index. *)
consoleintr_store_FromW ==
  /\ handler.pc = "echo" /\ handler.echo = 0 /\ handler.c \in Stored
  /\ LET e == (cons.e + 1) % TTYWORD
     IN  cons' = IF Edited < INPUT_BUF_SIZE
                 THEN [cons EXCEPT !.lock = Nil, !.buf[cons.e % INPUT_BUF_SIZE] = handler.c, !.e = e,
                         !.w = IF handler.c \in {"nl", "eof"} THEN e ELSE @]
                 ELSE [cons EXCEPT !.lock = Nil]
  /\ reader' = [p \in TtyReaders |-> IF reader[p].pc = "sleep" THEN [reader[p] EXCEPT !.pc = "woken"] ELSE reader[p]]
  /\ handler' = [pc |-> "getc", c |-> Nil, echo |-> 0]
  /\ UNCHANGED <<tx, writer, rhr, thr, uirq, put, sent>>

(* Mutant: only a newline wakes the readers. *)
consoleintr_store_NlOnly ==
  /\ handler.pc = "echo" /\ handler.echo = 0 /\ handler.c \in Stored
  /\ LET e == (cons.e + 1) % TTYWORD
         whole == handler.c \in {"nl", "eof"} \/ (e - cons.r) % TTYWORD = INPUT_BUF_SIZE
     IN  /\ cons' = IF Room THEN [cons EXCEPT !.lock = Nil, !.buf[cons.e % INPUT_BUF_SIZE] = handler.c,
                                    !.e = e, !.w = IF whole THEN e ELSE @]
                            ELSE [cons EXCEPT !.lock = Nil]
         /\ reader' = [p \in TtyReaders |-> IF Room /\ handler.c = "nl" /\ reader[p].pc = "sleep"
                                         THEN [reader[p] EXCEPT !.pc = "woken"] ELSE reader[p]]
  /\ handler' = [pc |-> "getc", c |-> Nil, echo |-> 0]
  /\ UNCHANGED <<tx, writer, rhr, thr, uirq, put, sent>>

(* It stores a character, and a whole line wakes the readers.              *)
consoleintr_store ==
  /\ handler.pc = "echo" /\ handler.echo = 0 /\ handler.c \in Stored
  /\ LET e == (cons.e + 1) % TTYWORD
         whole == handler.c \in {"nl", "eof"} \/ (e - cons.r) % TTYWORD = INPUT_BUF_SIZE
     IN  /\ cons' = IF Room THEN [cons EXCEPT !.lock = Nil, !.buf[cons.e % INPUT_BUF_SIZE] = handler.c,
                                    !.e = e, !.w = IF whole THEN e ELSE @]
                            ELSE [cons EXCEPT !.lock = Nil]
         /\ reader' = [p \in TtyReaders |-> IF Room /\ whole /\ reader[p].pc = "sleep"
                                         THEN [reader[p] EXCEPT !.pc = "woken"] ELSE reader[p]]
  /\ handler' = [pc |-> "getc", c |-> Nil, echo |-> 0]
  /\ UNCHANGED <<tx, writer, rhr, thr, uirq, put, sent>>

(* ^P prints the process list, and a zero byte is ignored. *)
consoleintr_other ==
  /\ handler.pc = "echo" /\ handler.c \in {"list", "nul"}
  /\ cons' = [cons EXCEPT !.lock = Nil]
  /\ handler' = [pc |-> "getc", c |-> Nil, echo |-> 0]
  /\ UNCHANGED <<reader, tx, writer, rhr, thr, uirq, put, sent>>

uartintr_start ==
  /\ handler.pc = "getc" /\ rhr = Nil
  /\ uartstart(tx, writer)
  /\ handler' = [handler EXCEPT !.pc = "idle"]
  /\ UNCHANGED <<cons, reader, rhr, uirq, put, sent>>

-----------------------------------------------------------------------------
ReaderStep(p) ==
  \/ consoleread_woken(p) \/ consoleread_wait(p) \/ consoleread_eof(p)
  \/ consoleread_char(p) \/ consoleread_return(p)
WriterStep(p) == uartputc_full(p) \/ uartputc(p)
HandlerStep ==
  \/ uartintr \/ uartgetc \/ uartputc_sync_poll \/ uartputc_sync_write
  \/ consoleintr_erase \/ consoleintr_store \/ consoleintr_other \/ uartintr_start

Environment == uart_send \/ \E c \in Keys : keyboard(c)

TermNext ==
  \/ \E p \in TtyReaders : ReaderStep(p) \/ \E n \in 0..MaxRead : consoleread(p, n)
  \/ \E p \in TtyWriters : WriterStep(p) \/ consolewrite(p)
  \/ HandlerStep \/ Environment

(***************************************************************************)
(* The two halves meet in the UART only: input without writers, and output *)
(* against the echo of one key until the line buffer is full.  (Somebody   *)
(* who types and erases as fast as the UART sends can keep it from the     *)
(* writers for ever, and uartintr() from ending.)                          *)
(***************************************************************************)
InputNext ==
  \/ \E p \in TtyReaders : ReaderStep(p) \/ \E n \in 0..MaxRead : consoleread(p, n)
  \/ HandlerStep \/ Environment

OutputNext ==
  \/ \E p \in TtyWriters : WriterStep(p) \/ consolewrite(p)
  \/ HandlerStep \/ uart_send
  \/ handler.pc \in {"idle", "getc"} /\ keyboard("x")

(***************************************************************************)
(* Fairness.  The UART sends, interrupts are taken, and processes that can *)
(* go on do; nobody has to type, read or write, and nobody types so fast   *)
(* that uartintr() always finds another character.                         *)
(***************************************************************************)
TermFairness ==
  /\ WF_termVars(uart_send) /\ WF_termVars(HandlerStep) /\ SF_termVars(uartintr_start)
  /\ \A p \in TtyWriters : SF_termVars(WriterStep(p))

TermSpec == TermInit /\ [][TermNext]_termVars /\ TermFairness

-----------------------------------------------------------------------------
(* Properties *)

Part(from, to) == [i \in 1..(to - from) % TTYWORD |-> cons.buf[(from + i - 1) % INPUT_BUF_SIZE]]

Lines == INSTANCE Tty WITH
  ready <- Part(cons.r, cons.w), line <- Part(cons.w, cons.e), Chars <- Stored, Size <- INPUT_BUF_SIZE

(* The three indices of console.c implement a line discipline, also when   *)
(* they wrap around: characters are delivered in the order they were typed *)
(* as they were edited, and a line that is readable is not edited.         *)
IsTty == Lines!Spec

(* A reader sleeps only while no whole line waits for it.                  *)
LineReaderWoken ==
  cons.lock = Nil => \A p \in TtyReaders : reader[p].pc = "sleep" => cons.r = cons.w

(* What processes write comes out once and in order, although echoes share *)
(* the UART with uartstart() and poll it without uart_tx_lock.             *)
OutputInOrder ==
  LET waiting == SelectSeq(thr, LAMBDA c : c # Echo)
                 \o [i \in 1..(tx.w - tx.r) % TTYWORD |-> tx.buf[(tx.r + i - 1) % UART_TX_BUF_SIZE]]
  IN  waiting = [i \in 1..(put - sent) % TTYWORD |-> (sent + i - 1) % TTYWORD]

(* uartputc_sync() and uartstart() each saw the UART idle: at most one     *)
(* character too many is in its queue, which holds 16.                     *)
NoOverrun == Len(thr) <= 2

(* A writer that waits for room in the ring is woken, also when echoes use *)
(* the UART: no interrupt is missed, not even between the test of the ring *)
(* and sleep().  (It may find the room taken by another writer.)           *)
WriterServed == \A p \in TtyWriters : writer[p] = "sleep" ~> writer[p] # "sleep"
=============================================================================
