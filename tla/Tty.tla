-------------------------------- MODULE Tty --------------------------------
(***************************************************************************)
(* A serial terminal in canonical mode with echo: kernel/chr_drv/tty_io.c, *)
(* serial.c, rs_io.s and flush() of tty_ioctl.c.                           *)
(*                                                                         *)
(* One process reads, one writes, a third flushes.  In the kernel a        *)
(* process keeps the processor (cpu) until it sleeps, calls schedule() or  *)
(* returns; the two interrupts of the port may come between any two of its *)
(* steps, and are atomic.  GETCH and PUTCH are not: they use the buffer    *)
(* first and move the index then.                                          *)
(*                                                                         *)
(* A ring of TTY_BUF_SIZE places holds one character less, and a PUTCH     *)
(* into a full one leaves it empty.  Of the characters to be sent only the *)
(* number is kept.  VTIME and the translations are left out; nothing in    *)
(* the kernel looks at the stopped flag.                                   *)
(*                                                                         *)
(* flaws records the places where the code does not protect its queues;    *)
(* the properties are about what happens before.                           *)
(***************************************************************************)
EXTENDS Integers, Sequences, FiniteSets, SequencesExt

CONSTANTS TTY_BUF_SIZE,
          Low,        \* sleep_if_full sleeps while there is less room (128)
          Startup,    \* the writer is woken with this many characters (256)
          Room,       \* tty_read does not wait for a line with less room (20)
          MaxRead, MaxWrite,    \* the longest read and write
          MaxTyped,   \* characters received: typing ends
          pgrp        \* the terminal has a process group

(* The thresholds are in the order of those in the source. *)
ASSUME TtyAssumption ==
    /\ {TTY_BUF_SIZE, Low, Startup, Room, MaxRead, MaxWrite, MaxTyped} \subseteq Nat
    /\ MaxRead > 0 /\ MaxWrite > 0 /\ Low > 0 /\ Startup > 0
    /\ Startup + Low < TTY_BUF_SIZE /\ pgrp \in BOOLEAN

VARIABLES
  read_q, secondary,   \* the characters received, and the edited lines
  data,                \* secondary.data: the lines in it
  write_q,             \* how many characters are to be sent
  ier,                 \* the port interrupts when it can send
  rd, wr,              \* the reader and the writer
  signal,              \* those of them with a signal
  cpu,                 \* the one that runs in the kernel, if any
  typed,               \* how many characters were received
  flaws                \* history
ttyVars == <<read_q, secondary, data, write_q, ier, rd, wr, signal, cpu, typed, flaws>>

Chars == {"x", "NL", "EOF", "ERASE", "KILL", "INTR"}
Ends  == {"NL", "EOF"}
LEFT(n) == TTY_BUF_SIZE - 1 - n
FULL(n) == LEFT(n) = 0

TtyInit == /\ read_q = <<>> /\ secondary = <<>> /\ data = 0 /\ write_q = 0
           /\ ier = FALSE /\ signal = {} /\ cpu = "none"
           /\ typed = 0 /\ flaws = {}
           /\ rd = [pc |-> "user", count |-> 0, c |-> "x"]
           /\ wr = [pc |-> "user", count |-> 0]

TtyTypeOK ==
    /\ read_q \in Seq(Chars) /\ secondary \in Seq(Chars)
    /\ Len(secondary) < TTY_BUF_SIZE /\ Len(read_q) < TTY_BUF_SIZE
    /\ data \in Nat /\ write_q \in 0 .. TTY_BUF_SIZE - 1 /\ ier \in BOOLEAN
    /\ rd \in [pc : {"user", "loop", "asleep", "get", "inc"}, count : 0 .. MaxRead,
               c : Chars]
    /\ wr \in [pc : {"user", "loop", "asleep", "full", "put", "inc"},
               count : 0 .. MaxWrite]
    /\ signal \subseteq {"r", "w"} /\ cpu \in {"none", "r", "w"}
    /\ typed \in 0 .. MaxTyped

-----------------------------------------------------------------------------
(* copy_to_cooked, for one character; st is the terminal, rest what stays  *)
(* in read_q because secondary is full                                     *)

(* n characters are echoed: PUTCH does not look whether there is room, and *)
(* rs_write enables the interrupt                                          *)
Echo(st, n) ==
    LET over == st.write_q + n >= TTY_BUF_SIZE
        q == (st.write_q + n) % TTY_BUF_SIZE
    IN [st EXCEPT !.write_q = q, !.ier = @ \/ q > 0,
                  !.flaws = @ \cup {f \in {"echo overflow"} : over}
                              \cup {f \in {"echo in PUTCH"} : wr.pc = "inc"}]

(* Faulty variant: the end of a line may be erased. *)
ErasableAlways(q) == q # <<>>
(* the last character, unless it ends a line *)
Erasable(q) == q # <<>> /\ Last(q) \notin Ends

(* what KILL_CHAR leaves, the lines that are complete *)
EndsIn(q) == {i \in DOMAIN q : q[i] \in Ends}
Lines(q)  == IF EndsIn(q) = {} THEN <<>> ELSE SubSeq(q, 1, Max(EndsIn(q)))

(* the line is cut back to q *)
Cut(st, q) ==
    [Echo(st, Len(st.secondary) - Len(q)) EXCEPT
        !.secondary = q,
        !.flaws = @ \cup {f \in {"erased while read"} :
                            rd.pc \in {"get", "inc"} /\ q = <<>>}]

(* Faulty variant: an end of file is no line. *)
CountsNL(c) == IF c = "NL" THEN 1 ELSE 0
Counts(c) == IF c \in Ends THEN 1 ELSE 0
EchoLength(c) == IF c \in Ends THEN 2 ELSE 1

(* tty_intr *)
tty_intr(st) == IF pgrp THEN [st EXCEPT !.signal = {"r", "w"}] ELSE st

Cook(st, c) ==
    CASE st.rest # <<>> \/ FULL(Len(st.secondary)) ->
           [st EXCEPT !.rest = Append(@, c), !.flaws = @ \cup {"secondary full"}]
      [] OTHER ->
    CASE c = "KILL" /\ Erasable(st.secondary) -> Cut(st, Lines(st.secondary))
      [] c = "ERASE" /\ Erasable(st.secondary) -> Cut(st, Front(st.secondary))
      [] c \in {"KILL", "ERASE"} /\ ~Erasable(st.secondary) -> st
      [] c = "INTR" -> tty_intr(st)
      [] OTHER -> [Echo(st, EchoLength(c)) EXCEPT
                      !.data = @ + Counts(c), !.secondary = Append(@, c)]

(* the receive interrupt: read_char drops what does not fit, and           *)
(* do_tty_interrupt calls copy_to_cooked, which wakes the reader           *)
read_char(c) ==
    LET q  == IF FULL(Len(read_q)) THEN read_q ELSE Append(read_q, c)
        st == FoldLeft(Cook, [secondary |-> secondary, data |-> data,
                              write_q |-> write_q, ier |-> ier, signal |-> signal,
                              flaws |-> {}, rest |-> <<>>], q)
    IN /\ typed < MaxTyped /\ typed' = typed + 1
       /\ read_q' = st.rest /\ secondary' = st.secondary /\ data' = st.data
       /\ write_q' = st.write_q /\ ier' = st.ier
       /\ signal' = st.signal /\ flaws' = flaws \cup st.flaws
       /\ rd' = [rd EXCEPT !.pc = IF @ = "asleep" THEN "loop" ELSE @]
       /\ UNCHANGED <<wr, cpu>>

(* Faulty variant: nobody is woken. *)
WakeWriterNever == wr
WakeWriter == [wr EXCEPT !.pc = IF @ = "asleep" THEN "full" ELSE @]

(* the transmit interrupt: write_char, write_buffer_empty *)
write_char ==
    LET q == IF write_q = 0 THEN 0 ELSE write_q - 1
    IN /\ ier
       /\ write_q' = q
       /\ ier' = (q > 0)
       /\ wr' = IF write_q <= Startup \/ q = 0 THEN WakeWriter ELSE wr
       /\ UNCHANGED <<read_q, secondary, data, rd, signal, cpu, typed, flaws>>

-----------------------------------------------------------------------------
Runs(p) == cpu \in {p, "none"}
queues == <<read_q, secondary, data, write_q, ier, typed, flaws>>

tty_read(n) ==
    /\ cpu = "none" /\ rd.pc = "user"
    /\ rd' = [rd EXCEPT !.pc = "loop", !.count = n] /\ cpu' = "r"
    /\ UNCHANGED <<queues, wr, signal>>

(* The call returns: its signal is delivered. *)
ReadReturns ==
    /\ rd' = [pc |-> "user", count |-> 0, c |-> "x"]
    /\ cpu' = "none" /\ signal' = signal \ {"r"}

(* Characters without the end of their line: tty_read goes round its loop  *)
(* and does not sleep, because the queue is not empty.                     *)
Partial == /\ secondary # <<>> /\ data = 0 /\ LEFT(Len(secondary)) > Room

ReadLoop ==
    /\ rd.pc = "loop" /\ Runs("r")
    /\ \/ "r" \in signal /\ ReadReturns
       \/ /\ "r" \notin signal /\ secondary = <<>>      \* sleep_if_empty
          /\ rd' = [rd EXCEPT !.pc = "asleep"] /\ cpu' = "none"
          /\ UNCHANGED signal
       \/ /\ "r" \notin signal /\ Partial
          /\ cpu' = "r" /\ UNCHANGED <<rd, signal>>
       \/ /\ "r" \notin signal /\ secondary # <<>> /\ ~Partial
          /\ rd' = [rd EXCEPT !.pc = "get"] /\ cpu' = "r"
          /\ UNCHANGED signal
    /\ UNCHANGED <<queues, wr>>

(* GETCH up to the index *)
Getch ==
    /\ rd.pc = "get"
    /\ rd' = [rd EXCEPT !.c = Head(secondary), !.pc = "inc"]
    /\ UNCHANGED <<queues, wr, signal, cpu>>

(* the index, the count of lines, and whether tty_read goes on *)
Got ==
    /\ rd.pc = "inc"
    /\ secondary' = Tail(secondary)
    /\ data' = data - Counts(rd.c)
    /\ IF rd.c # "EOF" /\ rd.count > 1 /\ secondary' # <<>>
       THEN /\ rd' = [rd EXCEPT !.pc = "get", !.count = @ - 1, !.c = "x"]
            /\ UNCHANGED <<signal, cpu>>
       ELSE ReadReturns
    /\ UNCHANGED <<read_q, write_q, ier, wr, typed, flaws>>

-----------------------------------------------------------------------------
tty_write(n) ==
    /\ cpu = "none" /\ wr.pc = "user"
    /\ wr' = [pc |-> "loop", count |-> n] /\ cpu' = "w"
    /\ UNCHANGED <<queues, rd, signal>>

WriteReturns ==
    /\ wr' = [pc |-> "user", count |-> 0]
    /\ cpu' = "none" /\ signal' = signal \ {"w"}

(* sleep_if_full: it sleeps when the queue is full, and again until there  *)
(* is Low room; then a signal ends the call                                *)
sleep_if_full ==
    LET sleeps == /\ "w" \notin signal
                  /\ \/ wr.pc = "loop" /\ FULL(write_q)
                     \/ wr.pc = "full" /\ LEFT(write_q) < Low
    IN /\ wr.pc \in {"loop", "full"} /\ Runs("w")
       /\ \/ /\ sleeps
             /\ wr' = [wr EXCEPT !.pc = "asleep"] /\ cpu' = "none"
             /\ UNCHANGED signal
          \/ ~sleeps /\ "w" \in signal /\ WriteReturns
          \/ /\ ~sleeps /\ "w" \notin signal
             /\ wr' = [wr EXCEPT !.pc = "put"] /\ cpu' = "w"
             /\ UNCHANGED signal
       /\ UNCHANGED <<queues, rd>>

(* PUTCH up to the index, while there is room *)
Putch ==
    /\ wr.pc = "put" /\ wr.count > 0 /\ ~FULL(write_q)
    /\ wr' = [wr EXCEPT !.pc = "inc"]
    /\ UNCHANGED <<queues, rd, signal, cpu>>

Put ==
    /\ wr.pc = "inc"
    /\ write_q' = (write_q + 1) % TTY_BUF_SIZE
    /\ wr' = [wr EXCEPT !.pc = "put", !.count = @ - 1]
    /\ UNCHANGED <<read_q, secondary, data, ier, rd, signal, cpu, typed, flaws>>

(* rs_write; with more to write, schedule() and once more *)
rs_write ==
    /\ wr.pc = "put" /\ (wr.count = 0 \/ FULL(write_q))
    /\ ier' = (ier \/ write_q > 0)
    /\ IF wr.count = 0 THEN WriteReturns
       ELSE wr' = [wr EXCEPT !.pc = "loop"] /\ cpu' = "none" /\ UNCHANGED signal
    /\ UNCHANGED <<read_q, secondary, data, write_q, rd, typed, flaws>>

-----------------------------------------------------------------------------
(* schedule() wakes who sleeps and has a signal *)
WakeSignalled ==
    /\ \/ rd.pc = "asleep" /\ "r" \in signal
       \/ wr.pc = "asleep" /\ "w" \in signal
    /\ rd' = [rd EXCEPT !.pc = IF @ = "asleep" /\ "r" \in signal THEN "loop" ELSE @]
    /\ wr' = [wr EXCEPT !.pc = IF @ = "asleep" /\ "w" \in signal THEN "full" ELSE @]
    /\ UNCHANGED <<queues, signal, cpu>>

(* tty_ioctl TCFLSH: both queues *)
flush ==
    /\ cpu = "none"
    /\ read_q' = <<>> /\ write_q' = 0
    /\ UNCHANGED <<secondary, data, ier, rd, wr, signal, cpu, typed, flaws>>

Reader == ReadLoop \/ Getch \/ Got
Writer == sleep_if_full \/ Putch \/ Put \/ rs_write

TtyNext == \/ \E c \in Chars : read_char(c)
           \/ write_char \/ WakeSignalled \/ flush
           \/ \E n \in 1 .. MaxRead : tty_read(n)
           \/ \E n \in 1 .. MaxWrite : tty_write(n)
           \/ Reader \/ Writer

(* A process that may run does so again and again (strongly fair, because  *)
(* the other one takes the processor in between), and the port sends.      *)
TtyFairness == /\ SF_ttyVars(Reader) /\ SF_ttyVars(Writer)
               /\ WF_ttyVars(write_char) /\ WF_ttyVars(WakeSignalled)
TtySpec == TtyInit /\ [][TtyNext]_ttyVars /\ TtyFairness

-----------------------------------------------------------------------------
(* secondary.data is the number of complete lines in the queue, although   *)
(* the interrupt adds to it and edits the queue between any two steps of   *)
(* the reader.                                                             *)
LinesCounted == flaws = {} => data = Cardinality(EndsIn(secondary))

(* A write ends: the writer sleeps only while an interrupt is to come that *)
(* wakes it.  The exception is a reader that goes round its loop on half a *)
(* line and never gives up the processor.                                  *)
Stuck == rd.pc = "loop" /\ Partial /\ "r" \notin signal
WriteEnds == wr.pc # "user" ~> (wr.pc = "user" \/ Stuck \/ flaws # {})

(* A reader gets a complete line: it is woken for it, and the end of the   *)
(* line is still counted when it looks.                                    *)
LineIsRead == (rd.pc # "user" /\ data > 0) ~> (rd.pc = "user" \/ flaws # {})

(* The inductive invariant of the proofs.  Before the first flaw a reader  *)
(* inside GETCH has a character to take, and it is the one it looked at.   *)
Holding == /\ rd.pc \in {"get", "inc"} => secondary # <<>>
           /\ rd.pc = "inc" => rd.c = Head(secondary)
           /\ wr.pc = "inc" => wr.count > 0
TtyInv == flaws = {} => TtyTypeOK /\ LinesCounted /\ Holding /\ read_q = <<>>
=============================================================================
