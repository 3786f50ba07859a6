-------------------------------- MODULE Uart --------------------------------
(***************************************************************************)
(* The 16550 (uart_emul.c) with a terminal behind it.  The mevent thread   *)
(* reads the terminal into the receive FIFO, with the event disabled while *)
(* the FIFO is full; vcpus read and write the registers under the same     *)
(* lock.  The characters that are typed are the numbers 1, 2, ...; the one *)
(* a guest sends to itself in loopback mode is 0.                          *)
(***************************************************************************)
EXTENDS Mevent, FiniteSets

CONSTANTS
  FIFOSZ,        \* 16
  MaxTyped,      \* bound on the characters typed
  MaxWrites,     \* bound on the writes of the guest
  Iers, Mcrs     \* values that the guest writes to these registers

ASSUME UartConstants ==
  /\ FIFOSZ \in Nat \ {0}
  /\ Iers \subseteq SUBSET {"RXRDY", "TXRDY", "RLS", "MSC"}
  /\ Mcrs \subseteq SUBSET {"LOOPBACK", "DTR", "RTS", "OUT1", "OUT2"}

VARIABLES ttyq, u, tty, typed, writes
uartvars == <<ttyq, u, tty, typed, writes>>

EmptyFifo(size) == [buf |-> [i \in 0 .. FIFOSZ - 1 |-> 0], r |-> 0, w |-> 0, num |-> 0, size |-> size]

\* uart_init, uart_reset and uart_opentty: the event is added at start-up.  The
\* vcpus are started before the main thread enters mevent_dispatch.
UartInit ==
  /\ u = [fifo |-> EmptyFifo(1), ier |-> {}, mcr |-> {}, msr |-> {}, oe |-> FALSE,
          thre |-> FALSE, fcr |-> FALSE, line |-> FALSE, last |-> 0, locked |-> FALSE]
  /\ ttyq = mevent_add(MeventInit({"tty"}), "tty")
  /\ tty = <<>> /\ typed = 0 /\ writes = 0

-----------------------------------------------------------------------------
rxfifo_available(f) == f.num < f.size

\* rxfifo_putchar and rxfifo_getchar: the FIFO, and what becomes of the event.
PutChar(f, ch) == [f EXCEPT !.buf[f.w] = ch, !.w = (@ + 1) % f.size, !.num = @ + 1]
GetChar(f) == [f EXCEPT !.r = (@ + 1) % f.size, !.num = @ - 1]

rxfifo_putchar(f, p, ch, self) ==
  IF ~rxfifo_available(f) THEN [f |-> f, q |-> p, ok |-> FALSE]
  ELSE LET g == PutChar(f, ch)
       IN [f |-> g, ok |-> TRUE,
           q |-> IF rxfifo_available(g) THEN p ELSE mevent_update(p, "tty", "DISABLE", self)]

\* Mutant: the event stays disabled.
NoEnable(f, p) == p

\* In rxfifo_getchar: the event is enabled again when the FIFO was full.
EnableIfFull(f, p) == IF rxfifo_available(f) THEN p ELSE mevent_update(p, "tty", "ENABLE", FALSE)

\* Contents of the FIFO, oldest first.
Contents(f) == [i \in 1 .. f.num |-> f.buf[(f.r + i - 1) % f.size]]

-----------------------------------------------------------------------------
uart_intr_reason(s) ==
  IF s.oe /\ "RLS" \in s.ier THEN "RLS"
  ELSE IF s.fifo.num > 0 /\ "RXRDY" \in s.ier THEN "RXTOUT"
  ELSE IF s.thre /\ "TXRDY" \in s.ier THEN "TXRDY"
  ELSE IF s.msr \cap {"dcts", "teri"} # {} /\ "MSC" \in s.ier THEN "MLSC"
  ELSE "NOPEND"

\* uart_toggle_intr, for a port whose interrupt is a level (pci_uart.c).
uart_toggle_intr(s) == [s EXCEPT !.line = (uart_intr_reason(s) # "NOPEND")]

Done(s, p) == u' = uart_toggle_intr(s) /\ ttyq' = p /\ UNCHANGED typed

\* uart_drain, in the mevent thread: it holds the lock (locked) while it reads
\* characters until the FIFO is full or there are no more.
InDrain == ttyq.pc = "handle" /\ "tty" \in ttyq.hot

DrainChar ==
  /\ InDrain /\ "LOOPBACK" \notin u.mcr /\ rxfifo_available(u.fifo) /\ tty # <<>>
  /\ LET d == rxfifo_putchar(u.fifo, ttyq, Head(tty), TRUE)
     IN u' = [u EXCEPT !.fifo = d.f, !.locked = TRUE] /\ ttyq' = d.q
  /\ tty' = Tail(tty) /\ UNCHANGED <<typed, writes>>

\* The end of it; in loopback mode a character is read and thrown away.
uart_drain ==
  /\ InDrain
  /\ IF "LOOPBACK" \in u.mcr
     THEN /\ tty' = IF tty = <<>> THEN tty ELSE Tail(tty)
          /\ ttyq' = Handled(ttyq, "tty") /\ UNCHANGED <<u, typed>>
     ELSE /\ ~rxfifo_available(u.fifo) \/ tty = <<>>
          /\ Done([u EXCEPT !.locked = FALSE], Handled(ttyq, "tty")) /\ UNCHANGED tty
  /\ UNCHANGED writes

TtyPipeRead ==
  /\ ttyq.pc = "handle" /\ "pipe" \in ttyq.hot /\ ~u.locked
  /\ ttyq' = Handled(ttyq, "pipe") /\ UNCHANGED <<u, tty, typed, writes>>

TtyBuild == CanBuild(ttyq) /\ ttyq' = Build(ttyq) /\ UNCHANGED <<u, tty, typed, writes>>

TtyReady == IF tty = <<>> THEN {} ELSE {"tty"}
TtyWake == CanWake(ttyq, TtyReady) /\ ttyq' = Wake(ttyq, TtyReady) /\ UNCHANGED <<u, tty, typed, writes>>

TypeChar ==
  /\ typed < MaxTyped /\ typed' = typed + 1 /\ tty' = Append(tty, typed + 1)
  /\ UNCHANGED <<ttyq, u, writes>>

-----------------------------------------------------------------------------
(* uart_write, register by register, and uart_read.                        *)

\* The data register: in loopback mode the character is received.
WriteData ==
  LET r == rxfifo_putchar(u.fifo, ttyq, 0, FALSE)
  IN IF "LOOPBACK" \in u.mcr
     THEN Done([u EXCEPT !.fifo = r.f, !.oe = @ \/ ~r.ok, !.thre = TRUE], r.q) /\ UNCHANGED tty
     ELSE Done([u EXCEPT !.thre = TRUE], ttyq) /\ UNCHANGED tty

WriteIer == \E v \in Iers : Done([u EXCEPT !.ier = v], ttyq) /\ UNCHANGED tty

\* The FIFO control register.  rxfifo_reset throws away what has been typed,
\* and enables the event.
WriteFcr ==
  \E enable, rst \in BOOLEAN :
    LET reset == (enable # u.fcr) \/ (enable /\ rst)
        size == IF enable THEN FIFOSZ ELSE 1
    IN /\ tty' = IF reset THEN <<>> ELSE tty
       /\ Done([u EXCEPT !.fcr = enable, !.fifo = IF reset THEN EmptyFifo(size) ELSE @],
               IF reset THEN mevent_update(ttyq, "tty", "ENABLE", FALSE) ELSE ttyq)

\* The modem control register; in loopback mode it is reflected in the modem
\* status register (CTS and RI stand for the four lines).
Modem(mcr) ==
  IF "LOOPBACK" \notin mcr THEN {}
  ELSE (IF "RTS" \in mcr THEN {"cts"} ELSE {}) \cup (IF "OUT1" \in mcr THEN {"ri"} ELSE {})

WriteMcr ==
  \E v \in Mcrs :
    LET new == Modem(v)
        delta == (IF ("cts" \in new) # ("cts" \in u.msr) THEN {"dcts"} ELSE {})
                 \cup (IF "ri" \in u.msr /\ "ri" \notin new THEN {"teri"} ELSE {})
    IN Done([u EXCEPT !.mcr = v, !.msr = new \cup (@ \cap {"dcts", "teri"}) \cup delta], ttyq)
       /\ UNCHANGED tty

GuestWrite ==
  /\ writes < MaxWrites /\ writes' = writes + 1
  /\ WriteData \/ WriteIer \/ WriteFcr \/ WriteMcr

\* The data register, when there is a character.
ReadData ==
  /\ u.fifo.num > 0
  /\ Done([u EXCEPT !.fifo = GetChar(@), !.last = IF u.fifo.buf[u.fifo.r] = 0 THEN @ ELSE u.fifo.buf[u.fifo.r]],
          EnableIfFull(u.fifo, ttyq))

\* What reading the line status register, the modem status register and the
\* interrupt identification register does.
ReadLsr(s) == [s EXCEPT !.oe = FALSE]
ReadMsr(s) == [s EXCEPT !.msr = @ \ {"dcts", "teri"}]
ReadIir(s) == IF uart_intr_reason(s) = "TXRDY" THEN [s EXCEPT !.thre = FALSE] ELSE s

GuestRead ==
  /\ ReadData \/ Done(ReadLsr(u), ttyq) \/ Done(ReadMsr(u), ttyq) \/ Done(ReadIir(u), ttyq)
  /\ UNCHANGED <<tty, writes>>

TtyThread == TtyBuild \/ TtyWake \/ DrainChar \/ uart_drain \/ TtyPipeRead

UartNext == TtyThread \/ (~u.locked /\ (GuestRead \/ GuestWrite)) \/ TypeChar

UartSpec == UartInit /\ [][UartNext]_uartvars

-----------------------------------------------------------------------------
\* When the mevent thread sleeps with nothing to do, the kernel watches the
\* terminal exactly when the FIFO has room: neither is input forgotten, nor
\* does the thread spin on input that it cannot take.  This is so if the kernel
\* was ever given the event, or no change came between mevent_add and the first
\* mevent_build.
WatchedIfRoom ==
  Settled(ttyq) /\ (ttyq.kq["tty"] # "none" \/ ttyq.ev["tty"] = "ADD")
    => (ttyq.kq["tty"] = "on" <=> rxfifo_available(u.fifo))

\* "Enable mevent to trigger when new characters are available on the tty fd."
\* The code does not keep it: the state of an event that is listed as new is
\* overwritten (mevent_update), and the kernel refuses to enable what it does
\* not have.
InputWatched == Settled(ttyq) /\ rxfifo_available(u.fifo) => ttyq.kq["tty"] = "on"

\* What the guest reads is what was typed, in order and without gaps other
\* than what a reset of the FIFO or loopback mode throws away: the FIFO and
\* the terminal together hold an increasing sequence above the last one read.
InputInOrder ==
  LET s == Contents(u.fifo)
  IN /\ \A i, j \in DOMAIN s : i < j /\ s[i] # 0 /\ s[j] # 0 => s[i] < s[j]
     /\ \A i \in DOMAIN s : s[i] # 0 => u.last < s[i]
     /\ \A i \in DOMAIN s, j \in DOMAIN tty : s[i] < tty[j]
     /\ \A i, j \in DOMAIN tty : i < j => tty[i] < tty[j]
     /\ \A j \in DOMAIN tty : u.last < tty[j]

(* The inductive invariant of the proofs.                                  *)

\* The ring buffer holds num characters from r on; the next goes to w.
Fifo ==
  {f \in [buf : [0 .. FIFOSZ - 1 -> Nat], r : Nat, w : Nat, num : Nat, size : {1, FIFOSZ}] :
     f.r < f.size /\ f.num <= f.size /\ f.w = (f.r + f.num) % f.size}

\* Nothing that was typed is larger than typed.
UartTypeOK ==
  /\ u \in [fifo : Fifo, ier : SUBSET {"RXRDY", "TXRDY", "RLS", "MSC"},
            mcr : SUBSET {"LOOPBACK", "DTR", "RTS", "OUT1", "OUT2"},
            msr : SUBSET {"cts", "ri", "dcts", "teri"}, oe : BOOLEAN, thre : BOOLEAN,
            fcr : BOOLEAN, line : BOOLEAN, last : Nat, locked : BOOLEAN]
  /\ tty \in Seq(Nat) /\ typed \in Nat /\ u.last <= typed
  /\ \A i \in DOMAIN tty : tty[i] <= typed
  /\ \A i \in DOMAIN Contents(u.fifo) : Contents(u.fifo)[i] <= typed

\* The event is disabled exactly while the FIFO is full, the kernel has it so,
\* does not have it or a change is listed, and a change that is listed wakes
\* the thread.
EventFollows ==
  /\ ttyq \in [ev : [{"tty"} -> {"ADD", "ENABLE", "DISABLE"}], kq : [{"tty"} -> {"none", "on", "off"}],
               change : {<<>>, <<"tty">>}, pipe : BOOLEAN, pc : {"start", "build", "wait", "handle"},
               hot : SUBSET {"tty", "pipe"}]
  /\ ttyq.ev["tty"] = "DISABLE" <=> ~rxfifo_available(u.fifo)
  /\ ttyq.change = <<>> /\ (ttyq.kq["tty"] # "none" \/ ttyq.ev["tty"] = "ADD")
       => (ttyq.kq["tty"] = "off" <=> ttyq.ev["tty"] = "DISABLE") /\ ttyq.kq["tty"] # "none"
  /\ ttyq.pc = "wait" /\ ttyq.change # <<>> => ttyq.pipe

UartInv == UartTypeOK /\ EventFollows /\ InputInOrder
=============================================================================
