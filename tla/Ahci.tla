-------------------------------- MODULE Ahci --------------------------------
(***************************************************************************)
(* The AHCI controller (pci_ahci.c) and its one port with a disk or a      *)
(* DVD drive.  Register writes of the guest and the callbacks of block_if  *)
(* run with the mutex of the controller; the loop of ahci_handle_port is   *)
(* taken step by step, with the mutex held (loop).                         *)
(*                                                                         *)
(* sc is struct pci_ahci_softc with its port: of PxCMD the bits st, cr,    *)
(* fre, of PxTFD bsy and err, PxIS and PxIE as sets.  busy is iobhd with   *)
(* what block_if does with each request; older are the slots behind it in  *)
(* the list.  cfis[slot] is the command table in the guest's memory, which *)
(* is read again at the end of a request: the kind of command.  What a     *)
(* command computes is left out; how it ends is "ok" or the error it       *)
(* reports.                                                                *)
(***************************************************************************)
EXTENDS Naturals, FiniteSets

CONSTANTS
  NSlots,    \* command slots, at most ioqsz
  Atapi,     \* a DVD drive (atapi)
  Msi,       \* the guest uses MSI (pci_msi_enabled)
  Cmds,      \* the kinds of commands the guest issues
  Enables,   \* the sets of interrupts the guest enables
  Drivers    \* "careful": follows the AHCI rules on stopping and starting; or "any"

ASSUME AhciConstants ==
  /\ NSlots \in Nat \ {0}
  /\ Atapi \in BOOLEAN /\ Msi \in BOOLEAN
  /\ Enables \subseteq SUBSET {"DHR", "SDB", "TFE"}

VARIABLES sc, cfis, loop, driver
ahcivars == <<sc, cfis, loop, driver>>

Slots == 0 .. NSlots - 1
Irqs == {"DHR", "SDB", "TFE"}
ncq(c) == c \in {"FPDMA", "SEND_FPDMA"}

\* pci_ahci_init, with the first ahci_reset.
AhciInit ==
  /\ sc = [ci |-> {}, sact |-> {}, pending |-> {}, ccs |-> 0, st |-> FALSE, cr |-> FALSE,
           fre |-> FALSE, bsy |-> FALSE, err |-> FALSE, waitforclear |-> FALSE,
           reset |-> FALSE, asc |-> "ok", is |-> {}, ie |-> {},
           hbais |-> FALSE, ghcie |-> FALSE, lintr |-> FALSE, msg |-> "none", busy |-> {}]
  /\ cfis = [s \in Slots |-> "none"]
  /\ loop = FALSE /\ driver \in Drivers

-----------------------------------------------------------------------------
(* Interrupts and FISes.                                                   *)

\* Mutant: the interrupt bits of the port are not looked at again.
GenerateOnce(s) ==
  [s EXCEPT !.lintr = ~Msi /\ s.hbais /\ s.ghcie,
            !.msg = IF Msi /\ s.hbais /\ s.ghcie THEN "sent" ELSE @]

\* ahci_generate_intr: a pin that follows the state, or a message every time.
ahci_generate_intr(s) ==
  LET is == s.hbais \/ s.is \cap s.ie # {}
  IN [s EXCEPT !.hbais = is,
               !.lintr = ~Msi /\ is /\ s.ghcie,
               !.msg = IF Msi /\ is /\ s.ghcie THEN "sent" ELSE @]

\* ahci_write_fis: nothing happens unless the guest receives FISes.
ahci_write_fis(s, irq, err) ==
  LET i == irq \cup (IF err THEN {"TFE"} ELSE {})
      t == [s EXCEPT !.waitforclear = @ \/ err, !.is = @ \cup i]
  IN IF ~s.fre THEN s ELSE IF i = {} THEN t ELSE ahci_generate_intr(t)

\* ahci_write_fis_sdb: the end of a queued command; BSY is left alone.
ahci_write_fis_sdb(s, slot, err) ==
  ahci_write_fis([s EXCEPT !.sact = IF err THEN @ ELSE @ \ {slot}, !.err = err], {"SDB"}, err)

\* ahci_write_fis_d2h: the end of any other command.
ahci_write_fis_d2h(s, slot, err) ==
  ahci_write_fis([s EXCEPT !.ci = IF err THEN @ ELSE @ \ {slot}, !.bsy = FALSE, !.err = err],
                 {"DHR"}, err)

\* ahci_write_fis_d2h_ncq: a queued command has been accepted.
ahci_write_fis_d2h_ncq(s, slot) ==
  ahci_write_fis([s EXCEPT !.ci = @ \ {slot}, !.bsy = FALSE, !.err = FALSE], {}, FALSE)

-----------------------------------------------------------------------------
(* Stopping and resetting.                                                 *)

\* ahci_check_stopped.
ahci_check_stopped(s) ==
  IF s.st \/ s.pending # {} THEN s
  ELSE [s EXCEPT !.ccs = 0, !.cr = FALSE, !.ci = {}, !.sact = {}, !.waitforclear = FALSE]

\* The list without some of its requests.
Without(busy, gone) ==
  {[b EXCEPT !.older = @ \ {c.slot : c \in gone}] : b \in busy \ gone}

\* ahci_port_stop: blockif_cancel gives back what has not been begun.  Once a
\* queued command has been met, every later one is taken for a queued one.
ahci_port_stop(s) ==
  LET cancelled == {b \in s.busy : b.io = "queued"}
      sticky == {b \in cancelled : \E c \in cancelled :
                   ncq(cfis[c.slot]) /\ (c = b \/ b.slot \in c.older)}
      slots(I) == {b.slot : b \in I}
  IN ahci_check_stopped(
       [s EXCEPT !.sact = @ \ slots(sticky), !.ci = @ \ slots(cancelled \ sticky),
                 !.pending = @ \ slots(cancelled), !.busy = Without(@, cancelled)])

\* ahci_port_reset; its FIS raises nothing (ahci_write_reset_fis_d2h).
ahci_port_reset(s) == [s EXCEPT !.sact = {}, !.bsy = FALSE, !.err = FALSE]

\* ahci_reset: what is in flight stays in flight.
ahci_reset(s) ==
  ahci_port_reset([s EXCEPT !.ghcie = FALSE, !.hbais = FALSE, !.lintr = FALSE, !.ie = {},
                            !.is = {}, !.st = FALSE, !.cr = FALSE, !.fre = FALSE])

-----------------------------------------------------------------------------
(* Commands that end at once: how each may end.                            *)

handle_identify == IF Atapi THEN {"ABRT"} ELSE {"ok", "ABRT"}
handle_atapi_identify == IF Atapi THEN {"ok"} ELSE {"ABRT"}
ahci_handle_read_log == IF Atapi THEN {"ABRT"} ELSE {"ok", "ABRT"}
handle_setfeatures == {"ok", "ABRT"}
atapi_inquiry == {"ok", "asc24"}
atapi_read_capacity == {"ok"}
atapi_report_luns == {"ok"}
atapi_request_sense == {"ok"}
atapi_read_toc == {"ok", "asc24"}
atapi_start_stop_unit == {"ok", "asc53"}
atapi_mode_sense == {"ok", "asc39", "asc24"}
atapi_get_event_status_notification == {"ok", "asc24"}

\* handle_packet_cmd, but for READ: PACKET_OK are TEST_UNIT_READY and
\* PREVENT_ALLOW, and the commands that cannot fail.
handle_packet_cmd(c) ==
  CASE c = "INQUIRY" -> atapi_inquiry
    [] c = "READ_TOC" -> atapi_read_toc
    [] c = "START_STOP_UNIT" -> atapi_start_stop_unit
    [] c = "MODE_SENSE" -> atapi_mode_sense
    [] c = "GET_EVENT" -> atapi_get_event_status_notification
    [] c = "PACKET_OK" -> {"ok"} \cup atapi_read_capacity \cup atapi_report_luns
                                \cup atapi_request_sense
    [] OTHER -> {"asc20"}

Packets == {"INQUIRY", "READ_TOC", "START_STOP_UNIT", "MODE_SENSE", "GET_EVENT", "PACKET_OK",
            "PACKET_BAD", "PACKET_READ"}

\* The commands of ahci_handle_cmd that do no I/O.  SEND_FPDMA is always
\* refused: its subcommand would have to be 0 and 1.
Ends(c) ==
  CASE c = "IDENTIFY" -> handle_identify
    [] c = "ATAPI_IDENTIFY" -> handle_atapi_identify
    [] c = "SETFEATURES" -> handle_setfeatures
    [] c = "READ_LOG" -> ahci_handle_read_log
    [] c = "STANDBY" -> {"ok"}
    [] c \in Packets /\ Atapi -> handle_packet_cmd(c)
    [] OTHER -> {"ABRT"}

-----------------------------------------------------------------------------
(* Commands with I/O.  A pool element is taken, the command is in flight.  *)

\* Take an ahci_ioreq and give it to block_if; more says that the command
\* needs another one after it.
Take(s, slot, more) ==
  [s EXCEPT !.pending = @ \cup {slot},
            !.busy = @ \cup {[slot |-> slot, io |-> "queued", more |-> more,
                              older |-> {b.slot : b \in s.busy}]}]

\* ahci_handle_rw and atapi_read.  ahci_build_iov may not take in the whole
\* request; a request is at most two parts here.
ahci_handle_rw(s, slot, first) ==
  {IF first /\ ncq(cfis[slot]) THEN ahci_write_fis_d2h_ncq(t, slot) ELSE t :
     t \in {Take(s, slot, more) : more \in IF first THEN BOOLEAN ELSE {FALSE}}}

ahci_handle_flush(s, slot) == Take(s, slot, FALSE)

\* ahci_handle_dsm_trim: one range after the other; the rest may be empty.
ahci_handle_dsm_trim(s, slot, first) ==
  ahci_handle_rw(s, slot, first)
  \cup {ahci_check_stopped([ahci_write_fis_d2h(s, slot, FALSE) EXCEPT !.pending = @ \ {slot}])}

\* ahci_handle_cmd: the possible results.
ahci_handle_cmd(s0, slot) ==
  LET c == cfis[slot]
      s == [s0 EXCEPT !.bsy = TRUE]
  IN CASE c \in {"RW", "FPDMA"} \/ (c = "PACKET_READ" /\ Atapi) -> ahci_handle_rw(s, slot, TRUE)
       [] c = "FLUSH" -> {ahci_handle_flush(s, slot)}
       [] c = "TRIM" -> ahci_handle_dsm_trim(s, slot, TRUE)
       [] OTHER -> {ahci_write_fis_d2h([s EXCEPT !.asc = IF e \in {"ok", "ABRT"} THEN @ ELSE e],
                                       slot, e # "ok") : e \in Ends(c)}

\* ahci_handle_slot: a command, or the two halves of a software reset.
ahci_handle_slot(s, slot) ==
  CASE cfis[slot] = "SRST_ON" -> {[s EXCEPT !.reset = TRUE, !.ci = @ \ {slot}]}
    [] cfis[slot] = "SRST_OFF" ->
         {[IF s.reset THEN ahci_port_reset(s) ELSE s EXCEPT !.reset = FALSE, !.ci = @ \ {slot}]}
    [] OTHER -> ahci_handle_cmd(s, slot)

\* The slot after the current one.
NextSlot(s) == (s.ccs + 1) % NSlots

\* The loop of ahci_handle_port.
ahci_handle_port ==
  /\ loop
  /\ IF ~sc.st \/ sc.ci \subseteq sc.pending \/ sc.bsy \/ sc.waitforclear
     THEN loop' = FALSE /\ UNCHANGED sc
     ELSE /\ \E t \in IF sc.ccs \in sc.ci \ sc.pending
                      THEN ahci_handle_slot(sc, sc.ccs) ELSE {sc} :
               sc' = [t EXCEPT !.ccs = NextSlot(sc)]
          /\ UNCHANGED loop
  /\ UNCHANGED <<cfis, driver>>

-----------------------------------------------------------------------------
(* block_if.                                                               *)

\* An I/O thread begins a request.
IoBegin(b) ==
  /\ b.io = "queued"
  /\ sc' = [sc EXCEPT !.busy = (@ \ {b}) \cup {[b EXCEPT !.io = "running"]}]
  /\ UNCHANGED <<cfis, loop, driver>>

\* The end of a queued command is a Set Device Bits FIS (ata_ioreq_cb); a DVD
\* drive knows the Register FIS only (atapi_ioreq_cb).
EndsBySdb(c) == ncq(c) /\ ~Atapi

\* ata_ioreq_cb and atapi_ioreq_cb.  The port goes on (ahci_handle_port) when
\* the command is not in flight any more.
ioreq_cb(b, err) ==
  /\ ~loop /\ b.io = "running"
  /\ LET c == cfis[b.slot]
         s == [sc EXCEPT !.busy = Without(@, {b})]
         t == [IF EndsBySdb(c) THEN ahci_write_fis_sdb(s, b.slot, err)
               ELSE ahci_write_fis_d2h(s, b.slot, err)
               EXCEPT !.pending = @ \ {b.slot}, !.asc = IF Atapi /\ err THEN "asc21" ELSE @]
     IN IF ~err /\ b.more
        THEN sc' \in IF c = "TRIM" /\ ~Atapi THEN ahci_handle_dsm_trim(s, b.slot, FALSE)
                     ELSE ahci_handle_rw(s, b.slot, FALSE)
        ELSE sc' = ahci_check_stopped(t)
  /\ loop' = (b.slot \notin sc'.pending)
  /\ UNCHANGED <<cfis, driver>>

-----------------------------------------------------------------------------
(* pci_ahci_port_write and pci_ahci_host_write.                            *)

Careful == driver = "careful"

\* The guest builds a command and issues it (PxSACT, PxCI).  A careful one
\* resets the device only when nothing else is outstanding.
WriteCi(slot, c) ==
  /\ ~loop /\ slot \notin sc.ci \cup sc.sact
  /\ Careful => /\ sc.st
                /\ c \in {"SRST_ON", "SRST_OFF"} => sc.ci \cup sc.sact = {}
  /\ cfis' = [cfis EXCEPT ![slot] = c]
  /\ sc' = [sc EXCEPT !.ci = @ \cup {slot}, !.sact = IF ncq(c) THEN @ \cup {slot} ELSE @]
  /\ loop' = TRUE /\ UNCHANGED driver

\* PxCMD.  A careful guest starts the port only when it has stopped, is not
\* busy and FISes are received, and stops receiving them only after it.
WriteCmd(st, fre, clo) ==
  /\ ~loop
  /\ Careful => /\ st /\ ~sc.st => ~sc.cr /\ ~sc.bsy
                /\ st => fre
                /\ sc.cr => fre
  /\ LET s == [sc EXCEPT !.st = st, !.fre = fre]
         t == IF st THEN [s EXCEPT !.cr = TRUE] ELSE ahci_port_stop(s)
     IN sc' = [t EXCEPT !.bsy = @ /\ ~clo]
  /\ loop' = TRUE /\ UNCHANGED <<cfis, driver>>

WriteIs(i) == ~loop /\ sc' = [sc EXCEPT !.is = @ \ i] /\ UNCHANGED <<cfis, loop, driver>>

WriteIe(i) ==
  /\ ~loop /\ sc' = ahci_generate_intr([sc EXCEPT !.ie = i])
  /\ UNCHANGED <<cfis, loop, driver>>

\* PxSCTL with a reset; without effect while the port runs.
WriteSctl == ~loop /\ ~sc.st /\ sc' = ahci_port_reset(sc) /\ UNCHANGED <<cfis, loop, driver>>

\* GHC.HR; a careful guest has stopped the port.
WriteGhcHr ==
  /\ ~loop /\ (Careful => sc.pending = {})
  /\ sc' = ahci_reset(sc) /\ UNCHANGED <<cfis, loop, driver>>

WriteGhcIe ==
  ~loop /\ sc' = ahci_generate_intr([sc EXCEPT !.ghcie = TRUE]) /\ UNCHANGED <<cfis, loop, driver>>

\* IS of the controller, with which the guest ends the handling of a message.
WriteHbaIs ==
  /\ ~loop
  /\ sc' = ahci_generate_intr([sc EXCEPT !.hbais = FALSE,
                                         !.msg = IF @ = "taken" THEN "none" ELSE @])
  /\ UNCHANGED <<cfis, loop, driver>>

\* The guest takes the message.
TakeMsi == ~loop /\ sc.msg = "sent" /\ sc' = [sc EXCEPT !.msg = "taken"] /\ UNCHANGED <<cfis, loop, driver>>

Guests ==
  \/ \E s \in Slots, c \in Cmds : WriteCi(s, c)
  \/ \E st, fre, clo \in BOOLEAN : WriteCmd(st, fre, clo)
  \/ \E i \in Enables : WriteIe(i)
  \/ \E i \in {{"DHR"}, Irqs} : WriteIs(i)
  \/ WriteSctl \/ WriteGhcHr \/ WriteGhcIe \/ WriteHbaIs \/ TakeMsi

Io(b) == IoBegin(b) \/ \E err \in BOOLEAN : ioreq_cb(b, err)

AhciNext == ahci_handle_port \/ Guests \/ \E b \in sc.busy : Io(b)

AhciSpec == AhciInit /\ [][AhciNext]_ahcivars

OfSlot(s) == {b \in sc.busy : b.slot = s}

\* The handlers return if their loops end; block_if does every request
\* (BlockIf!RequestCompletes), and its callback gets the mutex.
AhciFairness ==
  /\ WF_ahcivars(ahci_handle_port)
  /\ \A s \in Slots :
       /\ WF_ahcivars(\E b \in OfSlot(s) : IoBegin(b))
       /\ SF_ahcivars(\E b \in OfSlot(s), err \in BOOLEAN : ioreq_cb(b, err))

-----------------------------------------------------------------------------
\* "Search for any new commands ignoring those that are already in-flight":
\* the requests in block_if are exactly the pending slots, one each, so the
\* pool never runs dry (assert(aior != NULL)).
PendingIsBusy ==
  /\ sc.pending = {b.slot : b \in sc.busy}
  /\ \A b, c \in sc.busy : b.slot = c.slot => b = c

\* A running port never tells the guest that a command is done while block_if
\* still works on it, and so may still use the guest's buffers (of a guest
\* that waits for the port to stop before it starts it again).
InFlightIsActive ==
  Careful /\ sc.st => \A b \in sc.busy : b.slot \in sc.ci \cup sc.sact

\* An enabled interrupt of the port is pending at the controller, and the
\* guest will see it: the pin is asserted or a message is on its way or
\* being handled.
IntrNotLost ==
  sc.ghcie /\ sc.is \cap sc.ie # {} => sc.hbais /\ (sc.lintr \/ sc.msg # "none")

\* The port is consistent with block_if and with the guest: what is in flight
\* is what is pending, once each, none of it has been reported as done, and an
\* enabled interrupt is on its way (pci_ahci.c keeps the three in step by hand).
PortConsistent == PendingIsBusy /\ InFlightIsActive /\ IntrNotLost

(* The inductive invariant of the proofs.                                  *)

AhciTypeOK ==
  /\ sc \in [ci : SUBSET Slots, sact : SUBSET Slots, pending : SUBSET Slots, ccs : Slots,
             st : BOOLEAN, cr : BOOLEAN, fre : BOOLEAN, bsy : BOOLEAN, err : BOOLEAN,
             waitforclear : BOOLEAN, reset : BOOLEAN,
             asc : {"ok", "asc20", "asc21", "asc24", "asc39", "asc53"}, is : SUBSET Irqs,
             ie : SUBSET Irqs, hbais : BOOLEAN, ghcie : BOOLEAN, lintr : BOOLEAN,
             msg : {"none", "sent", "taken"},
             busy : SUBSET [slot : Slots, io : {"queued", "running"}, more : BOOLEAN,
                            older : SUBSET Slots]]
  /\ cfis \in [Slots -> Cmds \cup {"none"}] /\ loop \in BOOLEAN

\* The pin and the message follow what is pending at the controller.
IntrFollows ==
  /\ sc.is \cap sc.ie # {} => sc.hbais
  /\ sc.lintr <=> ~Msi /\ sc.hbais /\ sc.ghcie
  /\ Msi /\ sc.hbais /\ sc.ghcie => sc.msg # "none"

\* A port that runs, or is stopping, under a careful driver.
Running ==
  /\ sc.st => sc.cr /\ sc.fre
  /\ sc.cr /\ ~sc.st => sc.pending # {}
  /\ ~sc.cr => sc.pending = {} /\ (sc.ci = {} \/ sc.waitforclear)

\* What is in flight on a running port was not reported, and BSY is for a
\* command that is in flight.
InFlight ==
  sc.st =>
    /\ sc.bsy => \E s \in sc.pending : ~ncq(cfis[s])
    /\ \A s \in sc.pending : IF ncq(cfis[s]) THEN s \in sc.sact \ sc.ci ELSE s \in sc.ci

\* The commands that a running port has not yet begun: there are some only
\* while the loop goes on, and a software reset is on its own.
NotBegun ==
  sc.st /\ ~sc.waitforclear =>
    /\ ~loop /\ ~sc.bsy => sc.ci \subseteq sc.pending
    /\ \A s \in sc.ci : ncq(cfis[s]) => s \in sc.sact
    /\ \A s \in sc.ci \ sc.pending :
         cfis[s] \in {"SRST_ON", "SRST_OFF"} => loop /\ ~sc.bsy /\ sc.ci \cup sc.sact = {s}

AhciInv ==
  /\ AhciTypeOK /\ PendingIsBusy /\ IntrFollows
  /\ Careful => Running /\ InFlight /\ NotBegun

-----------------------------------------------------------------------------
\* A command of a running port ends, or the port stops for an error: no slot
\* is passed over for ever, and no handler loops for ever.
Waits(s) == sc.st /\ s \in sc.ci \cup sc.sact /\ ~sc.waitforclear
CommandEnds == \A s \in Slots : Waits(s) ~> ~Waits(s)
=============================================================================
