------------------------------ MODULE PciIntx -------------------------------
(***************************************************************************)
(* The INTx interrupts of PCI devices (pci_emul.c) and their way to the    *)
(* I/O APIC and, through the PIRQ pins of the LPC bridge, to the 8259s     *)
(* (pci_irq.c, ioapic.c).  Devices assert and deassert from threads of     *)
(* their own, a guest enables MSI, MSI-X or INTx disable for a device      *)
(* (two steps: the store, and pci_lintr_update), and re-routes the PIRQ    *)
(* pins that devices share.                                                *)
(*                                                                         *)
(* isa and ioapic count the assertions of each line as the controllers do  *)
(* (Vatpic, Vioapic).  A device's lock is held while its step is not "none".   *)
(***************************************************************************)
EXTENDS Integers, Sequences, FiniteSets, FiniteSetsExt

CONSTANTS
  SlotOf,        \* the slot of every device, in the order of start-up
  NPins,         \* interrupt pins of a slot (4)
  NPirqs,        \* PIRQ pins (8)
  PciPins,       \* pci_pins: the pins of the I/O APIC above the first 16
  Irqs,          \* interrupt lines of the 8259s
  Permitted,     \* IRQ_PERMITTED
  Reserved       \* pci_irq_reserve: taken by the serial ports

VARIABLES phase, intpin, last, pirq, counts, dev, isa, ioapic
routes == <<intpin, last, counts>>
intxvars == <<phase, intpin, last, pirq, counts, dev, isa, ioapic>>

Devs == DOMAIN SlotOf
Slots == {SlotOf[d] : d \in Devs}
IntPins == 1 .. NPins
Pirqs == 1 .. NPirqs
DIS == -1                                    \* PIRQ_DIS
Routes == Irqs \cup {DIS}

pirq_valid_irq(reg) == reg \in Permitted

\* pci_irq_init and ioapic_init.
IntxInit ==
  /\ phase = <<"request", 1>>
  /\ intpin = [s \in Slots |-> [p \in IntPins |-> [count |-> 0, ioapic |-> 0, pirq |-> 0]]]
  /\ last = 0
  /\ pirq = [p \in Pirqs |-> [reg |-> DIS, use |-> 0, active |-> 0]]
  /\ counts = [i \in Irqs |-> 0]
  /\ dev = [d \in Devs |-> [pin |-> 0, ioapic |-> 0, pirq |-> 0, state |-> "IDLE", step |-> "none",
                            off |-> {}, update |-> FALSE, want |-> FALSE, call |-> FALSE]]
  /\ isa = [i \in Irqs |-> 0]
  /\ ioapic = [i \in 16 .. 15 + PciPins |-> 0]

\* The first of the elements of S for which f is smallest.
LeastBy(S, f) == Min({x \in S : \A y \in S : f[x] <= f[y]})

NextPhase(name, then) ==
  phase' = IF phase[2] < Cardinality(Devs) THEN <<name, phase[2] + 1>> ELSE <<then, 1>>

pci_lintr_request ==
  LET d == phase[2]
      s == SlotOf[d]
      p == LeastBy(IntPins, [q \in IntPins |-> intpin[s][q].count])
  IN /\ phase[1] = "request" /\ NextPhase("request", "route")
     /\ intpin' = [intpin EXCEPT ![s][p].count = @ + 1]
     /\ dev' = [dev EXCEPT ![d].pin = p]
     /\ UNCHANGED <<last, pirq, counts, isa, ioapic>>

\* pirq_alloc_pin: the least used pin p; if it is disabled it is routed to
\* the least used interrupt line.
pirq_alloc_pin(p) ==
  LET irq == LeastBy(Permitted \ Reserved, counts)
  IN /\ p = LeastBy(Pirqs, [q \in Pirqs |-> pirq[q].use])
     /\ pirq' = [pirq EXCEPT ![p].use = @ + 1, ![p].reg = IF @ = DIS THEN irq ELSE @]
     /\ counts' = IF pirq[p].reg = DIS THEN [counts EXCEPT ![irq] = @ + 1] ELSE counts

\* pci_lintr_route, with ioapic_pci_alloc_irq: functions of a slot that share
\* a pin share its lines.
pci_lintr_route ==
  LET d == phase[2]
      s == SlotOf[d]
      p == dev[d].pin
      irq == 16 + (last % PciPins)
      ii == intpin[s][p]
  IN /\ phase[1] = "route" /\ NextPhase("route", "run")
     /\ IF ii.pirq # 0
        THEN /\ dev' = [dev EXCEPT ![d].ioapic = ii.ioapic, ![d].pirq = ii.pirq]
             /\ UNCHANGED <<intpin, last, pirq, counts>>
        ELSE /\ \E q \in Pirqs :
                  /\ pirq_alloc_pin(q)
                  /\ intpin' = [intpin EXCEPT ![s][p].ioapic = irq, ![s][p].pirq = q]
                  /\ dev' = [dev EXCEPT ![d].ioapic = irq, ![d].pirq = q]
             /\ last' = last + 1
     /\ UNCHANGED <<isa, ioapic>>

-----------------------------------------------------------------------------
pci_lintr_permitted(d) == dev[d].off = {}

\* pci_irq_assert, up to the release of the lock of the PIRQ: the first to
\* assert a pin drives both controllers, the others the I/O APIC, below.  nd
\* is what the caller makes of the device.
pci_irq_assert(d, nd) ==
  LET p == dev[d].pirq
      both == pirq[p].active = 0 /\ pirq_valid_irq(pirq[p].reg)
  IN /\ pirq' = [pirq EXCEPT ![p].active = @ + 1]
     /\ isa' = IF both THEN [isa EXCEPT ![pirq[p].reg] = @ + 1] ELSE isa
     /\ ioapic' = IF both THEN [ioapic EXCEPT ![dev[d].ioapic] = @ + 1] ELSE ioapic
     /\ dev' = [dev EXCEPT ![d] = [nd EXCEPT !.step = IF both THEN "none" ELSE "assert"]]

\* Mutant: every deassertion lowers the 8259's line, shared or not.
DeassertShared(d, nd) ==
  LET p == dev[d].pirq
      both == pirq_valid_irq(pirq[p].reg)
  IN /\ pirq' = [pirq EXCEPT ![p].active = @ - 1]
     /\ isa' = IF both THEN [isa EXCEPT ![pirq[p].reg] = @ - 1] ELSE isa
     /\ ioapic' = IF both THEN [ioapic EXCEPT ![dev[d].ioapic] = @ - 1] ELSE ioapic
     /\ dev' = [dev EXCEPT ![d] = [nd EXCEPT !.step = IF both THEN "none" ELSE "deassert"]]

pci_irq_deassert(d, nd) ==
  LET p == dev[d].pirq
      both == pirq[p].active = 1 /\ pirq_valid_irq(pirq[p].reg)
  IN /\ pirq' = [pirq EXCEPT ![p].active = @ - 1]
     /\ isa' = IF both THEN [isa EXCEPT ![pirq[p].reg] = @ - 1] ELSE isa
     /\ ioapic' = IF both THEN [ioapic EXCEPT ![dev[d].ioapic] = @ - 1] ELSE ioapic
     /\ dev' = [dev EXCEPT ![d] = [nd EXCEPT !.step = IF both THEN "none" ELSE "deassert"]]

\* xh_vm_ioapic_assert_irq and xh_vm_ioapic_deassert_irq, outside that lock.
IoapicStep(d) ==
  /\ dev[d].step # "none"
  /\ ioapic' = [ioapic EXCEPT ![dev[d].ioapic] = IF dev[d].step = "assert" THEN @ + 1 ELSE @ - 1]
  /\ dev' = [dev EXCEPT ![d].step = "none"]
  /\ UNCHANGED <<phase, routes, pirq, isa>>

\* A device calls pci_lintr_assert or pci_lintr_deassert, the same one again
\* too, from one thread at a time.
Call(d) ==
  /\ phase[1] = "run" /\ ~dev[d].call
  /\ \E w \in BOOLEAN : dev' = [dev EXCEPT ![d].want = w, ![d].call = TRUE]
  /\ UNCHANGED <<phase, routes, pirq, isa, ioapic>>

\* What remains of a call under the lock when the line does not change.
Becomes(d, nd) == dev' = [dev EXCEPT ![d] = nd] /\ UNCHANGED <<pirq, isa, ioapic>>

pci_lintr_assert(d) ==
  LET nd == [dev[d] EXCEPT !.call = FALSE]
  IN /\ dev[d].call /\ dev[d].want /\ dev[d].step = "none"
     /\ IF dev[d].state # "IDLE" THEN Becomes(d, nd)
        ELSE IF pci_lintr_permitted(d) THEN pci_irq_assert(d, [nd EXCEPT !.state = "ASSERTED"])
        ELSE Becomes(d, [nd EXCEPT !.state = "PENDING"])
     /\ UNCHANGED <<phase, routes>>

pci_lintr_deassert(d) ==
  LET nd == [dev[d] EXCEPT !.call = FALSE, !.state = "IDLE"]
  IN /\ dev[d].call /\ ~dev[d].want /\ dev[d].step = "none"
     /\ IF dev[d].state = "ASSERTED" THEN pci_irq_deassert(d, nd) ELSE Becomes(d, nd)
     /\ UNCHANGED <<phase, routes>>

\* msicap_cfgwrite, msixcap_cfgwrite and pci_emul_cmdsts_write store what
\* stands in the way of INTx, and then update.
ConfigWrite(d) ==
  /\ phase[1] = "run" /\ ~dev[d].update
  /\ \E why \in {"msi", "intxdis"} :
       dev' = [dev EXCEPT ![d].update = TRUE,
                          ![d].off = IF why \in @ THEN @ \ {why} ELSE @ \cup {why}]
  /\ UNCHANGED <<phase, routes, pirq, isa, ioapic>>

\* The body of pci_lintr_update.
Update(d, nd) ==
  IF dev[d].state = "ASSERTED" /\ ~pci_lintr_permitted(d)
  THEN pci_irq_deassert(d, [nd EXCEPT !.state = "PENDING"])
  ELSE IF dev[d].state = "PENDING" /\ pci_lintr_permitted(d)
  THEN pci_irq_assert(d, [nd EXCEPT !.state = "ASSERTED"])
  ELSE Becomes(d, nd)

pci_lintr_update(d) ==
  /\ dev[d].update /\ dev[d].step = "none"
  /\ Update(d, [dev[d] EXCEPT !.update = FALSE])
  /\ UNCHANGED <<phase, routes>>

\* pirq_write, from pci_lpc_cfgwrite.
pirq_write(p, val) ==
  LET old == pirq[p].reg
      lower == IF pirq[p].active # 0 /\ pirq_valid_irq(old)
               THEN [isa EXCEPT ![old] = @ - 1] ELSE isa
  IN /\ phase[1] = "run" /\ val # old
     /\ pirq' = [pirq EXCEPT ![p].reg = val]
     /\ isa' = IF pirq[p].active # 0 /\ pirq_valid_irq(val)
               THEN [lower EXCEPT ![val] = @ + 1] ELSE lower
     /\ UNCHANGED <<phase, routes, dev, ioapic>>

IntxNext ==
  \/ pci_lintr_request \/ pci_lintr_route
  \/ \E d \in Devs :
       \/ Call(d) \/ pci_lintr_assert(d) \/ pci_lintr_deassert(d) \/ IoapicStep(d)
       \/ ConfigWrite(d) \/ pci_lintr_update(d)
  \/ \E p \in Pirqs, val \in Routes : pirq_write(p, val)

IntxSpec == IntxInit /\ [][IntxNext]_intxvars

-----------------------------------------------------------------------------
\* The device drives the I/O APIC: pci_irq_assert and pci_irq_deassert may
\* still have that part to do.
Drives(d) ==
  (dev[d].state = "ASSERTED" /\ dev[d].step # "assert") \/ dev[d].step = "deassert"

\* Each line of the I/O APIC counts exactly the devices that assert it, and
\* each line of the 8259s the pins that are routed to it and asserted by some
\* device, whatever the guest re-routes and whoever shares a pin.
LinesCount ==
  /\ \A i \in DOMAIN ioapic : ioapic[i] = Cardinality({d \in Devs : dev[d].ioapic = i /\ Drives(d)})
  /\ \A i \in Irqs :
       isa[i] = Cardinality({p \in Pirqs : pirq[p].reg = i /\ pirq_valid_irq(i) /\ pirq[p].active # 0})

\* Once the calls and writes that concern it have returned, a device that
\* wants to interrupt does when INTx is permitted, and its interrupt is kept
\* pending when it is not; one that does not want to does neither.
LintrSettled ==
  \A d \in Devs : ~dev[d].call /\ ~dev[d].update /\ dev[d].step = "none" =>
    dev[d].state = (IF ~dev[d].want THEN "IDLE"
                    ELSE IF pci_lintr_permitted(d) THEN "ASSERTED" ELSE "PENDING")

\* Both: the lines of both controllers count exactly the devices that assert
\* them, and a device asserts its line, or has it pending, exactly when it
\* wants to.
LinesMatch == LinesCount /\ LintrSettled

-----------------------------------------------------------------------------
(* What makes LinesMatch inductive.                                        *)

\* There is a device, and pirq_alloc_pin finds a line ("best_irq >= 0").
IntxConstantsOK ==
  /\ SlotOf \in Seq(Nat) \ {<<>>}
  /\ NPins \in Nat \ {0} /\ NPirqs \in Nat \ {0} /\ PciPins \in Nat \ {0}
  /\ Irqs \subseteq Nat /\ Permitted \subseteq Irqs /\ Permitted \ Reserved # {}

IoapicLines == 16 .. 15 + PciPins

IntxTypeOK ==
  /\ phase \in {"request", "route", "run"} \X Devs
  /\ intpin \in [Slots -> [IntPins -> [count : Nat, ioapic : IoapicLines \cup {0},
                                    pirq : Pirqs \cup {0}]]]
  /\ last \in Nat
  /\ pirq \in [Pirqs -> [reg : Routes, use : Nat, active : Nat]]
  /\ counts \in [Irqs -> Nat]
  /\ dev \in [Devs -> [pin : IntPins \cup {0}, ioapic : IoapicLines \cup {0}, pirq : Pirqs \cup {0},
                       state : {"IDLE", "ASSERTED", "PENDING"},
                       step : {"none", "assert", "deassert"},
                       off : SUBSET {"msi", "intxdis"}, update : BOOLEAN, want : BOOLEAN,
                       call : BOOLEAN]]
  /\ isa \in [Irqs -> Int] /\ ioapic \in [IoapicLines -> Int]

\* Start-up gives every device its pin and then its lines before any of them
\* runs, and functions that share a pin find both lines of it.
Booted ==
  /\ phase[1] # "run" => \A d \in Devs : /\ dev[d].state = "IDLE" /\ dev[d].step = "none"
                                         /\ ~dev[d].call /\ ~dev[d].update
  /\ \A d \in Devs :
       /\ phase[1] # "request" \/ d < phase[2] => dev[d].pin # 0
       /\ phase[1] = "run" \/ (phase[1] = "route" /\ d < phase[2])
            => dev[d].pirq # 0 /\ dev[d].ioapic # 0
  /\ \A s \in Slots, p \in IntPins : intpin[s][p].pirq # 0 => intpin[s][p].ioapic # 0

\* What pci_irq_assert and pci_irq_deassert have left to do fits the state.
StepFits ==
  \A d \in Devs : /\ dev[d].step = "assert" => dev[d].state = "ASSERTED"
                  /\ dev[d].step = "deassert" => dev[d].state # "ASSERTED"

\* The active count of a PIRQ pin is the number of devices that assert it.
ActiveCounts ==
  \A p \in Pirqs :
    pirq[p].active = Cardinality({d \in Devs : dev[d].pirq = p /\ dev[d].state = "ASSERTED"})

\* Calls decide whether the line is idle, and updates between the other two.
LintrFollows ==
  \A d \in Devs :
    /\ ~dev[d].call => (dev[d].want <=> dev[d].state # "IDLE")
    /\ ~dev[d].update /\ dev[d].state # "IDLE"
         => (dev[d].state = "ASSERTED" <=> pci_lintr_permitted(d))

IntxInv == IntxTypeOK /\ Booted /\ StepFits /\ ActiveCounts /\ LinesCount /\ LintrFollows
=============================================================================
