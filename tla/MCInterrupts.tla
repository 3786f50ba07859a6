---------------------------- MODULE MCInterrupts ----------------------------
(***************************************************************************)
(* The instances of the interrupt modules that TLC checks together: the    *)
(* local APIC (Vlapic), the I/O APIC for two kinds of guest (Vioapic),     *)
(* event injection (Inject), the 8259s for guests that use them in         *)
(* different ways (Vatpic) and the routing of PCI interrupts (PciIntx).    *)
(* `which' says which of them a behaviour belongs to; the others rest.     *)
(***************************************************************************)
EXTENDS Vlapic, Vioapic, Inject, Vatpic, PciIntx

VARIABLE which

\* An illegal and a legal fixed vector, and ExtINT.
MCLvtWrites ==
  {[m |-> FALSE, vec |-> 8, dm |-> "FIXED"], [m |-> FALSE, vec |-> 49, dm |-> "FIXED"],
   [m |-> FALSE, vec |-> 49, dm |-> "EXTINT"]}

MCDests ==
  {[phys |-> TRUE, ids |-> {1}, low |-> FALSE],
   [phys |-> FALSE, ids |-> {0, 1}, low |-> TRUE],
   [phys |-> FALSE, ids |-> {0, 1}, low |-> FALSE]}

ASSUME IoConstants == IoConstantsOK

\* One line of each chip, then two of the master, then one of the slave alone.
Cascade == {<<0, 3>>, <<1, 1>>}

PicAuto == INSTANCE Vatpic WITH Level <- {<<1, 1>>}, Features <- {"AEOI", "SFNM"}

PicRotate == INSTANCE Vatpic WITH
  Lines <- {<<0, 3>>, <<0, 5>>}, Level <- {}, Features <- {"ROTATE", "AEOI"}

PicPoll == INSTANCE Vatpic WITH
  Lines <- {<<1, 1>>}, Level <- {}, Features <- {"POLL"}

\* PCI devices in two slots with pins of their own, and two functions of one
\* slot that share everything; the guest is free to route to a reserved and
\* to a forbidden line.
MCSlotOf == <<1, 2>>
IntxShared == INSTANCE PciIntx WITH SlotOf <- <<1, 1>>, NPins <- 1

ASSUME IntxConstants == IntxConstantsOK /\ IntxShared!IntxConstantsOK

lapicvars == vars

AllInit ==
  /\ which \in {"lapic", "ioapic", "inject", "pic_mask", "pic_auto", "pic_rotate", "pic_poll",
                "intx_slots", "intx_shared"}
  /\ Init
  /\ IoInit /\ (which # "ioapic" => guest = "masked")
  /\ InjectInit
  /\ CASE which = "pic_rotate" -> PicRotate!PicInit
       [] which = "pic_poll"   -> PicPoll!PicInit
       [] OTHER                -> PicInit
  /\ IF which = "intx_shared" THEN IntxShared!IntxInit ELSE IntxInit

\* The guest "any" uses one vector, which keeps its state space small.
OneVector == guest = "any" => \A p \in Pins : rte'[p].vec # 49

\* What rests while the 8259s or the PCI interrupts step.
ButPic == UNCHANGED <<lapicvars, iovars, injectvars, intxvars>>
ButIntx == UNCHANGED <<lapicvars, iovars, injectvars, picvars>>

AllNext ==
  /\ which' = which
  /\ \/ which = "lapic" /\ Next /\ UNCHANGED <<iovars, injectvars, picvars, intxvars>>
     \/ which = "ioapic" /\ IoNext /\ OneVector /\ UNCHANGED <<lapicvars, injectvars, picvars, intxvars>>
     \/ which = "inject" /\ InjectNext /\ UNCHANGED <<lapicvars, iovars, picvars, intxvars>>
     \/ which = "pic_mask" /\ PicNext /\ ButPic
     \/ which = "pic_auto" /\ PicAuto!PicNext /\ ButPic
     \/ which = "pic_rotate" /\ PicRotate!PicNext /\ ButPic
     \/ which = "pic_poll" /\ PicPoll!PicNext /\ ButPic
     \/ which = "intx_slots" /\ IntxNext /\ ButIntx
     \/ which = "intx_shared" /\ IntxShared!IntxNext /\ ButIntx

allvars == <<which, lapicvars, iovars, injectvars, picvars, intxvars>>
AllSpec == AllInit /\ [][AllNext]_allvars
=============================================================================
