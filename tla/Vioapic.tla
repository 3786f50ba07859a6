------------------------------ MODULE Vioapic ------------------------------
(***************************************************************************)
(* The I/O APIC (vioapic.c) together with what the local APICs of the      *)
(* vcpus keep of its interrupts: redirection entries with remote IRR,      *)
(* level and edge delivery, EOI and redelivery, and the trigger-mode       *)
(* registers, which a write of an entry brings up to date by a rendezvous  *)
(* with the I/O APIC unlocked.                                             *)
(*                                                                         *)
(* The rendezvous is the one of VcpuRun, reduced to its result: while one  *)
(* is in progress each target takes part once, from its own thread, and    *)
(* then waits for the others; writers wait their turn.                     *)
(*                                                                         *)
(* `guest' is the discipline of the guest: "any" writes entries at will;   *)
(* "masked" changes an entry only while it is masked and its remote IRR is *)
(* clear, and unmasks it by a write of its own; "oneshot" does the same    *)
(* but changes and unmasks in one write; the last two make one write at a  *)
(* time, keep the local APICs enabled and send to active vcpus only.       *)
(***************************************************************************)
EXTENDS Prio, FiniteSets

CONSTANTS
  Cpus,       \* the vcpus; 0 is active from the start
  Pins,       \* 0 .. REDIR_ENTRIES - 1
  IoVectors,  \* all of the legal range 16 .. 255
  Dests,      \* the destinations the guest programs: records of
              \* [phys : BOOLEAN, ids : SUBSET Cpus, low : BOOLEAN]
  Guests,     \* the disciplines in question
  MaxAcnt     \* bound on the assertions of a pin outstanding at a time

VARIABLES
  guest,
  rte,        \* redirection entry of each pin, without its remote IRR
  rem,        \* pins whose remote IRR is set
  acnt,       \* asserts minus deasserts of each pin
  active, ioenabled,   \* active vcpus; vcpus whose local APIC is enabled
  ioirr, ioisr, tmr,   \* of each vcpu: sets of vectors
  wr, wpin,   \* progress of vioapic_write in each vcpu, and its pin
  rdvby, todo \* the vcpu whose rendezvous is in progress, and who must still run it

lapics == <<ioirr, ioisr, tmr>>
writes == <<wr, wpin, rdvby, todo>>
iovars == <<guest, rte, rem, acnt, active, ioenabled, lapics, writes>>

NoCpu == Cardinality(Cpus)   \* Cpus is 0 .. n - 1
Dest0 == [phys |-> TRUE, ids |-> {0}, low |-> FALSE]
Entry0 == [masked |-> TRUE, level |-> FALSE, vec |-> 0, dest |-> Dest0]
Entries == [masked : BOOLEAN, level : BOOLEAN, vec : IoVectors, dest : Dests]

\* vioapic_init: every entry masked, edge-triggered, vector 0.
IoInit ==
  /\ guest \in Guests
  /\ rte = [p \in Pins |-> Entry0]
  /\ rem = {}
  /\ acnt = [p \in Pins |-> 0]
  /\ active = {0}
  /\ ioenabled = IF guest = "any" THEN {} ELSE Cpus
  /\ ioirr = [c \in Cpus |-> {}] /\ ioisr = [c \in Cpus |-> {}]
  /\ tmr = [c \in Cpus |-> {}]
  /\ wr = [c \in Cpus |-> "idle"]
  /\ wpin = [c \in Cpus |-> 0]
  /\ rdvby = NoCpu /\ todo = {}

-----------------------------------------------------------------------------
(* Delivery.                                                               *)

LowestId(S) == {c \in S : \A d \in S : c <= d}

\* vlapic_calcdest: a physical id names its vcpu whether active or not; a
\* logical destination the active vcpus it addresses, with lowest priority
\* only the first of them.
vlapic_calcdest(d) ==
  IF d.phys THEN d.ids
  ELSE IF d.low THEN LowestId(d.ids \cap active) ELSE d.ids \cap active

\* The IRRs after vlapic_deliver_intr for the pins of S with the entries r: a
\* disabled local APIC drops the interrupt.
Deliver(r, S) ==
  [c \in Cpus |-> ioirr[c] \cup
     {r[p].vec : p \in {q \in S : c \in vlapic_calcdest(r[q].dest) \cap ioenabled}}]

\* vioapic_send_intr for the pins of S, with the entries r, when the remote
\* IRRs are those of rm: nothing for a masked pin; a level interrupt sets the
\* remote IRR.
vioapic_send_intr(S, r, rm) ==
  LET unmasked == {p \in S : ~r[p].masked} IN
  /\ rem' = rm \cup {p \in unmasked : r[p].level}
  /\ ioirr' = Deliver(r, unmasked)

\* vioapic_set_irqstate: only the first assertion sends an interrupt.
vioapic_assert_irq(p) ==
  /\ acnt[p] < MaxAcnt
  /\ acnt' = [acnt EXCEPT ![p] = @ + 1]
  /\ IF acnt[p] = 0 THEN vioapic_send_intr({p}, rte, rem) ELSE UNCHANGED <<rem, ioirr>>
  /\ UNCHANGED <<guest, rte, active, ioenabled, ioisr, tmr, writes>>

vioapic_deassert_irq(p) ==
  /\ acnt[p] > 0
  /\ acnt' = [acnt EXCEPT ![p] = @ - 1]
  /\ UNCHANGED <<guest, rte, rem, active, ioenabled, lapics, writes>>

vioapic_pulse_irq(p) ==
  /\ acnt[p] = 0
  /\ vioapic_send_intr({p}, rte, rem)
  /\ UNCHANGED <<guest, rte, acnt, active, ioenabled, ioisr, tmr, writes>>

-----------------------------------------------------------------------------
(* The vcpus' side.                                                        *)

\* The vcpu executes guest code: it is neither inside vioapic_write nor done
\* with a rendezvous that others still have to run.
Running(c) ==
  /\ c \in active
  /\ wr[c] = "idle"
  /\ rdvby = NoCpu \/ c \in todo

Accept(c) ==
  /\ Running(c)
  /\ ioirr[c] # {}
  /\ \A v \in ioisr[c] : PRIO(Highest(ioirr[c])) > PRIO(v)
  /\ ioirr' = [ioirr EXCEPT ![c] = @ \ {Highest(@)}]
  /\ ioisr' = [ioisr EXCEPT ![c] = @ \cup {Highest(ioirr[c])}]
  /\ UNCHANGED <<guest, rte, rem, acnt, active, ioenabled, tmr, writes>>

\* vioapic_process_eoi: every pin that waits for this vector; the ones still
\* asserted are sent again.
vioapic_process_eoi(v) ==
  LET S == {p \in rem : rte[p].vec = v} IN
  vioapic_send_intr({p \in S : acnt[p] > 0}, rte, rem \ S)

\* vlapic_process_eoi: only a level-triggered vector reaches the I/O APIC.
Eoi(c) ==
  /\ Running(c)
  /\ ioisr[c] # {}
  /\ LET v == Highest(ioisr[c]) IN
     /\ ioisr' = [ioisr EXCEPT ![c] = @ \ {v}]
     /\ IF v \in tmr[c] THEN vioapic_process_eoi(v) ELSE UNCHANGED <<rem, ioirr>>
  /\ UNCHANGED <<guest, rte, acnt, active, ioenabled, tmr, writes>>

\* vlapic_svr_write_handler, as far as delivery is concerned.
SvrWrite(c) ==
  /\ Running(c) /\ guest = "any"
  /\ ioenabled' = IF c \in ioenabled THEN ioenabled \ {c} ELSE ioenabled \cup {c}
  /\ UNCHANGED <<guest, rte, rem, acnt, active, lapics, writes>>

\* vm_activate_cpu.
Activate(c) ==
  /\ c \notin active
  /\ active' = active \cup {c}
  /\ UNCHANGED <<guest, rte, rem, acnt, ioenabled, lapics, writes>>

-----------------------------------------------------------------------------
(* vioapic_write of a redirection entry.                                   *)

\* The writes each kind of guest makes.
Allowed(p, e) ==
  \/ guest = "any"
  \/ /\ \A c \in Cpus : wr[c] = "idle"
     /\ e = [rte[p] EXCEPT !.masked = e.masked]
  \/ /\ \A c \in Cpus : wr[c] = "idle"
     /\ rte[p].masked /\ p \notin rem
     /\ guest = "masked" => e.masked
     /\ e.dest.ids \subseteq active /\ e.dest.ids # {}
     /\ \A q \in Pins \ {p} : rte[q].vec # e.vec

\* Mutant: an asserted pin is not sent when its entry is written.
NoSendAtWrite(p) == UNCHANGED <<rem, ioirr>>

\* The end of vioapic_write: an asserted, unmasked pin whose last interrupt
\* has been EOIed is sent.
SendIfAsserted(p) ==
  IF ~rte'[p].masked /\ p \notin rem /\ acnt[p] > 0
  THEN vioapic_send_intr({p}, rte', rem)
  ELSE UNCHANGED <<rem, ioirr>>

\* A write that changes only the mask is done at once ...
WriteMask(c, p, e) ==
  /\ Running(c)
  /\ e # rte[p] /\ Allowed(p, e)
  /\ e = [rte[p] EXCEPT !.masked = e.masked]
  /\ rte' = [rte EXCEPT ![p] = e]
  /\ SendIfAsserted(p)
  /\ UNCHANGED <<guest, acnt, active, ioenabled, ioisr, tmr, writes>>

\* ... any other unlocks the I/O APIC to rendezvous the vcpus first.
WriteEntry(c, p, e) ==
  /\ Running(c)
  /\ Allowed(p, e)
  /\ e # [rte[p] EXCEPT !.masked = e.masked]
  /\ rte' = [rte EXCEPT ![p] = e]
  /\ wr' = [wr EXCEPT ![c] = "post"]
  /\ wpin' = [wpin EXCEPT ![c] = p]
  /\ UNCHANGED <<guest, rem, acnt, active, ioenabled, lapics, rdvby, todo>>

\* vm_smp_rendezvous of the vcpus active now.
Rendezvous(c) ==
  /\ wr[c] = "post"
  /\ rdvby = NoCpu
  /\ rdvby' = c /\ todo' = active
  /\ wr' = [wr EXCEPT ![c] = "wait"]
  /\ UNCHANGED <<guest, rte, rem, acnt, active, ioenabled, lapics, wpin>>

\* Mutant: a vcpu keeps the level vectors its trigger-mode register has.
TmrKept(c) == tmr[c]

\* The vectors vioapic_update_tmr makes level-triggered in vcpu c.
TmrOf(c) == {rte[p].vec : p \in {q \in Pins : rte[q].level
                                   /\ c \in vlapic_calcdest(rte[q].dest)}}

vioapic_update_tmr(c) ==
  /\ c \in todo
  /\ tmr' = [tmr EXCEPT ![c] = TmrOf(c)]
  /\ todo' = todo \ {c}
  /\ rdvby' = IF todo = {c} THEN NoCpu ELSE rdvby
  /\ UNCHANGED <<guest, rte, rem, acnt, active, ioenabled, ioirr, ioisr, wr, wpin>>

\* The writer goes on when its rendezvous is over.
FinishWrite(c) ==
  /\ wr[c] = "wait" /\ rdvby # c
  /\ wr' = [wr EXCEPT ![c] = "idle"]
  /\ UNCHANGED rte
  /\ SendIfAsserted(wpin[c])
  /\ wpin' = [wpin EXCEPT ![c] = 0]
  /\ UNCHANGED <<guest, acnt, active, ioenabled, ioisr, tmr, rdvby, todo>>

IoNext ==
  \/ \E p \in Pins : vioapic_assert_irq(p) \/ vioapic_deassert_irq(p)
                     \/ vioapic_pulse_irq(p)
  \/ \E c \in Cpus : \/ Accept(c) \/ Eoi(c) \/ SvrWrite(c) \/ Activate(c)
                     \/ Rendezvous(c) \/ vioapic_update_tmr(c) \/ FinishWrite(c)
  \/ \E c \in Cpus, p \in Pins, e \in Entries : WriteMask(c, p, e) \/ WriteEntry(c, p, e)

IoSpec == IoInit /\ [][IoNext]_iovars

-----------------------------------------------------------------------------
(* Properties.                                                             *)

\* The values of the interrupt state; the trigger-mode register and the
\* remote IRR only ever name vectors and pins of level-triggered entries.
IoTypeOK ==
  /\ guest \in Guests
  /\ rem \subseteq Pins
  /\ rte \in [Pins -> Entries \cup {Entry0}]
  /\ acnt \in [Pins -> 0 .. MaxAcnt]
  /\ active \subseteq Cpus /\ ioenabled \subseteq Cpus
  /\ ioirr \in [Cpus -> SUBSET IoVectors] /\ ioisr \in [Cpus -> SUBSET IoVectors]
  /\ tmr \in [Cpus -> SUBSET IoVectors]
  /\ wr \in [Cpus -> {"idle", "post", "wait"}] /\ wpin \in [Cpus -> Pins \cup {0}]
  /\ \A c \in Cpus : wr[c] # "idle" => wpin[c] \in Pins
  /\ rdvby \in Cpus \cup {NoCpu} /\ todo \subseteq Cpus

\* A line that stays asserted is never forgotten: unless a write of its entry
\* is still in progress, an unmasked level-triggered pin that is asserted has
\* its remote IRR set, so the EOI sends it again.
AssertedNotForgotten ==
  \A p \in Pins :
    (acnt[p] > 0 /\ ~rte[p].masked /\ rte[p].level
       /\ \A c \in Cpus : wr[c] # "idle" => wpin[c] # p)
      => p \in rem

\* "previous interrupt has been EOIed" is what a clear remote IRR means: when
\* it is set, some vcpu has the vector pending or in service as a level
\* interrupt, and its EOI will clear it.  Holds for a guest that changes
\* entries only while they are masked and unmasks them afterwards.
RemIrrHasEoi ==
  guest = "masked" =>
    \A p \in rem : \E c \in active : rte[p].vec \in (ioirr[c] \cup ioisr[c]) \cap tmr[c]

-----------------------------------------------------------------------------
(* The invariant behind RemIrrHasEoi, for the guest "masked".              *)

\* The instances that are meant: vcpus are numbered from 0.
IoConstantsOK ==
  /\ NoCpu \in Nat \ {0} /\ Cpus = 0 .. NoCpu - 1
  /\ IoVectors \subseteq 16 .. 255
  /\ Dests \subseteq [phys : BOOLEAN, ids : SUBSET Cpus, low : BOOLEAN]
  /\ MaxAcnt \in Nat

\* One write is in progress at a time; a rendezvous belongs to it.
OneWriter ==
  /\ \A c, d \in Cpus : wr[c] # "idle" /\ wr[d] # "idle" => c = d
  /\ rdvby # NoCpu => rdvby \in Cpus /\ wr[rdvby] = "wait"
  /\ rdvby = NoCpu => todo = {}

\* The entry that is being written is masked and not in service.
WriteMasked ==
  \A c \in Cpus : wr[c] # "idle" => rte[wpin[c]].masked /\ wpin[c] \notin rem

\* Every destination is a set of vcpus that can take the interrupt.
DestLive ==
  /\ ioenabled = Cpus /\ 0 \in active
  /\ \A p \in Pins : rte[p].dest.ids \subseteq active /\ rte[p].dest.ids # {}

\* The trigger-mode registers name the vectors of the level-triggered entries,
\* save for the entry whose write has not yet reached the vcpu.
TmrCurrent ==
  \A p \in Pins : rte[p].level =>
    \A d \in vlapic_calcdest(rte[p].dest) :
      \/ rte[p].vec \in tmr[d]
      \/ \E c \in Cpus : wpin[c] = p /\ (wr[c] = "post" \/ (wr[c] = "wait" /\ d \in todo))

\* A destination of a pin with remote IRR holds its vector.
Held ==
  \A p \in rem :
    /\ rte[p].level
    /\ \E c \in vlapic_calcdest(rte[p].dest) : rte[p].vec \in ioirr[c] \cup ioisr[c]

MaskedInv == OneWriter /\ WriteMasked /\ DestLive /\ TmrCurrent /\ Held
=============================================================================
