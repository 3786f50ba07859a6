------------------------------- MODULE Vlapic -------------------------------
(***************************************************************************)
(* The local APIC of one vcpu (vlapic.c): priorities and the stack of      *)
(* in-service vectors, the software enable bit and the local vector table, *)
(* the error status register, inter-processor interrupts, and the start-up *)
(* of the other processors by INIT and SIPI when the vcpu is the BSP.      *)
(*                                                                         *)
(* The vcpu's own thread writes registers and takes interrupts; device and *)
(* timer threads call vlapic_set_intr_ready and vlapic_fire_lvt at any     *)
(* time, and only they and IPIs add bits to the IRR.  The timer itself is  *)
(* VlapicTimer; here it is one more thread that fires its LVT entry.       *)
(***************************************************************************)
EXTENDS Prio, Sequences, FiniteSets

CONSTANTS
  Vectors,   \* the vectors in use; the ones below 16 are illegal
  Tprs,      \* the values the guest writes to the TPR
  Lvts,      \* the LVT entries in use
  LvtWrites, \* the values the guest writes to LVT entries
  Aps        \* the application processors the BSP may start

LvtNames == {"TIMER", "ERROR", "LINT0", "LINT1", "PMC", "THERMAL", "CMCI"}
Modes == {"FIXED", "NMI", "EXTINT", "OTHER"}

LvtValues == [m : BOOLEAN, vec : Vectors \cup {0}, dm : Modes]
NoLvt == [m |-> TRUE, vec |-> 0, dm |-> "FIXED"]

ASSUME VectorsAssumption == Vectors \subseteq 0 .. 255
ASSUME TprsAssumption == Tprs \subseteq 0 .. 255
ASSUME LvtsAssumption == Lvts \subseteq LvtNames /\ "ERROR" \in Lvts
ASSUME LvtWritesAssumption == LvtWrites \subseteq LvtValues

VARIABLES
  enabled,     \* APIC_SVR_ENABLE of the SVR (and of svr_last)
  tpr, ppr,
  irr, isr,    \* sets of vectors
  stk,         \* isrvec_stk[1 .. isrvec_stk_top]
  lvt,         \* lvt_last, per entry
  esr, esrp,   \* the ESR and esr_pending
  sel,         \* vector vlapic_pending_intr returned to vmx_inject_interrupts, or 0
  fire,        \* LVT value a thread has read in vlapic_trigger_lvt and not yet used
  nmi, extint, \* nmi_pending, extint_pending
  boot,        \* boot_state of each AP
  spun,        \* number of SPINUP_AP exits for each AP
  abort        \* the xhyve_abort reached, or "none"

prio == <<tpr, ppr, irr, isr, stk, sel>>
errs == <<esr, esrp>>
vars == <<enabled, prio, lvt, errs, fire, nmi, extint, boot, spun, abort>>

ISRVEC_STK_SIZE == 17
Legal == {v \in Vectors : v >= 16}

\* vlapic_init and vlapic_reset.
Init ==
  /\ enabled = FALSE
  /\ tpr = 0 /\ ppr = 0
  /\ irr = {} /\ isr = {} /\ stk = << >>
  /\ lvt = [l \in Lvts |-> NoLvt]
  /\ esr = {} /\ esrp = {}
  /\ sel = 0 /\ fire = NoLvt
  /\ nmi = FALSE /\ extint = FALSE
  /\ boot = [a \in Aps |-> "INIT"]
  /\ spun = [a \in Aps |-> 0]
  /\ abort = "none"

-----------------------------------------------------------------------------
(* Priorities.                                                             *)

Top(s) == IF s = << >> THEN 0 ELSE s[Len(s)]

\* The value vlapic_update_ppr computes.
PprOf(t, s) == IF PRIO(t) >= PRIO(Top(s)) THEN t ELSE 16 * PRIO(Top(s))

\* The self-checks of vlapic_update_ppr: nested priorities increase, and the
\* ISR in ascending order is what lies on the stack from its bottom.
StackIncreasing(s) ==
  \A i \in 1 .. Len(s) - 1 : PRIO(s[i]) < PRIO(s[i + 1])

IsrInSync(is, s) ==
  \E n \in 0 .. Len(s) :
    /\ is = {s[i] : i \in 1 .. n}
    /\ \A i, j \in 1 .. n : i < j => s[i] < s[j]

vlapic_update_ppr(t, is, s) ==
  IF ~StackIncreasing(s) THEN abort' = "stack_invariant" /\ UNCHANGED ppr
  ELSE IF ~IsrInSync(is, s) THEN abort' = "isr_out_of_sync" /\ UNCHANGED ppr
  ELSE ppr' = PprOf(t, s) /\ UNCHANGED abort

\* A TPR write or a move to CR8.
vlapic_set_tpr(t) ==
  /\ sel = 0
  /\ tpr # t
  /\ tpr' = t
  /\ vlapic_update_ppr(t, isr, stk)
  /\ UNCHANGED <<enabled, irr, isr, stk, sel, lvt, errs, fire, nmi, extint,
                 boot, spun>>

\* Mutant: any pending vector not below the PPR is offered.
PendingAny ==
  /\ sel = 0
  /\ irr # {}
  /\ PRIO(Highest(irr)) >= PRIO(ppr)
  /\ sel' = Highest(irr)
  /\ UNCHANGED <<enabled, tpr, ppr, irr, isr, stk, lvt, errs, fire, nmi,
                 extint, boot, spun, abort>>

\* vlapic_pending_intr: only the highest vector of the IRR is considered.
vlapic_pending_intr ==
  /\ sel = 0
  /\ irr # {}
  /\ PRIO(Highest(irr)) > PRIO(ppr)
  /\ sel' = Highest(irr)
  /\ UNCHANGED <<enabled, tpr, ppr, irr, isr, stk, lvt, errs, fire, nmi,
                 extint, boot, spun, abort>>

\* vmx_inject_interrupts injects the vector it was given ...
vlapic_intr_accepted ==
  /\ sel # 0
  /\ irr' = irr \ {sel}
  /\ isr' = isr \cup {sel}
  /\ IF Len(stk) + 1 >= ISRVEC_STK_SIZE
     THEN abort' = "stack_overflow" /\ UNCHANGED <<stk, ppr>>
     ELSE stk' = Append(stk, sel) /\ vlapic_update_ppr(tpr, isr', stk')
  /\ sel' = 0
  /\ UNCHANGED <<enabled, tpr, lvt, errs, fire, nmi, extint, boot, spun>>

\* ... or gives up because the guest does not accept interrupts now.
NotInjected ==
  /\ sel # 0
  /\ sel' = 0
  /\ UNCHANGED <<enabled, tpr, ppr, irr, isr, stk, lvt, errs, fire, nmi,
                 extint, boot, spun, abort>>

\* Mutant: the stack of in-service vectors is not popped.
EoiKeepsStack ==
  /\ sel = 0 /\ isr # {}
  /\ isr' = isr \ {Highest(isr)}
  /\ vlapic_update_ppr(tpr, isr', stk)
  /\ UNCHANGED <<enabled, tpr, irr, stk, sel, lvt, errs, fire, nmi, extint,
                 boot, spun>>

\* vlapic_process_eoi; with an empty ISR the EOI is only counted.
vlapic_process_eoi ==
  /\ sel = 0 /\ isr # {}
  /\ IF stk = << >>
     THEN abort' = "eoi_stack_empty" /\ UNCHANGED <<isr, stk, ppr>>
     ELSE /\ isr' = isr \ {Highest(isr)}
          /\ stk' = SubSeq(stk, 1, Len(stk) - 1)
          /\ vlapic_update_ppr(tpr, isr', stk')
  /\ UNCHANGED <<enabled, tpr, irr, sel, lvt, errs, fire, nmi, extint, boot,
                 spun>>

-----------------------------------------------------------------------------
(* Interrupts from elsewhere, and the local vector table.                  *)

\* lapic_set_intr and vlapic_set_intr_ready: vectors below 16 are refused
\* before the local APIC sees them, a disabled APIC drops the others.
Raised(v) == IF enabled /\ v >= 16 THEN irr \cup {v} ELSE irr

lapic_set_intr(v) ==
  /\ irr' = Raised(v)
  /\ UNCHANGED <<enabled, tpr, ppr, isr, stk, sel, lvt, errs, fire, nmi,
                 extint, boot, spun, abort>>

\* vlapic_lvt_write_handler: masked while the APIC is disabled; the timer and
\* error entries have no delivery mode.
LvtWritten(l, val) ==
  [m |-> val.m \/ ~enabled,
   vec |-> val.vec,
   dm |-> IF l \in {"TIMER", "ERROR"} THEN "FIXED" ELSE val.dm]

vlapic_lvt_write_handler(l, val) ==
  /\ sel = 0
  /\ lvt' = [lvt EXCEPT ![l] = LvtWritten(l, val)]
  /\ UNCHANGED <<enabled, prio, errs, fire, nmi, extint, boot, spun, abort>>

\* A write that changes the enable bit; disabling masks every LVT entry.
vlapic_svr_write_handler ==
  /\ sel = 0
  /\ enabled' = ~enabled
  /\ lvt' = IF enabled THEN [l \in Lvts |-> [lvt[l] EXCEPT !.m = TRUE]] ELSE lvt
  /\ UNCHANGED <<prio, errs, fire, nmi, extint, boot, spun, abort>>

\* vlapic_set_error: an error is recorded and the error entry fires; the
\* illegal vector of the error entry itself is one more error.
vlapic_set_error(e) ==
  LET le == lvt["ERROR"] IN
  /\ esrp' = IF ~le.m /\ le.vec < 16 THEN esrp \cup {e, "SEND_ILLEGAL_VECTOR"}
                                     ELSE esrp \cup {e}
  /\ irr' = IF le.m THEN irr ELSE Raised(le.vec)

\* vlapic_trigger_lvt, vlapic_fire_cmci or the timer: with the APIC disabled
\* LINT0 and LINT1 are the INTR and NMI pins; otherwise the entry is read,
\* and a masked one ends vlapic_fire_lvt at once.
vlapic_trigger_lvt(l) ==
  /\ fire = NoLvt
  /\ IF enabled \/ l = "TIMER"
     THEN fire' = (IF lvt[l].m THEN NoLvt ELSE lvt[l]) /\ UNCHANGED <<nmi, extint>>
     ELSE /\ nmi' = (nmi \/ l = "LINT1")
          /\ extint' = (extint \/ l = "LINT0")
          /\ UNCHANGED fire
  /\ UNCHANGED <<enabled, prio, lvt, errs, boot, spun, abort>>

\* vlapic_fire_lvt with the value that was read.
vlapic_fire_lvt ==
  /\ fire # NoLvt
  /\ fire' = NoLvt
  /\ \/ /\ fire.dm = "FIXED" /\ fire.vec < 16
        /\ vlapic_set_error("SEND_ILLEGAL_VECTOR")
        /\ UNCHANGED <<nmi, extint>>
     \/ /\ fire.dm = "FIXED" /\ fire.vec >= 16
        /\ irr' = Raised(fire.vec)
        /\ UNCHANGED <<esrp, nmi, extint>>
     \/ /\ fire.dm # "FIXED"
        /\ nmi' = (nmi \/ fire.dm = "NMI")
        /\ extint' = (extint \/ fire.dm = "EXTINT")
        /\ UNCHANGED <<irr, esrp>>
  /\ UNCHANGED <<enabled, tpr, ppr, isr, stk, sel, lvt, esr, boot, spun, abort>>

vlapic_esr_write_handler ==
  /\ sel = 0
  /\ esr' = esrp /\ esrp' = {}
  /\ UNCHANGED <<enabled, prio, lvt, fire, nmi, extint, boot, spun, abort>>

\* The injection of an NMI or of an interrupt of the 8259.
vm_nmi_clear ==
  /\ nmi
  /\ nmi' = FALSE
  /\ UNCHANGED <<enabled, prio, lvt, errs, fire, extint, boot, spun, abort>>

vm_extint_clear ==
  /\ extint
  /\ extint' = FALSE
  /\ UNCHANGED <<enabled, prio, lvt, errs, fire, nmi, boot, spun, abort>>

-----------------------------------------------------------------------------
(* Inter-processor interrupts.                                             *)

\* A fixed or NMI interrupt to a destination that includes the vcpu itself;
\* what other vcpus receive is lapic_set_intr of theirs.
IcrSelf(mode, v) ==
  /\ sel = 0
  /\ \/ /\ mode = "FIXED" /\ v < 16
        /\ vlapic_set_error("SEND_ILLEGAL_VECTOR")
        /\ UNCHANGED nmi
     \/ /\ mode = "FIXED" /\ v >= 16
        /\ irr' = Raised(v)
        /\ UNCHANGED <<esrp, nmi>>
     \/ /\ mode = "NMI"
        /\ nmi' = TRUE
        /\ UNCHANGED <<irr, esrp>>
  /\ UNCHANGED <<enabled, tpr, ppr, isr, stk, sel, lvt, esr, fire, extint,
                 boot, spun, abort>>

\* Assertion of INIT to an AP.
IcrInit(a) ==
  /\ sel = 0
  /\ boot' = [boot EXCEPT ![a] = IF @ = "INIT" THEN "SIPI" ELSE @]
  /\ UNCHANGED <<enabled, prio, lvt, errs, fire, nmi, extint, spun, abort>>

\* Mutant: a SIPI starts the processor whatever its state.
SipiAlways(a) ==
  /\ sel = 0
  /\ spun[a] < 2
  /\ boot' = [boot EXCEPT ![a] = "RUNNING"]
  /\ spun' = [spun EXCEPT ![a] = @ + 1]
  /\ UNCHANGED <<enabled, prio, lvt, errs, fire, nmi, extint, abort>>

\* SIPI to an AP: returns to userland with SPINUP_AP once.
IcrStartup(a) ==
  /\ sel = 0
  /\ boot[a] = "SIPI"
  /\ boot' = [boot EXCEPT ![a] = "RUNNING"]
  /\ spun' = [spun EXCEPT ![a] = @ + 1]
  /\ UNCHANGED <<enabled, prio, lvt, errs, fire, nmi, extint, abort>>

-----------------------------------------------------------------------------
\* The vcpu's own thread.
GuestWrite ==
  \/ \E t \in Tprs : vlapic_set_tpr(t)
  \/ vlapic_process_eoi
  \/ vlapic_svr_write_handler
  \/ \E l \in Lvts, val \in LvtWrites : vlapic_lvt_write_handler(l, val)
  \/ vlapic_esr_write_handler
  \/ \E m \in {"FIXED", "NMI"}, v \in Vectors : IcrSelf(m, v)
  \/ \E a \in Aps : IcrInit(a) \/ IcrStartup(a)

Inject ==
  \/ vlapic_pending_intr \/ vlapic_intr_accepted \/ NotInjected
  \/ vm_nmi_clear \/ vm_extint_clear

\* Device, timer and other vcpus' threads.
Others ==
  \/ \E v \in Vectors : lapic_set_intr(v)
  \/ \E l \in Lvts : vlapic_trigger_lvt(l)
  \/ vlapic_fire_lvt

Next == abort = "none" /\ (GuestWrite \/ Inject \/ Others)

Spec == Init /\ [][Next]_vars

-----------------------------------------------------------------------------
(* Properties.                                                             *)

TypeOK ==
  /\ enabled \in BOOLEAN
  /\ tpr \in 0 .. 255 /\ ppr \in 0 .. 255
  /\ irr \subseteq Legal /\ isr \subseteq Legal
  /\ stk \in Seq(Legal)
  /\ lvt \in [Lvts -> LvtValues]
  /\ esr \subseteq {"SEND_ILLEGAL_VECTOR"} /\ esrp \subseteq {"SEND_ILLEGAL_VECTOR"}
  /\ sel \in Legal \cup {0}
  /\ fire \in LvtValues
  /\ nmi \in BOOLEAN /\ extint \in BOOLEAN
  /\ boot \in [Aps -> {"INIT", "SIPI", "RUNNING"}]
  /\ spun \in [Aps -> Nat]
  /\ abort \in {"none", "stack_invariant", "isr_out_of_sync", "stack_overflow",
                "eoi_stack_empty"}

\* None of the xhyve_abort self-checks of vlapic_update_ppr,
\* vlapic_intr_accepted and vlapic_process_eoi is ever reached: whatever the
\* guest writes and whenever interrupts arrive, in-service vectors nest in
\* strictly increasing priority, the ISR and isrvec_stk agree, and the stack
\* of 17 entries ("at most one vector injected per level") does not overflow.
NoApicAbort == abort = "none"

\* The cached PPR, which decides what may be injected, is never stale: it is
\* the priority of the TPR and of the innermost interrupt in service.
PprCurrent == ppr = PprOf(tpr, stk)

\* vlapic_svr_write_handler "mask[s] all the LVT entries": no LVT entry of a
\* disabled APIC is unmasked, by whatever order of LVT and SVR writes.
DisabledMasksLvts == ~enabled => \A l \in Lvts : lvt[l].m

\* A vector goes in service only above the TPR and everything in service,
\* although vector and PPR were read some time before it is accepted.
AcceptsByPriority ==
  [][\A v \in isr' \ isr :
        /\ PRIO(v) > PRIO(tpr)
        /\ \A u \in isr : PRIO(v) > PRIO(u)]_vars

\* "Ignore SIPIs in any state other than wait-for-SIPI": the guest is given
\* each AP once; a second SPINUP_AP would fail vcpu_add's assertion that
\* vm_activate_cpu succeeds.
SpinsUpOnce == \A a \in Aps : spun[a] <= 1

(* The inductive invariant of the proofs.                                  *)

\* Each in-service interrupt nests one priority level higher at least.
StackFits(s, is) ==
  /\ \A i, j \in 1 .. Len(s) : i < j => PRIO(s[i]) < PRIO(s[j])
  /\ \A i \in 1 .. Len(s) : PRIO(s[i]) >= i
  /\ is = {s[i] : i \in 1 .. Len(s)}

StackInv == StackFits(stk, isr)

\* A vector on its way to injection still beats the PPR.
SelInv == sel # 0 => sel \in irr /\ PRIO(sel) > PRIO(ppr)

BootInv == \A a \in Aps : spun[a] <= (IF boot[a] = "RUNNING" THEN 1 ELSE 0)

IInv == TypeOK /\ StackInv /\ SelInv /\ PprCurrent /\ NoApicAbort
        /\ DisabledMasksLvts /\ BootInv
=============================================================================
