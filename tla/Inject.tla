------------------------------- MODULE Inject -------------------------------
(***************************************************************************)
(* Event injection into one vcpu: how exceptions, NMIs and interrupts get  *)
(* from their pending flags (vmm.c) into the VMCS (vmx_inject_interrupts), *)
(* what a VM exit gives back (vmx_exit_process), and the interrupt- and    *)
(* NMI-window exits that make up for what cannot be injected yet.          *)
(*                                                                         *)
(* The vcpu's thread runs the loop of vmx_run; other threads set a pending *)
(* flag and then notify the vcpu.  What the guest and the processor do     *)
(* between VM entry and VM exit is external: the processor delivers the    *)
(* injected event or exits while delivering it, the guest changes RFLAGS   *)
(* and its interruptibility, and an open window or a host interrupt ends   *)
(* the guest's turn.  A maskable interrupt is one flag, intr: the local    *)
(* APIC has a vector above the PPR (Vlapic); ext is an ExtINT (Vatpic).    *)
(***************************************************************************)
EXTENDS Naturals

CONSTANT Trace    \* trace_guest_exceptions: every exception exits

VARIABLES
  pc,               \* where the thread is in vmx_run
  entry,            \* VMCS_ENTRY_INTR_INFO
  exitintinfo,      \* vcpu->exitintinfo
  exc,              \* the exception that is pending, or "none"
  nmi_pending, ext, intr,   \* nmi_pending, extint_pending, vlapic_pending_intr
  nmiwin, intwin,   \* window exiting controls, as in cap[].proc_ctls
  nmib, shadow,     \* guest interruptibility: NMI blocking; STI or MOV SS
  iflag,            \* RFLAGS.IF
  moved,            \* nextrip differs from the RIP to run at
  kick,             \* a host interrupt ends the guest's turn
  post,             \* a thread has set a flag and not yet notified
  susp,             \* vm->suspend
  owed,             \* events accepted for injection whose handler has not begun
  failed             \* the KASSERT that failed, or "none"

pend == <<nmi_pending, ext, intr>>
win == <<nmiwin, intwin>>
gstate == <<nmib, shadow, iflag>>
injectvars == <<pc, entry, exitintinfo, exc, pend, win, gstate, moved, kick, post,
          susp, owed, failed>>

Exceptions == {"BENIGN", "CONTRIBUTORY", "PAGEFAULT"}
Events == Exceptions \cup {"DF", "NMI", "HWINTR"}

\* vmx_vcpu_init and vmx_reset: nextrip is ~0, interrupts are disabled.
InjectInit ==
  /\ pc = "info"
  /\ entry = "none" /\ exitintinfo = "none" /\ exc = "none"
  /\ nmi_pending = FALSE /\ ext = FALSE /\ intr = FALSE
  /\ nmiwin = FALSE /\ intwin = FALSE
  /\ nmib = FALSE /\ shadow = "none" /\ iflag = FALSE
  /\ moved = TRUE /\ kick = FALSE /\ post = FALSE /\ susp = FALSE
  /\ owed = {} /\ failed = "none"

-----------------------------------------------------------------------------
(* Other threads.                                                          *)

\* vm_inject_nmi, vm_inject_extint, vlapic_set_intr_ready ...
Post ==
  /\ ~post
  /\ \/ ~nmi_pending /\ nmi_pending' = TRUE /\ UNCHANGED <<ext, intr>>
     \/ ~ext /\ ext' = TRUE /\ UNCHANGED <<nmi_pending, intr>>
     \/ ~intr /\ intr' = TRUE /\ UNCHANGED <<nmi_pending, ext>>
  /\ post' = TRUE
  /\ UNCHANGED <<pc, entry, exitintinfo, exc, win, gstate, moved, kick, susp,
                 owed, failed>>

\* ... and vcpu_notify_event, which interrupts a running vcpu; between an exit
\* and the next injection the vcpu may be frozen instead.
Notify ==
  /\ post
  /\ post' = FALSE
  /\ kick' \in (IF pc = "info" THEN {kick, TRUE} ELSE {TRUE})
  /\ UNCHANGED <<pc, entry, exitintinfo, exc, pend, win, gstate, moved, susp,
                 owed, failed>>

-----------------------------------------------------------------------------
(* vmx_inject_interrupts.                                                  *)

\* nested_fault for an exception e2 met while e1 was delivered; "triple" is
\* the suspension of the machine.
nested_fault(e1, e2) ==
  IF e1 = "DF" THEN "triple"
  ELSE IF \/ e1 = "CONTRIBUTORY" /\ e2 = "CONTRIBUTORY"
          \/ e1 = "PAGEFAULT" /\ e2 # "BENIGN" THEN "DF"
  ELSE e2

\* The event vm_entry_intinfo returns.
vm_entry_intinfo ==
  IF exc = "none" THEN exitintinfo
  ELSE IF exitintinfo = "none" THEN exc
  ELSE nested_fault(exitintinfo, exc)

\* The beginning of vmx_inject_interrupts; a fault met on the way supersedes
\* the event that was being delivered.
InjectInfo ==
  LET e == vm_entry_intinfo IN
  /\ pc = "info"
  /\ pc' = "nmi"
  /\ shadow' = IF moved THEN "none" ELSE shadow
  /\ exitintinfo' = "none" /\ exc' = "none"
  /\ IF e \in Events /\ entry # "none"
     THEN failed' = "cannot inject pending exception" /\ UNCHANGED entry
     ELSE entry' = (IF e \in Events THEN e ELSE entry) /\ UNCHANGED failed
  /\ susp' = (susp \/ e = "triple")
  /\ owed' = IF exc = "none" THEN owed
             ELSE (owed \ {exitintinfo}) \cup (IF e = "triple" THEN {} ELSE {e})
  /\ UNCHANGED <<pend, win, nmib, iflag, moved, kick, post>>

\* vmx_inject_nmi with its two checks.
vmx_inject_nmi ==
  IF nmib \/ shadow = "movss"
  THEN failed' = "invalid guest interruptibility-state" /\ UNCHANGED <<entry, nmi_pending, owed>>
  ELSE IF entry # "none"
  THEN failed' = "invalid VM-entry interruption information" /\ UNCHANGED <<entry, nmi_pending, owed>>
  ELSE /\ entry' = "NMI" /\ nmi_pending' = FALSE
       /\ owed' = owed \cup {"NMI"}
       /\ UNCHANGED failed

\* Mutant: an NMI that cannot be injected waits for the next exit.
InjectNmiNoWindow ==
  /\ pc = "nmi" /\ pc' = "intr"
  /\ IF nmi_pending /\ shadow = "none" /\ ~nmib /\ entry = "none"
     THEN vmx_inject_nmi
     ELSE UNCHANGED <<entry, nmi_pending, owed, failed>>
  /\ UNCHANGED <<exitintinfo, exc, ext, intr, win, gstate, moved, kick, post, susp>>

\* The NMI part: injected, or the window exit is asked for.
InjectNmi ==
  /\ pc = "nmi" /\ pc' = "intr"
  /\ IF nmi_pending /\ shadow = "none" /\ ~nmib /\ entry = "none"
     THEN vmx_inject_nmi /\ UNCHANGED nmiwin
     ELSE nmiwin' = (nmiwin \/ nmi_pending) /\ UNCHANGED <<entry, nmi_pending, owed, failed>>
  /\ UNCHANGED <<exitintinfo, exc, ext, intr, intwin, gstate, moved, kick, post, susp>>

\* The interrupt part.  After an ExtINT the 8259 may have posted another one,
\* and a vector of the local APIC may still wait: the window exit is asked for.
InjectIntr ==
  /\ pc = "intr" /\ pc' = "check"
  /\ IF intwin \/ ~(ext \/ intr) THEN UNCHANGED <<entry, ext, intr, intwin, owed>>
     ELSE IF iflag /\ shadow = "none" /\ entry = "none"
     THEN /\ entry' = "HWINTR" /\ owed' = owed \cup {"HWINTR"}
          /\ IF ext THEN ext' \in BOOLEAN /\ intwin' = TRUE /\ UNCHANGED intr
                    ELSE intr' = FALSE /\ UNCHANGED <<ext, intwin>>
     ELSE intwin' = TRUE /\ UNCHANGED <<entry, ext, intr, owed>>
  /\ UNCHANGED <<exitintinfo, exc, nmi_pending, nmiwin, gstate, moved, kick, post, susp, failed>>

\* vmx_run: a suspended machine and a rendezvous end the attempt with the
\* event left in the VMCS; after a rendezvous vm_run tries again.
CheckCookies ==
  /\ pc = "check"
  /\ \/ susp /\ pc' = "suspended"
     \/ ~susp /\ pc' \in {"info", "entering"}
  /\ UNCHANGED <<entry, exitintinfo, exc, pend, win, gstate, moved, kick, post,
                 susp, owed, failed>>

-----------------------------------------------------------------------------
(* The processor and the guest (external).                                 *)

\* VM entry: the injected event reaches its handler.
DeliverEvent ==
  /\ pc = "entering"
  /\ pc' = "guest"
  /\ entry' = "none" /\ owed' = owed \ {entry}
  /\ nmib' = (nmib \/ entry = "NMI")
  /\ shadow' = IF entry = "none" THEN shadow ELSE "none"
  /\ iflag' \in (IF entry = "none" THEN {iflag} ELSE {FALSE, iflag})
  /\ UNCHANGED <<exitintinfo, exc, pend, win, moved, kick, post, susp, failed>>

\* Some processors keep the NMI window closed after STI, others do not.
NmiWindowOpen == nmiwin /\ ~nmib /\ shadow # "movss"
IntWindowOpen == intwin /\ iflag /\ shadow = "none"

Executes ==
  /\ pc = "guest" /\ ~kick
  /\ NmiWindowOpen => shadow = "sti"
  /\ ~IntWindowOpen

\* The guest executes one instruction.
Instruction ==
  /\ Executes
  /\ \/ iflag' = TRUE /\ shadow' = (IF iflag THEN "none" ELSE "sti") /\ nmib' = nmib
     \/ iflag' = FALSE /\ shadow' = "none" /\ nmib' = nmib
     \/ iflag' = iflag /\ shadow' = "movss" /\ nmib' = nmib
     \/ iflag' \in BOOLEAN /\ shadow' = "none" /\ nmib' = FALSE       \* IRET
  /\ UNCHANGED <<pc, entry, exitintinfo, exc, pend, win, moved, kick, post,
                 susp, owed, failed>>

-----------------------------------------------------------------------------
(* vmx_exit_process.                                                       *)

\* An external interrupt of the host.
ExitExtIntr ==
  /\ pc = "guest" /\ kick
  /\ pc' = "info" /\ kick' = FALSE /\ moved' = FALSE
  /\ UNCHANGED <<entry, exitintinfo, exc, pend, win, gstate, post, susp, owed, failed>>

\* vmx_clear_int_window_exiting.
ExitIntWindow ==
  /\ pc = "guest" /\ IntWindowOpen
  /\ pc' = "info" /\ intwin' = FALSE /\ moved' = FALSE
  /\ UNCHANGED <<entry, exitintinfo, exc, pend, nmiwin, gstate, kick, post, susp,
                 owed, failed>>

\* The NMI is injected from the exit; vmx_inject_interrupts follows.
ExitNmiWindow ==
  /\ pc = "guest" /\ NmiWindowOpen
  /\ pc' = "info" /\ nmiwin' = FALSE /\ moved' = FALSE
  /\ IF nmi_pending THEN vmx_inject_nmi ELSE UNCHANGED <<entry, nmi_pending, owed, failed>>
  /\ UNCHANGED <<exitintinfo, exc, ext, intr, intwin, gstate, kick, post, susp>>

\* vm_inject_exception: only one may be pending.
vm_inject_exception(e) ==
  IF exc # "none"
  THEN failed' = "vm_inject_exception error" /\ UNCHANGED <<exc, shadow>>
  ELSE exc' = e /\ shadow' = "none" /\ UNCHANGED failed

\* An exit of an instruction that is emulated, in vmx_exit_process, vm_run or
\* hyperkit: it completes (an EOI, a TPR or a mask change what the APICs have
\* to offer) or faults.
ExitEmulated ==
  /\ Executes
  /\ pc' = "info"
  /\ \/ /\ moved' = TRUE
        /\ intr' \in BOOLEAN
        /\ UNCHANGED <<exc, shadow, failed>>
     \/ /\ moved' = FALSE
        /\ \E e \in Exceptions : vm_inject_exception(e)
        /\ UNCHANGED intr
  /\ UNCHANGED <<entry, exitintinfo, nmi_pending, ext, win, nmib, iflag, kick, post,
                 susp, owed>>

\* An intercepted exception is reflected; a fault of IRET has unblocked NMIs,
\* which vmx_restore_nmi_blocking undoes.
ExitException ==
  /\ Executes /\ Trace
  /\ pc' = "info" /\ moved' = FALSE
  /\ \E e \in Exceptions : vm_inject_exception(e)
  /\ UNCHANGED <<entry, exitintinfo, pend, win, nmib, iflag, kick, post, susp, owed>>

\* Mutant: NMI blocking stays on when the delivery of an NMI is interrupted.
VectoringKeepsBlocking(taskswitch) == nmib \/ entry = "NMI"

\* NMI blocking after an exit during the delivery of the entry event.
NmiBlockingAfter(taskswitch) ==
  IF entry = "NMI" THEN taskswitch ELSE nmib

\* An exit while the injected event was being delivered: vm_exit_intinfo keeps
\* the event.  It is an EPT fault or an emulated access (which resumes or
\* faults), an intercepted exception, or a task switch through the IDT, which
\* ends the event if it succeeds.
ExitVectoring(taskswitch) ==
  /\ pc = "entering" /\ entry # "none"
  /\ pc' = "info" /\ entry' = "none"
  /\ nmib' = NmiBlockingAfter(taskswitch)
  /\ \/ /\ exitintinfo' = IF taskswitch THEN "none" ELSE entry
        /\ owed' = IF taskswitch THEN owed \ {entry} ELSE owed
        /\ moved' = taskswitch
        /\ UNCHANGED <<exc, shadow, failed>>
     \/ /\ exitintinfo' = entry
        /\ \E e \in Exceptions : vm_inject_exception(e)
        /\ moved' = FALSE
        /\ UNCHANGED owed
  /\ UNCHANGED <<pend, win, iflag, kick, post, susp>>

InjectNext ==
  /\ failed = "none"
  /\ \/ Post \/ Notify
     \/ InjectInfo \/ InjectNmi \/ InjectIntr \/ CheckCookies
     \/ DeliverEvent \/ Instruction
     \/ ExitExtIntr \/ ExitIntWindow \/ ExitNmiWindow \/ ExitEmulated \/ ExitException
     \/ \E ts \in BOOLEAN : ExitVectoring(ts)

InjectSpec == InjectInit /\ [][InjectNext]_injectvars

-----------------------------------------------------------------------------
(* Properties.                                                             *)

InjectTypeOK ==
  /\ pc \in {"info", "nmi", "intr", "check", "entering", "guest", "suspended"}
  /\ entry \in Events \cup {"none"} /\ exitintinfo \in Events \cup {"none"}
  /\ exc \in Exceptions \cup {"none"}
  /\ nmi_pending \in BOOLEAN /\ ext \in BOOLEAN /\ intr \in BOOLEAN
  /\ nmiwin \in BOOLEAN /\ intwin \in BOOLEAN
  /\ nmib \in BOOLEAN /\ iflag \in BOOLEAN
  /\ shadow \in {"none", "sti", "movss"}
  /\ moved \in BOOLEAN /\ kick \in BOOLEAN /\ post \in BOOLEAN /\ susp \in BOOLEAN
  /\ owed \subseteq Events

\* None of the KASSERTs on the way fails: the VM-entry field is never valid
\* when an exception or an NMI is written to it, although entries are aborted
\* with an event in it and NMIs are injected from an exit; no second exception
\* is raised over a pending one.
NoInjectAbort == failed = "none"

\* The checks of VM entry on the injected event hold, or hv_vcpu_run fails and
\* the process ends with "vmentry error": an interrupt only with RFLAGS.IF and
\* no shadow, an NMI only without blocking.
EntryIsLegal ==
  pc = "entering" =>
    /\ entry = "HWINTR" => iflag /\ shadow = "none"
    /\ entry = "NMI" => ~nmib /\ shadow # "movss"

\* Nothing pending is forgotten: once the guest is entered, an NMI or an
\* interrupt whose poster has notified the vcpu has its window exit armed or a
\* host interrupt on the way, so it is looked at again at the first
\* instruction that can take it.
NothingForgotten ==
  (pc \in {"entering", "guest"} /\ ~post) =>
    /\ nmi_pending => nmiwin \/ kick
    /\ ext \/ intr => intwin \/ kick

\* "VM exits that can be triggered during event delivery need to be handled
\* specially by re-injecting the event": an event that was taken from the APIC,
\* the 8259 or nmi_pending is in the VMCS or in exitintinfo until its handler
\* begins, its task switch is done or an exception supersedes it.
EventKept == owed \subseteq {entry, exitintinfo}

\* Both together: no event is lost between its pending flag and its handler.
NoEventLost == NothingForgotten /\ EventKept

\* The KASSERTs and the processor's checks together.
EntryLegal == NoInjectAbort /\ EntryIsLegal

-----------------------------------------------------------------------------
(* The inductive invariant.                                                *)

\* A pending exception and an interrupted event exist only between an exit
\* and the next vmx_inject_interrupts, and the VM-entry field is then free.
PendingAtInfo ==
  /\ pc # "info" => exc = "none" /\ exitintinfo = "none"
  /\ entry # "none" => exc = "none" /\ exitintinfo = "none"

\* The field is free while the guest runs.
EntryConsumed == pc = "guest" => entry = "none"

\* An event that is written, or will be written again, could be delivered
\* when it was taken, and nothing has changed the guest since: an NMI whose
\* delivery blocks NMIs again has been superseded by an exception.
StillLegal ==
  /\ entry = "HWINTR" \/ exitintinfo = "HWINTR" => iflag /\ shadow = "none"
  /\ entry = "NMI" => ~nmib /\ shadow # "movss"
  /\ exitintinfo = "NMI" /\ exc = "none" => ~nmib /\ shadow # "movss"

\* What InjectNmi and InjectIntr have seen to.
NmiSeen == (pc \in {"intr", "check", "entering", "guest"} /\ ~post) => (nmi_pending => nmiwin \/ kick)
IntrSeen == (pc \in {"check", "entering", "guest"} /\ ~post) => (ext \/ intr => intwin \/ kick)

InjectInv ==
  /\ InjectTypeOK /\ NoInjectAbort /\ EventKept
  /\ PendingAtInfo /\ EntryConsumed /\ StillLegal /\ NmiSeen /\ IntrSeen
=============================================================================
