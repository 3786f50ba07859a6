------------------------------ MODULE VcpuRun ------------------------------
(***************************************************************************)
(* The vcpu threads of one virtual machine: the run loop (vm_run, vmx_run, *)
(* vcpu_loop), hard and soft halts, suspension of the machine and exit of  *)
(* the process, the all-vcpu rendezvous, the notification of a vcpu, and   *)
(* pausing by SIGUSR1/SIGUSR2.                                             *)
(*                                                                         *)
(* One thread per activated vcpu; pc[c] is the point in the code the       *)
(* thread of vcpu c has reached.  A step is what the code does between two *)
(* points where another thread can observe or change what it uses.  The    *)
(* vcpu lock is held across steps only at the points of Locked; everywhere *)
(* else a step takes and releases the locks it needs.  A thread blocked on *)
(* a condition variable is in `woken' once that variable has been          *)
(* signalled.                                                              *)
(***************************************************************************)
EXTENDS Naturals, FiniteSets

CONSTANTS
  NCpu,       \* guest_ncpus
  Exits,      \* the exits guest code may cause
  Events,     \* the events devices may raise: subset of {"NMI", "INTR"}
  Signals,    \* TRUE when SIGUSR1/SIGUSR2 may arrive
  MaxWrites   \* bound on writes of I/O APIC redirection entries

GuestExits == {"RESET", "POWEROFF", "TRIPLEFAULT", "HLT_OFF", "HLT_ON",
               "IOAPIC", "SPINUP", "OTHER"}

ASSUME NCpuAssumption == NCpu \in Nat \ {0}
ASSUME ExitsAssumption == Exits \subseteq GuestExits
ASSUME EventsAssumption == Events \subseteq {"NMI", "INTR"}
ASSUME SignalsAssumption == Signals \in BOOLEAN
ASSUME MaxWritesAssumption == MaxWrites \in Nat

Cpus == 0 .. NCpu - 1
BSP == 0

VARIABLES
  state,      \* vcpu[c].state
  pc, ret,    \* where the thread of c is; where vm_handle_rendezvous returns to
  cur,        \* index of the notification loop the thread of c is in
  code,       \* exit code of the last VMRUN of c
  active, suspended, halted, suspend,     \* of struct vm
  rfunc, req, done, dest,                 \* the rendezvous; dest[c] is c's argument
  rtbl, wver, tmr,  \* number of RTE writes; number of c's write; what c's TMR reflects
  evt,        \* pending NMI / interrupt of c
  kick,       \* vcpus with an hv_vcpu_interrupt outstanding
  woken,      \* threads whose condition variable was signalled
  dev,        \* vcpu a device thread has yet to notify, or NCpu
  paused, memprot,  \* hv_is_paused; guest memory is protected
  cpumask,    \* vcpus with a thread, as hyperkit.c counts them
  exit        \* how the process ended, or "none"

thread == <<pc, ret, cur, code>>
rdvv == <<rfunc, req, done, dest, rtbl, wver, tmr>>
pausev == <<paused, memprot>>
vars == <<state, thread, active, suspended, halted, suspend, rdvv, evt, kick,
          woken, dev, pausev, cpumask, exit>>

VcpuStates == {"IDLE", "FROZEN", "RUNNING", "SLEEPING"}
SuspendHow == {"RESET", "POWEROFF", "HALT", "TRIPLEFAULT"}
Codes == GuestExits \cup {"NONE", "HANDLED", "SUSPENDED", "RENDEZVOUS"}
\* exit() by vmexit_suspend, the error path of vcpu_loop, and the assertions
Aborts == {"vm_run_error", "abort_state", "kassert_halted",
           "kassert_rendezvous", "assert_ealready", "abort_delete"}

\* The points of a vcpu thread, by the state its vcpu is in there.
IdlePcs == {"none", "create", "user", "user_run", "susp_u", "notify_u",
            "spawn", "del", "sig", "bsp_chk", "bsp_wait", "gone"}
RunningPcs == {"inject", "susp_r", "notify_r", "chk_susp", "chk_rdv",
               "exit_rdv", "guest", "chk_pause", "leave"}
SleepingPcs == {"hlt_presleep", "hlt_wait", "sus_presleep", "sus_wait"}
FrozenPcs == {"frozen", "pause_wait", "dispatch", "hlt", "hlt_check",
              "hlt_cmp", "susp_f", "notify_f", "sus", "sus_check",
              "notify_s", "rtew", "rdv_dest", "rdv_init", "notify_v",
              "rdv", "rdv_wait", "rdv_ret", "retu"}
Pcs == IdlePcs \cup RunningPcs \cup SleepingPcs \cup FrozenPcs

Goto(c, p) == pc' = [pc EXCEPT ![c] = p]
Alive == exit = "none"
At(c, p) == Alive /\ pc[c] = p

\* Only vm_handle_hlt keeps the vcpu lock over a step of another thread.
Locked(c) == pc[c] \in {"hlt_check", "hlt_cmp"}

Init ==
  /\ state = [c \in Cpus |-> "IDLE"]
  /\ pc = [c \in Cpus |-> IF c = BSP THEN "create" ELSE "none"]
  /\ ret = [c \in Cpus |-> "frozen"]
  /\ cur = [c \in Cpus |-> 0]
  /\ code = [c \in Cpus |-> "NONE"]
  /\ active = {BSP}
  /\ suspended = {} /\ halted = {} /\ suspend = "NONE"
  /\ rfunc = FALSE /\ req = {} /\ done = {}
  /\ dest = [c \in Cpus |-> {}]
  /\ rtbl = 0
  /\ wver = [c \in Cpus |-> 0]
  /\ tmr = [c \in Cpus |-> 0]
  /\ evt = [c \in Cpus |-> {}]
  /\ kick = {} /\ woken = {} /\ dev = NCpu
  /\ paused = FALSE /\ memprot = FALSE
  /\ cpumask = {BSP}
  /\ exit = "none"

-----------------------------------------------------------------------------
(* Vcpu states and notification.                                           *)

\* The transitions vcpu_set_state_locked allows to a caller that does not
\* come from the idle state.
vcpu_set_state_locked(old, new) ==
  /\ old # "IDLE"
  /\ (old = "FROZEN") # (new = "FROZEN")

\* vcpu_require_state: move to `new' and continue at p, or abort.
vcpu_require_state(c, new, p) ==
  IF vcpu_set_state_locked(state[c], new)
  THEN /\ state' = [state EXCEPT ![c] = new]
       /\ Goto(c, p)
       /\ UNCHANGED exit
  ELSE /\ exit' = "abort_state"
       /\ UNCHANGED <<state, pc>>

\* vcpu_freeze(c, TRUE): from the idle state only; it blocks otherwise.
vcpu_freeze(c, p) ==
  /\ state[c] = "IDLE"
  /\ state' = [state EXCEPT ![c] = "FROZEN"]
  /\ Goto(c, p)

\* pthread_cond_signal reaches a thread only when it already waits.
Signal(c) ==
  woken' = IF pc[c] \in {"hlt_wait", "sus_wait"} THEN woken \cup {c} ELSE woken

vcpu_notify_event(c) ==
  /\ ~Locked(c)
  /\ kick' = IF state[c] = "RUNNING" THEN kick \cup {c} ELSE kick
  /\ IF state[c] = "SLEEPING" THEN Signal(c) ELSE UNCHANGED woken

\* The loop "for i < VM_MAXCPU: if i in S, vcpu_notify_event(i)" of thread c
\* at point p, continuing at q.
NotifyLoop(c, p, S, q) ==
  /\ At(c, p)
  /\ IF cur[c] = NCpu
     THEN Goto(c, q) /\ cur' = [cur EXCEPT ![c] = 0] /\ UNCHANGED <<kick, woken>>
     ELSE /\ IF cur[c] \in S
             THEN vcpu_notify_event(cur[c])
             ELSE UNCHANGED <<kick, woken>>
          /\ cur' = [cur EXCEPT ![c] = @ + 1]
          /\ UNCHANGED pc
  /\ UNCHANGED <<state, ret, code, active, suspended, halted, suspend, rdvv,
                 evt, dev, pausev, cpumask, exit>>

-----------------------------------------------------------------------------
(* Suspension of the virtual machine.                                      *)

How(c) == IF code[c] = "HLT_OFF" THEN "HALT" ELSE code[c]

\* vm_suspend of thread c at p: the first caller notifies every active vcpu
\* (at q), a later one gets EALREADY.  The callers in pm.c and atkbdc.c
\* assert(error == 0 || errno == EALREADY), and vm_suspend does not set errno.
vm_suspend(c, p, q, back) ==
  /\ At(c, p)
  /\ IF suspend = "NONE"
     THEN suspend' = How(c) /\ Goto(c, q) /\ UNCHANGED exit
     ELSE /\ UNCHANGED suspend
          /\ IF p = "susp_u"
             THEN exit' = "assert_ealready" /\ UNCHANGED pc
             ELSE Goto(c, back) /\ UNCHANGED exit
  /\ UNCHANGED <<state, ret, cur, code, active, suspended, halted, rdvv, evt,
                 kick, woken, dev, pausev, cpumask>>

SuspendUser(c) == vm_suspend(c, "susp_u", "notify_u", "user_run")
SuspendHalt(c) == vm_suspend(c, "susp_f", "notify_f", "frozen")
SuspendFault(c) == vm_suspend(c, "susp_r", "notify_r", "chk_susp")
NotifyUser(c) == NotifyLoop(c, "notify_u", active, "user_run")
NotifyHalt(c) == NotifyLoop(c, "notify_f", active, "frozen")
NotifyFault(c) == NotifyLoop(c, "notify_r", active, "chk_susp")

\* vm_handle_suspend: record the vcpu, then wait for all the active ones,
\* answering a rendezvous meanwhile.
HandleSuspend(c) ==
  /\ At(c, "sus")
  /\ suspended' = suspended \cup {c}
  /\ Goto(c, "sus_check")
  /\ UNCHANGED <<state, ret, cur, code, active, halted, suspend, rdvv, evt,
                 kick, woken, dev, pausev, cpumask, exit>>

\* Mutant: a vcpu does not wait for the other active vcpus.
SuspendNoWait(c) ==
  /\ At(c, "sus_check")
  /\ Goto(c, "notify_s")
  /\ UNCHANGED <<state, ret, exit, cur, code, active, suspended, halted,
                 suspend, rdvv, evt, kick, woken, dev, pausev, cpumask>>

\* Mutant: a suspended vcpu does not answer a rendezvous while it waits.
SuspendNoRendezvous(c) ==
  /\ At(c, "sus_check")
  /\ \/ /\ suspended = active
        /\ Goto(c, "notify_s")
        /\ UNCHANGED <<state, exit>>
     \/ /\ suspended # active
        /\ vcpu_require_state(c, "SLEEPING", "sus_presleep")
  /\ UNCHANGED <<ret, cur, code, active, suspended, halted, suspend, rdvv, evt,
                 kick, woken, dev, pausev, cpumask>>


SuspendCheck(c) ==
  /\ At(c, "sus_check")
  /\ \/ /\ suspended = active
        /\ Goto(c, "notify_s")
        /\ UNCHANGED <<state, ret, exit>>
     \/ /\ suspended # active /\ ~rfunc
        /\ vcpu_require_state(c, "SLEEPING", "sus_presleep")
        /\ UNCHANGED ret
     \/ /\ suspended # active /\ rfunc
        /\ Goto(c, "rdv")
        /\ ret' = [ret EXCEPT ![c] = "sus_check"]
        /\ UNCHANGED <<state, exit>>
  /\ UNCHANGED <<cur, code, active, suspended, halted, suspend, rdvv, evt,
                 kick, woken, dev, pausev, cpumask>>

\* After the wait every suspended vcpu is woken and the exit goes to userland.
NotifySuspended(c) == NotifyLoop(c, "notify_s", suspended, "retu")

\* pthread_cond_timedwait_relative_np is entered after the vcpu lock is
\* released, and returns when signalled or after one second.
Sleep(c) ==
  /\ Alive
  /\ \/ pc[c] = "hlt_presleep" /\ Goto(c, "hlt_wait")
     \/ pc[c] = "sus_presleep" /\ Goto(c, "sus_wait")
  /\ UNCHANGED <<state, ret, cur, code, active, suspended, halted, suspend,
                 rdvv, evt, kick, woken, dev, pausev, cpumask, exit>>

Wake(c) ==
  /\ Alive
  /\ \/ pc[c] = "hlt_wait" /\ vcpu_require_state(c, "FROZEN", "hlt_check")
     \/ pc[c] = "sus_wait" /\ vcpu_require_state(c, "FROZEN", "sus_check")
  /\ woken' = woken \ {c}
  /\ UNCHANGED <<ret, cur, code, active, suspended, halted, suspend, rdvv,
                 evt, kick, dev, pausev, cpumask>>

-----------------------------------------------------------------------------
(* Halts.                                                                  *)

HltEnter(c) ==
  /\ At(c, "hlt")
  /\ IF c \in halted
     THEN exit' = "kassert_halted" /\ UNCHANGED pc
     ELSE Goto(c, "hlt_check") /\ UNCHANGED exit
  /\ UNCHANGED <<state, ret, cur, code, active, suspended, halted, suspend,
                 rdvv, evt, kick, woken, dev, pausev, cpumask>>

\* Mutant: a halting vcpu ignores that the machine is suspended.
HltIgnoresSuspend(c) ==
  rfunc \/ "NMI" \in evt[c] \/ (code[c] = "HLT_ON" /\ "INTR" \in evt[c])

\* Mutant: a halting vcpu ignores pending interrupts.
HltIgnoresIntr(c) == rfunc \/ suspend # "NONE" \/ "NMI" \in evt[c]

\* What keeps vm_handle_hlt from sleeping.
HltBreak(c) ==
  \/ rfunc
  \/ suspend # "NONE"
  \/ "NMI" \in evt[c]
  \/ code[c] = "HLT_ON" /\ "INTR" \in evt[c]

\* Mutant: the vcpu's bit of halted_cpus is not cleared when it wakes.
HltKeepsBit(c) ==
  /\ At(c, "hlt_check")
  /\ \/ /\ HltBreak(c)
        /\ Goto(c, "frozen")
        /\ UNCHANGED <<halted, state, exit>>
     \/ /\ ~HltBreak(c) /\ code[c] = "HLT_OFF"
        /\ halted' = halted \cup {c}
        /\ Goto(c, "hlt_cmp")
        /\ UNCHANGED <<state, exit>>
     \/ /\ ~HltBreak(c) /\ code[c] = "HLT_ON"
        /\ vcpu_require_state(c, "SLEEPING", "hlt_presleep")
        /\ UNCHANGED halted
  /\ UNCHANGED <<ret, cur, code, active, suspended, suspend, rdvv, evt, kick,
                 woken, dev, pausev, cpumask>>


HltCheck(c) ==
  /\ At(c, "hlt_check")
  /\ \/ /\ HltBreak(c)
        /\ halted' = halted \ {c}
        /\ Goto(c, "frozen")
        /\ UNCHANGED <<state, exit>>
     \/ /\ ~HltBreak(c) /\ code[c] = "HLT_OFF"
        /\ halted' = halted \cup {c}
        /\ Goto(c, "hlt_cmp")
        /\ UNCHANGED <<state, exit>>
     \/ /\ ~HltBreak(c) /\ code[c] = "HLT_ON"
        /\ vcpu_require_state(c, "SLEEPING", "hlt_presleep")
        /\ UNCHANGED halted
  /\ UNCHANGED <<ret, cur, code, active, suspended, suspend, rdvv, evt, kick,
                 woken, dev, pausev, cpumask>>

\* Mutant: halted_cpus is compared with all configured vcpus.
HltCompareAll(c) ==
  /\ At(c, "hlt_cmp")
  /\ IF halted = Cpus
     THEN /\ halted' = halted \ {c}
          /\ Goto(c, "susp_f")
          /\ UNCHANGED <<state, exit>>
     ELSE /\ vcpu_require_state(c, "SLEEPING", "hlt_presleep")
          /\ UNCHANGED halted
  /\ UNCHANGED <<ret, cur, code, active, suspended, suspend, rdvv, evt, kick,
                 woken, dev, pausev, cpumask>>

\* All active vcpus halted with interrupts disabled: the machine is halted.
HltCompare(c) ==
  /\ At(c, "hlt_cmp")
  /\ IF halted = active
     THEN /\ halted' = halted \ {c}
          /\ Goto(c, "susp_f")
          /\ UNCHANGED <<state, exit>>
     ELSE /\ vcpu_require_state(c, "SLEEPING", "hlt_presleep")
          /\ UNCHANGED halted
  /\ UNCHANGED <<ret, cur, code, active, suspended, suspend, rdvv, evt, kick,
                 woken, dev, pausev, cpumask>>

-----------------------------------------------------------------------------
(* The rendezvous.                                                         *)

\* vioapic_write: change a redirection entry, then, with the I/O APIC
\* unlocked, rendezvous the vcpus active at that moment.
VioapicWrite(c) ==
  /\ At(c, "rtew")
  /\ rtbl' = rtbl + 1
  /\ wver' = [wver EXCEPT ![c] = rtbl + 1]
  /\ Goto(c, "rdv_dest")
  /\ UNCHANGED <<state, ret, cur, code, active, suspended, halted, suspend,
                 rfunc, req, done, dest, tmr, evt, kick, woken, dev, pausev,
                 cpumask, exit>>

VioapicDest(c) ==
  /\ At(c, "rdv_dest")
  /\ dest' = [dest EXCEPT ![c] = active]
  /\ Goto(c, "rdv_init")
  /\ UNCHANGED <<state, ret, cur, code, active, suspended, halted, suspend,
                 rfunc, req, done, rtbl, wver, tmr, evt, kick, woken, dev,
                 pausev, cpumask, exit>>

\* Mutant: rendezvous_done_cpus keeps the vcpus of the last rendezvous.
RendezvousKeepsDone(c) ==
  /\ At(c, "rdv_init")
  /\ \/ /\ rfunc
        /\ Goto(c, "rdv")
        /\ ret' = [ret EXCEPT ![c] = "rdv_init"]
        /\ UNCHANGED <<rfunc, req>>
     \/ /\ ~rfunc
        /\ rfunc' = TRUE /\ req' = dest[c]
        /\ Goto(c, "notify_v")
        /\ ret' = [ret EXCEPT ![c] = "rdv_ret"]
  /\ UNCHANGED <<state, cur, code, active, suspended, halted, suspend, done,
                 dest, rtbl, wver, tmr, evt, kick, woken, dev, pausev, cpumask,
                 exit>>

\* vm_smp_rendezvous: take part in a rendezvous in progress and retry, or
\* post the request.
vm_smp_rendezvous(c) ==
  /\ At(c, "rdv_init")
  /\ \/ /\ rfunc
        /\ Goto(c, "rdv")
        /\ ret' = [ret EXCEPT ![c] = "rdv_init"]
        /\ UNCHANGED <<rfunc, req, done>>
     \/ /\ ~rfunc
        /\ rfunc' = TRUE /\ req' = dest[c] /\ done' = {}
        /\ Goto(c, "notify_v")
        /\ ret' = [ret EXCEPT ![c] = "rdv_ret"]
  /\ UNCHANGED <<state, cur, code, active, suspended, halted, suspend, dest,
                 rtbl, wver, tmr, evt, kick, woken, dev, pausev, cpumask, exit>>

NotifyRendezvous(c) == NotifyLoop(c, "notify_v", dest[c], "rdv")

\* One pass of the loop of vm_handle_rendezvous, under rendezvous_mtx; the
\* function called is vioapic_update_tmr.
vm_handle_rendezvous(c) ==
  /\ Alive
  /\ pc[c] = "rdv" \/ (pc[c] = "rdv_wait" /\ c \in woken)
  /\ IF ~rfunc
     THEN /\ Goto(c, ret[c])
          /\ woken' = woken \ {c}
          /\ UNCHANGED <<rfunc, req, done, tmr>>
     ELSE LET r == req \cap active
              d == IF c \in r THEN done \cup {c} ELSE done
          IN /\ req' = r
             /\ done' = d
             /\ tmr' = IF c \in r \ done THEN [tmr EXCEPT ![c] = rtbl] ELSE tmr
             /\ rfunc' = (d # r)
             /\ woken' = IF d = r
                         THEN (woken \ {c})
                                \cup {x \in Cpus \ {c} : pc[x] = "rdv_wait"}
                         ELSE woken \ {c}
             /\ Goto(c, IF d = r THEN ret[c] ELSE "rdv_wait")
  /\ UNCHANGED <<state, ret, cur, code, active, suspended, halted, suspend,
                 dest, rtbl, wver, evt, kick, dev, pausev, cpumask, exit>>

\* Back in vioapic_write; the instruction is emulated and vm_run restarts.
RendezvousReturn(c) ==
  /\ At(c, "rdv_ret")
  /\ Goto(c, "frozen")
  /\ UNCHANGED <<state, ret, cur, code, active, suspended, halted, suspend,
                 rdvv, evt, kick, woken, dev, pausev, cpumask, exit>>

-----------------------------------------------------------------------------
(* vm_run and vmx_run.                                                     *)

\* xh_vm_run: freeze the vcpu, then vm_run's checks.
xh_vm_run(c) ==
  /\ At(c, "user_run")
  /\ IF c \in active /\ c \notin suspended
     THEN vcpu_freeze(c, "frozen") /\ UNCHANGED exit
     ELSE exit' = "vm_run_error" /\ UNCHANGED <<state, pc>>
  /\ UNCHANGED <<ret, cur, code, active, suspended, halted, suspend, rdvv, evt,
                 kick, woken, dev, pausev, cpumask>>

\* vm_run at its label `restart'.
Restart(c) ==
  /\ At(c, "frozen")
  /\ vcpu_require_state(c, "RUNNING", "inject")
  /\ UNCHANGED <<ret, cur, code, active, suspended, halted, suspend, rdvv, evt,
                 kick, woken, dev, pausev, cpumask>>

\* vmx_inject_interrupts delivers the pending events the guest accepts; a
\* fault on a double fault suspends the machine.
InjectInterrupts(c) ==
  /\ At(c, "inject")
  /\ \/ /\ \E acc \in SUBSET evt[c] : evt' = [evt EXCEPT ![c] = @ \ acc]
        /\ Goto(c, "chk_susp")
        /\ UNCHANGED code
     \/ /\ "TRIPLEFAULT" \in Exits
        /\ code' = [code EXCEPT ![c] = "TRIPLEFAULT"]
        /\ Goto(c, "susp_r")
        /\ UNCHANGED evt
  /\ UNCHANGED <<state, ret, cur, active, suspended, halted, suspend, rdvv,
                 kick, woken, dev, pausev, cpumask, exit>>

\* vcpu_suspended and vm_exit_suspended.
CheckSuspended(c) ==
  /\ At(c, "chk_susp")
  /\ IF suspend # "NONE"
     THEN code' = [code EXCEPT ![c] = "SUSPENDED"] /\ Goto(c, "leave")
     ELSE Goto(c, "chk_rdv") /\ UNCHANGED code
  /\ UNCHANGED <<state, ret, cur, active, suspended, halted, suspend, rdvv,
                 evt, kick, woken, dev, pausev, cpumask, exit>>

\* vcpu_rendezvous_pending
CheckRendezvous(c) ==
  /\ At(c, "chk_rdv")
  /\ Goto(c, IF rfunc THEN "exit_rdv" ELSE "guest")
  /\ UNCHANGED <<state, ret, cur, code, active, suspended, halted, suspend,
                 rdvv, evt, kick, woken, dev, pausev, cpumask, exit>>

\* vm_exit_rendezvous reads rendezvous_func a second time.
vm_exit_rendezvous(c) ==
  /\ At(c, "exit_rdv")
  /\ IF rfunc
     THEN /\ code' = [code EXCEPT ![c] = "RENDEZVOUS"]
          /\ Goto(c, "leave")
          /\ UNCHANGED exit
     ELSE exit' = "kassert_rendezvous" /\ UNCHANGED <<code, pc>>
  /\ UNCHANGED <<state, ret, cur, active, suspended, halted, suspend, rdvv,
                 evt, kick, woken, dev, pausev, cpumask>>

\* Vcpus that left the guest for a redirection entry write not yet made; the
\* bound MaxWrites counts them.
PendingWrites ==
  {d \in Cpus : /\ code[d] = "IOAPIC"
               /\ pc[d] \in {"chk_pause", "pause_wait", "leave", "dispatch", "rtew"}}

\* hv_vcpu_run returns: the guest did something that exits, or the host
\* interrupted it ("HANDLED").
GuestExit(c) ==
  /\ At(c, "guest")
  /\ \E e \in (Exits \ {"TRIPLEFAULT"}) \cup {"HANDLED"} :
       /\ e = "IOAPIC" => rtbl + Cardinality(PendingWrites) < MaxWrites
       /\ e = "SPINUP" => c = BSP /\ active # Cpus
       /\ code' = [code EXCEPT ![c] = e]
  /\ kick' = kick \ {c}
  /\ Goto(c, "chk_pause")
  /\ UNCHANGED <<state, ret, cur, active, suspended, halted, suspend, rdvv,
                 evt, woken, dev, pausev, cpumask, exit>>

AfterRun(c) == IF code[c] = "HANDLED" THEN "inject" ELSE "leave"

\* Mutant: guest memory is not protected.
PauseNoProtect(c) ==
  /\ At(c, "chk_pause")
  /\ IF paused
     THEN vcpu_require_state(c, "FROZEN", "pause_wait")
     ELSE Goto(c, AfterRun(c)) /\ UNCHANGED <<state, exit>>
  /\ UNCHANGED <<ret, cur, code, active, suspended, halted, suspend, rdvv, evt,
                 kick, woken, dev, pausev, cpumask>>

\* Mutant: the pause is looked at only when the exit leaves vmx_run.
PauseOnLeaveOnly(c) ==
  /\ At(c, "chk_pause")
  /\ IF paused /\ code[c] # "HANDLED"
     THEN /\ vcpu_require_state(c, "FROZEN", "pause_wait")
          /\ memprot' = TRUE
     ELSE Goto(c, AfterRun(c)) /\ UNCHANGED <<state, exit, memprot>>
  /\ UNCHANGED <<ret, cur, code, active, suspended, halted, suspend, rdvv, evt,
                 kick, woken, dev, paused, cpumask>>

\* vm_check_for_unpause, up to its wait on hv_pause_cnd.
CheckPaused(c) ==
  /\ At(c, "chk_pause")
  /\ IF paused
     THEN /\ vcpu_require_state(c, "FROZEN", "pause_wait")
          /\ memprot' = TRUE
     ELSE Goto(c, AfterRun(c)) /\ UNCHANGED <<state, exit, memprot>>
  /\ UNCHANGED <<ret, cur, code, active, suspended, halted, suspend, rdvv, evt,
                 kick, woken, dev, paused, cpumask>>

\* The rest of it, with hv_pause_mtx reacquired.
PauseWake(c) ==
  /\ At(c, "pause_wait")
  /\ c \in woken
  /\ woken' = woken \ {c}
  /\ IF paused
     THEN UNCHANGED <<state, pc, exit, memprot>>
     ELSE /\ vcpu_require_state(c, "RUNNING", AfterRun(c))
          /\ memprot' = FALSE
  /\ UNCHANGED <<ret, cur, code, active, suspended, halted, suspend, rdvv, evt,
                 kick, dev, paused, cpumask>>

\* VMRUN returns to vm_run.
LeaveRun(c) ==
  /\ At(c, "leave")
  /\ vcpu_require_state(c, "FROZEN", "dispatch")
  /\ UNCHANGED <<ret, cur, code, active, suspended, halted, suspend, rdvv, evt,
                 kick, woken, dev, pausev, cpumask>>

\* The switch of vm_run on the exit code.
Dispatch(c) ==
  /\ At(c, "dispatch")
  /\ Goto(c, CASE code[c] = "SUSPENDED" -> "sus"
               [] code[c] = "RENDEZVOUS" -> "rdv"
               [] code[c] \in {"HLT_ON", "HLT_OFF"} -> "hlt"
               [] code[c] = "IOAPIC" -> "rtew"
               [] OTHER -> "retu")
  /\ ret' = [ret EXCEPT ![c] = "frozen"]
  /\ UNCHANGED <<state, cur, code, active, suspended, halted, suspend, rdvv,
                 evt, kick, woken, dev, pausev, cpumask, exit>>

\* xh_vm_run returns: vcpu_freeze(c, FALSE).
ReturnToUser(c) ==
  /\ At(c, "retu")
  /\ vcpu_require_state(c, "IDLE", "user")
  /\ UNCHANGED <<ret, cur, code, active, suspended, halted, suspend, rdvv, evt,
                 kick, woken, dev, pausev, cpumask>>

-----------------------------------------------------------------------------
(* hyperkit.c: the thread of a vcpu and its handlers of exits.             *)

\* vcpu_thread up to the loop of vcpu_loop; each API call it makes takes its
\* own idle vcpu to FROZEN and back.
vcpu_thread(c) ==
  /\ At(c, "create")
  /\ Goto(c, "user_run")
  /\ UNCHANGED <<state, ret, cur, code, active, suspended, halted, suspend,
                 rdvv, evt, kick, woken, dev, pausev, cpumask, exit>>

\* vcpu_loop calls handler[exitcode]; for SPINUP_AP vcpu_add activates the
\* new vcpu first.
VcpuLoop(c) ==
  /\ At(c, "user")
  /\ \/ code[c] = "SUSPENDED" /\ Goto(c, "del") /\ UNCHANGED active
     \/ code[c] \in {"RESET", "POWEROFF"} /\ Goto(c, "susp_u") /\ UNCHANGED active
     \/ code[c] = "OTHER" /\ Goto(c, "user_run") /\ UNCHANGED active
     \/ /\ code[c] = "SPINUP"
        /\ \E new \in Cpus \ active : active' = active \cup {new}
        /\ Goto(c, "spawn")
  /\ UNCHANGED <<state, ret, cur, code, suspended, halted, suspend, rdvv, evt,
                 kick, woken, dev, pausev, cpumask, exit>>

\* The rest of vcpu_add: cpumask, and the new thread.
SpawnThread(c) ==
  /\ At(c, "spawn")
  /\ \E new \in active \ cpumask :
       /\ cpumask' = cpumask \cup {new}
       /\ pc' = [pc EXCEPT ![c] = "user_run", ![new] = "create"]
  /\ UNCHANGED <<state, ret, cur, code, active, suspended, halted, suspend,
                 rdvv, evt, kick, woken, dev, pausev, exit>>

\* vcpu_delete, called by vmexit_suspend.
vcpu_delete(c) ==
  /\ At(c, "del")
  /\ IF c \in cpumask
     THEN /\ cpumask' = cpumask \ {c}
          /\ Goto(c, IF c = BSP THEN "bsp_chk" ELSE "sig")
          /\ UNCHANGED exit
     ELSE exit' = "abort_delete" /\ UNCHANGED <<cpumask, pc>>
  /\ UNCHANGED <<state, ret, cur, code, active, suspended, halted, suspend,
                 rdvv, evt, kick, woken, dev, pausev>>

\* The end of an AP: it signals resetcpu_cond and its thread exits.
ApExit(c) ==
  /\ At(c, "sig")
  /\ Goto(c, "gone")
  /\ woken' = IF pc[BSP] = "bsp_wait" THEN woken \cup {BSP} ELSE woken
  /\ UNCHANGED <<state, ret, cur, code, active, suspended, halted, suspend,
                 rdvv, evt, kick, dev, pausev, cpumask, exit>>

\* The BSP waits for the others and ends the process.
BspExit(c) ==
  /\ At(c, "bsp_chk") \/ (At(c, "bsp_wait") /\ c \in woken)
  /\ woken' = woken \ {c}
  /\ IF cpumask = {}
     THEN exit' = suspend /\ UNCHANGED pc
     ELSE Goto(c, "bsp_wait") /\ UNCHANGED exit
  /\ UNCHANGED <<state, ret, cur, code, active, suspended, halted, suspend,
                 rdvv, evt, kick, dev, pausev, cpumask>>

-----------------------------------------------------------------------------
(* Other threads.                                                          *)

\* A device thread makes an NMI or interrupt pending and then notifies.
DevRaise ==
  /\ Alive
  /\ dev = NCpu
  /\ \E c \in active, e \in Events :
       /\ evt' = [evt EXCEPT ![c] = @ \cup {e}]
       /\ dev' = c
  /\ UNCHANGED <<state, thread, active, suspended, halted, suspend, rdvv, kick,
                 woken, pausev, cpumask, exit>>

DevNotify ==
  /\ Alive
  /\ dev # NCpu
  /\ vcpu_notify_event(dev)
  /\ dev' = NCpu
  /\ UNCHANGED <<state, thread, active, suspended, halted, suspend, rdvv, evt,
                 pausev, cpumask, exit>>

\* SIGUSR1 and SIGUSR2: vm_signal_pause under hv_pause_mtx.
SignalPause ==
  /\ Alive /\ Signals
  /\ paused' = TRUE
  /\ UNCHANGED <<state, thread, active, suspended, halted, suspend, rdvv, evt,
                 kick, woken, dev, memprot, cpumask, exit>>

SignalUnpause ==
  /\ Alive /\ Signals
  /\ paused' = FALSE
  /\ woken' = IF paused THEN woken \cup {c \in Cpus : pc[c] = "pause_wait"}
                        ELSE woken
  /\ UNCHANGED <<state, thread, active, suspended, halted, suspend, rdvv, evt,
                 kick, dev, memprot, cpumask, exit>>

Terminated == ~Alive /\ UNCHANGED vars

-----------------------------------------------------------------------------
\* What a thread does by itself, whatever guest, devices and users do.
ThreadStep(c) ==
  \/ SuspendUser(c) \/ SuspendHalt(c) \/ SuspendFault(c)
  \/ NotifyUser(c) \/ NotifyHalt(c) \/ NotifyFault(c)
  \/ HandleSuspend(c) \/ SuspendCheck(c) \/ NotifySuspended(c)
  \/ Sleep(c) \/ Wake(c)
  \/ HltEnter(c) \/ HltCheck(c) \/ HltCompare(c)
  \/ VioapicWrite(c) \/ VioapicDest(c)
  \/ vm_smp_rendezvous(c) \/ NotifyRendezvous(c)
  \/ vm_handle_rendezvous(c) \/ RendezvousReturn(c)
  \/ xh_vm_run(c) \/ Restart(c) \/ InjectInterrupts(c)
  \/ CheckSuspended(c) \/ CheckRendezvous(c) \/ vm_exit_rendezvous(c)
  \/ CheckPaused(c) \/ PauseWake(c) \/ LeaveRun(c) \/ Dispatch(c)
  \/ ReturnToUser(c)
  \/ vcpu_thread(c) \/ VcpuLoop(c) \/ SpawnThread(c)
  \/ vcpu_delete(c) \/ ApExit(c) \/ BspExit(c)

Next ==
  \/ \E c \in Cpus : ThreadStep(c) \/ GuestExit(c)
  \/ DevRaise \/ DevNotify \/ SignalPause \/ SignalUnpause
  \/ Terminated

Spec == Init /\ [][Next]_vars

\* Threads are scheduled and mutexes are granted; hv_vcpu_interrupt makes
\* hv_vcpu_run return.  Nothing is assumed of a guest nobody interrupts, of
\* devices raising events, or of the user's signals.
Fairness ==
  /\ \A c \in Cpus : /\ WF_vars(ThreadStep(c))
                     /\ WF_vars(c \in kick /\ GuestExit(c))
  /\ WF_vars(DevNotify)

FairSpec == Spec /\ Fairness

\* In addition host interrupts arrive on every host cpu: a guest exits again
\* and again (EXIT_REASON_EXT_INTR).
TickSpec == FairSpec /\ \A c \in Cpus : WF_vars(GuestExit(c))

-----------------------------------------------------------------------------
(* Properties.                                                             *)

\* The values each part of the machine can hold; no exit code but the four
\* reasons of vm_suspend becomes the reason of a suspension.
TypeOK ==
  /\ state \in [Cpus -> VcpuStates]
  /\ pc \in [Cpus -> Pcs]
  /\ ret \in [Cpus -> {"frozen", "sus_check", "rdv_init", "rdv_ret"}]
  /\ cur \in [Cpus -> 0 .. NCpu]
  /\ code \in [Cpus -> Codes]
  /\ active \subseteq Cpus /\ suspended \subseteq Cpus /\ halted \subseteq Cpus
  /\ suspend \in SuspendHow \cup {"NONE"}
  /\ rfunc \in BOOLEAN
  /\ req \subseteq Cpus /\ done \subseteq Cpus
  /\ dest \in [Cpus -> SUBSET Cpus]
  /\ rtbl \in Nat
  /\ wver \in [Cpus -> Nat] /\ tmr \in [Cpus -> Nat]
  /\ evt \in [Cpus -> SUBSET {"NMI", "INTR"}]
  /\ kick \subseteq Cpus /\ woken \subseteq Cpus
  /\ dev \in 0 .. NCpu
  /\ paused \in BOOLEAN /\ memprot \in BOOLEAN
  /\ cpumask \subseteq Cpus
  /\ exit \in {"none"} \cup SuspendHow \cup Aborts

\* Every state change a vcpu thread asks of vcpu_set_state_locked is one of
\* the allowed transitions: vcpu_require_state, vm_check_for_unpause and
\* vcpu_freeze never reach their xhyve_abort, whatever the interleaving with
\* notifications, pauses, suspension and rendezvous.
NoStateAbort == exit # "abort_state"

\* vm_handle_hlt never finds its own bit in halted_cpus (the KASSERT "vcpu
\* already halted"), vcpu_delete never finds its vcpu missing, and vm_run
\* never refuses the vcpu of a thread that calls it: each vcpu suspends and
\* is deleted once.
NoLifecycleAbort == exit \notin {"kassert_halted", "abort_delete", "vm_run_error"}

\* halted_cpus, which decides that the whole machine is halted, only holds
\* vcpus that are inside vm_handle_hlt with interrupts disabled.
HaltedInHlt ==
  \A c \in halted : /\ code[c] = "HLT_OFF"
                    /\ pc[c] \in {"hlt_check", "hlt_cmp", "hlt_presleep", "hlt_wait"}

\* The vcpus whose thread has left the wait of vm_handle_suspend.
PastSuspend == {c \in suspended : \/ pc[c] \in {"notify_s", "del", "sig", "gone",
                                                "bsp_chk", "bsp_wait"}
                                  \/ pc[c] \in {"retu", "user"}}

\* Once a vcpu leaves the wait of vm_handle_suspend, every active vcpu has
\* suspended and none is activated any more: nobody runs guest code, nobody
\* is left to take part in a rendezvous, and no thread is missed by the
\* shutdown ("Wait until all 'active_cpus' have suspended themselves").
AllParked ==
  PastSuspend # {} =>
    /\ suspended = active
    /\ ~rfunc
    /\ \A c \in Cpus : pc[c] \notin RunningPcs \cup {"frozen", "spawn", "create"}

\* vmexit_suspend: when the BSP ends the process, every AP that was ever
\* started has ended its thread's work on the VM, and the exit status is the
\* reason of the one suspension that won.
BspExitsLast ==
  exit \in SuspendHow =>
    /\ exit = suspend
    /\ \A c \in active \ {BSP} : pc[c] \in {"sig", "gone"}

\* When vm_smp_rendezvous returns to vioapic_write, every vcpu it was asked
\* to reach has recomputed its trigger-mode register from a redirection
\* table that contains the write, although several writers rendezvous at the
\* same time and targets may be halted, suspended or in userland.
RendezvousComplete ==
  \A c \in Cpus : pc[c] = "rdv_ret" => \A d \in dest[c] : tmr[d] >= wver[c]

\* Pausing: guest memory is protected only while some vcpu waits in
\* vm_check_for_unpause, so no unpause leaves it protected under a running
\* guest with nobody to unprotect it, and it is protected whenever every
\* active vcpu waits there.
PauseProtects ==
  /\ memprot => \E c \in Cpus : pc[c] = "pause_wait"
  /\ (\A c \in active : pc[c] = "pause_wait") => memprot

\* A suspended machine ends: every vcpu thread, wherever it is (guest, halt,
\* rendezvous, userland), gets out and the process exits, provided the user
\* ends up leaving the machine unpaused.
SuspendLeadsToExit ==
  (<>[]~paused) => (suspend # "NONE" ~> exit # "none")

\* vm_smp_rendezvous returns, also when the machine is suspended while it is
\* in progress or other vcpus halt or rendezvous themselves ("to prevent a
\* deadlock"), provided the user ends up leaving the machine unpaused.
RendezvousReturns ==
  \A c \in Cpus : (<>[]~paused) =>
    (pc[c] = "rdv_init" ~> (pc[c] = "rdv_ret" \/ exit # "none"))

\* A vcpu halted with interrupts enabled that has an interrupt pending leaves
\* vm_handle_hlt, although the signal of vcpu_notify_event may come before
\* it waits on its condition variable.
HaltWakes ==
  \A c \in Cpus :
    (pc[c] = "hlt_wait" /\ code[c] = "HLT_ON" /\ "INTR" \in evt[c])
      ~> (pc[c] = "frozen" \/ exit # "none")

\* Linux's halt: when every active vcpu sits in vm_handle_hlt with interrupts
\* disabled (the one-second timeouts of its loop included) and nothing breaks
\* the loop of one, the machine is suspended.
AllHalted ==
  \A c \in active : /\ code[c] = "HLT_OFF"
                    /\ pc[c] \in {"hlt", "hlt_check", "hlt_cmp", "hlt_presleep",
                                 "hlt_wait", "susp_f"}

HaltDetected == AllHalted ~> (~AllHalted \/ suspend # "NONE")

\* hyperkit.1 on SIGUSR1: "Pause all VCPU threads".  If the machine stays
\* paused, every vcpu is eventually out of the guest for good.
PauseStops ==
  (<>[]paused) => <>[](exit # "none" \/ \A c \in Cpus : pc[c] # "guest")

(* The inductive invariant of the proofs.                                  *)

\* The state of a vcpu is the one its thread's place in the code calls for.
StateMatchesPc ==
  \A c \in Cpus : /\ pc[c] \in IdlePcs => state[c] = "IDLE"
                  /\ pc[c] \in RunningPcs => state[c] = "RUNNING"
                  /\ pc[c] \in SleepingPcs => state[c] = "SLEEPING"
                  /\ pc[c] \in FrozenPcs => state[c] = "FROZEN"

\* A vcpu outside cpumask has no thread yet, or one that is done with the VM.
MaskMatchesPc ==
  \A c \in Cpus : /\ c \notin cpumask =>
                       pc[c] \in {"none", "sig", "gone", "bsp_chk", "bsp_wait"}
                  /\ pc[c] # "none" => c \in active

\* The exit code agrees with the handler the thread is in.
CodeMatchesPc ==
  \A c \in Cpus :
    /\ pc[c] = "susp_u" => code[c] \in {"RESET", "POWEROFF"}
    /\ pc[c] = "susp_r" => code[c] = "TRIPLEFAULT"
    /\ pc[c] \in {"susp_f", "hlt_cmp"} => code[c] = "HLT_OFF"
    /\ pc[c] \in {"hlt", "hlt_check", "hlt_presleep", "hlt_wait"} =>
         code[c] \in {"HLT_OFF", "HLT_ON"}
    /\ code[c] = "SUSPENDED" => suspend # "NONE"
    /\ pc[c] \in {"del", "bsp_chk", "bsp_wait"} => suspend # "NONE"

IInv == /\ TypeOK
        /\ StateMatchesPc
        /\ MaskMatchesPc
        /\ CodeMatchesPc
        /\ HaltedInHlt
        /\ NoStateAbort

\* The thread of c has posted a rendezvous and not yet returned from it.
Initiator(c) == ret[c] = "rdv_ret" /\ pc[c] \in {"notify_v", "rdv", "rdv_wait"}

\* A target the initiator still waits for is one the rendezvous in progress
\* has requested and not seen done; a rendezvous in progress has an initiator.
RendezvousInv ==
  /\ \A c \in Cpus : /\ dest[c] \subseteq active
                     /\ wver[c] <= rtbl /\ tmr[c] <= rtbl
                     /\ pc[c] = "notify_v" => ret[c] = "rdv_ret"
  /\ \A c \in Cpus : Initiator(c) =>
       \A d \in dest[c] : tmr[d] >= wver[c] \/ (rfunc /\ d \in req \ done)
  /\ rfunc => \E c \in Cpus : Initiator(c)
  /\ RendezvousComplete

\* Where the thread of a suspended vcpu can be.
Parked(c) ==
  /\ code[c] = "SUSPENDED"
  /\ \/ pc[c] \in {"sus_check", "sus_presleep", "sus_wait", "notify_s", "retu",
                   "user", "del", "sig", "gone", "bsp_chk", "bsp_wait"}
     \/ pc[c] \in {"rdv", "rdv_wait"} /\ ret[c] = "sus_check"

SuspendInv ==
  /\ suspended \subseteq active
  /\ \A c \in Cpus : /\ c \in suspended <=> Parked(c)
                     /\ pc[c] = "sus" => code[c] = "SUSPENDED"
                     /\ pc[c] \in {"del", "sig", "gone", "bsp_chk", "bsp_wait"} =>
                          c \in suspended
  /\ PastSuspend # {} => suspended = active

\* The threads there are: an active vcpu without one is the one the BSP is
\* about to create.
ThreadsInv ==
  /\ \A c \in Cpus : /\ code[c] = "SPINUP" => c = BSP
                     /\ pc[c] \in {"bsp_chk", "bsp_wait", "spawn"} => c = BSP
  /\ \A c \in active : pc[c] = "none" =>
       pc[BSP] = "spawn" /\ \A d \in active \ {c} : pc[d] # "none"

(* Statements of the repository that the code does not keep.               *)

\* vcpu_notify_event: "If the vcpu thread is sleeping then it is woken up."
\* A halted vcpu whose interrupt has been raised and notified does not go on
\* sleeping until its one-second timeout.
NotifyWakesSleeper ==
  \A c \in Cpus :
    (pc[c] = "hlt_wait" /\ code[c] = "HLT_ON" /\ "INTR" \in evt[c] /\ dev # c)
      => c \in woken

\* The KASSERT of vm_exit_rendezvous: "rendezvous not in progress" is never
\* found after vcpu_rendezvous_pending saw one.
RendezvousInProgress == exit # "kassert_rendezvous"
=============================================================================
