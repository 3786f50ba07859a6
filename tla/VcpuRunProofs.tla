--------------------------- MODULE VcpuRunProofs ---------------------------
(***************************************************************************)
(* Proofs about VcpuRun for any number of vcpus.                           *)
(*                                                                         *)
(* The inductive invariant has four layers, each proved from the ones      *)
(* before it: IInv (types, vcpu states, exit codes, halts), RendezvousInv, *)
(* SuspendInv and ThreadsInv.  A lemma per conjunct shows that a step      *)
(* keeps it, with one case per action.                                     *)
(***************************************************************************)
EXTENDS VcpuRun, TLAPS

\* The boot processor is one of the vcpus.
LEMMA BSPInCpus == BSP \in Cpus
  BY NCpuAssumption DEF BSP, Cpus

-----------------------------------------------------------------------------
\* A step keeps the types.
LEMMA TypeStep ==
  ASSUME IInv, [Next]_vars
  PROVE  TypeOK'
<1> USE NCpuAssumption, ExitsAssumption DEF IInv, TypeOK, CodeMatchesPc, At,
        Goto, rdvv, pausev, Pcs, IdlePcs, RunningPcs, SleepingPcs, FrozenPcs,
        VcpuStates, SuspendHow, Codes, Aborts, GuestExits
<1>1. ASSUME NEW c \in Cpus, ThreadStep(c) \/ GuestExit(c)
      PROVE  TypeOK'
  <2>1. CASE SuspendUser(c) BY <2>1 DEF SuspendUser, vm_suspend, How
  <2>2. CASE SuspendHalt(c) BY <2>2 DEF SuspendHalt, vm_suspend, How
  <2>3. CASE SuspendFault(c) BY <2>3 DEF SuspendFault, vm_suspend, How
  <2>4. CASE NotifyUser(c)
    BY <2>4 DEF NotifyUser, NotifyLoop, vcpu_notify_event, Signal
  <2>5. CASE NotifyHalt(c)
    BY <2>5 DEF NotifyHalt, NotifyLoop, vcpu_notify_event, Signal
  <2>6. CASE NotifyFault(c)
    BY <2>6 DEF NotifyFault, NotifyLoop, vcpu_notify_event, Signal
  <2>7. CASE HandleSuspend(c) BY <2>7 DEF HandleSuspend
  <2>8. CASE SuspendCheck(c)
    BY <2>8 DEF SuspendCheck, vcpu_require_state, vcpu_set_state_locked
  <2>9. CASE NotifySuspended(c)
    BY <2>9 DEF NotifySuspended, NotifyLoop, vcpu_notify_event, Signal
  <2>10. CASE Sleep(c) BY <2>10 DEF Sleep
  <2>11. CASE Wake(c)
    BY <2>11 DEF Wake, vcpu_require_state, vcpu_set_state_locked
  <2>12. CASE HltEnter(c) BY <2>12 DEF HltEnter
  <2>13. CASE HltCheck(c)
    BY <2>13 DEF HltCheck, vcpu_require_state, vcpu_set_state_locked
  <2>14. CASE HltCompare(c)
    BY <2>14 DEF HltCompare, vcpu_require_state, vcpu_set_state_locked
  <2>15. CASE VioapicWrite(c) BY <2>15 DEF VioapicWrite
  <2>16. CASE VioapicDest(c) BY <2>16 DEF VioapicDest
  <2>17. CASE vm_smp_rendezvous(c)
    <3>1. rfunc' \in BOOLEAN
      BY <2>17, Zenon DEF vm_smp_rendezvous
    <3> QED BY <2>17, <3>1 DEF vm_smp_rendezvous
  <2>18. CASE NotifyRendezvous(c)
    BY <2>18 DEF NotifyRendezvous, NotifyLoop, vcpu_notify_event, Signal
  <2>19. CASE vm_handle_rendezvous(c)
    <3>1. rfunc' \in BOOLEAN
      BY <2>19, Zenon DEF vm_handle_rendezvous
    <3>2. req' \subseteq Cpus /\ done' \subseteq Cpus
      BY <2>19 DEF vm_handle_rendezvous
    <3>3. tmr' \in [Cpus -> Nat]
      BY <2>19 DEF vm_handle_rendezvous
    <3>4. pc' \in [Cpus -> Pcs]
      BY <2>19 DEF vm_handle_rendezvous
    <3>5. woken' \subseteq Cpus
      BY <2>19 DEF vm_handle_rendezvous
    <3> QED BY <2>19, <3>1, <3>2, <3>3, <3>4, <3>5 DEF vm_handle_rendezvous
  <2>20. CASE RendezvousReturn(c) BY <2>20 DEF RendezvousReturn
  <2>21. CASE xh_vm_run(c) BY <2>21 DEF xh_vm_run, vcpu_freeze
  <2>22. CASE Restart(c)
    BY <2>22 DEF Restart, vcpu_require_state, vcpu_set_state_locked
  <2>23. CASE InjectInterrupts(c) BY <2>23 DEF InjectInterrupts
  <2>24. CASE CheckSuspended(c) BY <2>24 DEF CheckSuspended
  <2>25. CASE CheckRendezvous(c) BY <2>25 DEF CheckRendezvous
  <2>26. CASE vm_exit_rendezvous(c) BY <2>26 DEF vm_exit_rendezvous
  <2>27. CASE CheckPaused(c)
    <3>1. memprot' \in BOOLEAN
      BY <2>27, Zenon DEF CheckPaused
    <3> QED BY <2>27, <3>1 DEF CheckPaused, AfterRun, vcpu_require_state
  <2>28. CASE PauseWake(c)
    <3>1. memprot' \in BOOLEAN
      BY <2>28, Zenon DEF PauseWake
    <3> QED BY <2>28, <3>1 DEF PauseWake, AfterRun, vcpu_require_state
  <2>29. CASE LeaveRun(c)
    BY <2>29 DEF LeaveRun, vcpu_require_state, vcpu_set_state_locked
  <2>30. CASE Dispatch(c) BY <2>30 DEF Dispatch
  <2>31. CASE ReturnToUser(c)
    BY <2>31 DEF ReturnToUser, vcpu_require_state, vcpu_set_state_locked
  <2>32. CASE vcpu_thread(c) BY <2>32 DEF vcpu_thread
  <2>33. CASE VcpuLoop(c) BY <2>33 DEF VcpuLoop
  <2>34. CASE SpawnThread(c) BY <2>34 DEF SpawnThread
  <2>35. CASE vcpu_delete(c) BY <2>35 DEF vcpu_delete
  <2>36. CASE ApExit(c)
    BY <2>36, BSPInCpus DEF ApExit
  <2>37. CASE BspExit(c) BY <2>37 DEF BspExit
  <2>38. CASE GuestExit(c) BY <2>38 DEF GuestExit
  <2> QED BY <1>1, <2>1, <2>2, <2>3, <2>4, <2>5, <2>6, <2>7, <2>8, <2>9,
          <2>10, <2>11, <2>12, <2>13, <2>14, <2>15, <2>16, <2>17, <2>18,
          <2>19, <2>20, <2>21, <2>22, <2>23, <2>24, <2>25, <2>26, <2>27,
          <2>28, <2>29, <2>30, <2>31, <2>32, <2>33, <2>34, <2>35, <2>36,
          <2>37, <2>38 DEF ThreadStep
<1>2. CASE DevRaise
  <2>1. PICK c \in active, e \in Events :
          /\ evt' = [evt EXCEPT ![c] = @ \cup {e}]
          /\ dev' = c
    BY <1>2 DEF DevRaise
  <2>2. c \in Cpus /\ e \in {"NMI", "INTR"}
    BY EventsAssumption
  <2>3. dev' \in 0 .. NCpu
    BY <2>1, <2>2 DEF Cpus
  <2>4. evt' \in [Cpus -> SUBSET {"NMI", "INTR"}]
    BY <2>1, <2>2
  <2> QED BY <1>2, <2>3, <2>4 DEF DevRaise, thread
<1>3. CASE DevNotify
  <2>1. dev \in Cpus
    BY <1>3 DEF DevNotify, Cpus
  <2>2. dev' \in 0 .. NCpu
    BY <1>3 DEF DevNotify
  <2>3. kick' \subseteq Cpus /\ woken' \subseteq Cpus
    BY ZenonT(60), <1>3, <2>1 DEF DevNotify, vcpu_notify_event, Signal
  <2> QED BY <1>3, <2>2, <2>3 DEF DevNotify, thread
<1>4. CASE SignalPause BY <1>4 DEF SignalPause, thread
<1>5. CASE SignalUnpause BY <1>5 DEF SignalUnpause, thread
<1>6. CASE Terminated BY <1>6 DEF Terminated, vars, thread
<1>7. CASE UNCHANGED vars BY <1>7 DEF vars, thread
<1> QED BY <1>1, <1>2, <1>3, <1>4, <1>5, <1>6, <1>7 DEF Next

\* A step keeps each vcpu in the state its thread's place calls for.
LEMMA StateStep ==
  ASSUME IInv, [Next]_vars
  PROVE  StateMatchesPc'
<1> USE NCpuAssumption, ExitsAssumption DEF IInv, TypeOK, StateMatchesPc, At,
        Goto, rdvv, pausev, Pcs, IdlePcs, RunningPcs, SleepingPcs, FrozenPcs
<1>1. ASSUME NEW c \in Cpus, ThreadStep(c) \/ GuestExit(c)
      PROVE  StateMatchesPc'
  <2>1. CASE SuspendUser(c) BY <2>1 DEF SuspendUser, vm_suspend, How
  <2>2. CASE SuspendHalt(c) BY <2>2 DEF SuspendHalt, vm_suspend, How
  <2>3. CASE SuspendFault(c) BY <2>3 DEF SuspendFault, vm_suspend, How
  <2>4. CASE NotifyUser(c)
    BY <2>4 DEF NotifyUser, NotifyLoop, vcpu_notify_event, Signal
  <2>5. CASE NotifyHalt(c)
    BY <2>5 DEF NotifyHalt, NotifyLoop, vcpu_notify_event, Signal
  <2>6. CASE NotifyFault(c)
    BY <2>6 DEF NotifyFault, NotifyLoop, vcpu_notify_event, Signal
  <2>7. CASE HandleSuspend(c) BY <2>7 DEF HandleSuspend
  <2>8. CASE SuspendCheck(c)
    BY <2>8 DEF SuspendCheck, vcpu_require_state, vcpu_set_state_locked
  <2>9. CASE NotifySuspended(c)
    BY <2>9 DEF NotifySuspended, NotifyLoop, vcpu_notify_event, Signal
  <2>10. CASE Sleep(c) BY <2>10 DEF Sleep
  <2>11. CASE Wake(c)
    BY <2>11 DEF Wake, vcpu_require_state, vcpu_set_state_locked
  <2>12. CASE HltEnter(c) BY <2>12 DEF HltEnter
  <2>13. CASE HltCheck(c)
    BY <2>13 DEF HltCheck, vcpu_require_state, vcpu_set_state_locked
  <2>14. CASE HltCompare(c)
    BY <2>14 DEF HltCompare, vcpu_require_state, vcpu_set_state_locked
  <2>15. CASE VioapicWrite(c) BY <2>15 DEF VioapicWrite
  <2>16. CASE VioapicDest(c) BY <2>16 DEF VioapicDest
  <2>17. CASE vm_smp_rendezvous(c) BY <2>17 DEF vm_smp_rendezvous
  <2>18. CASE NotifyRendezvous(c)
    BY <2>18 DEF NotifyRendezvous, NotifyLoop, vcpu_notify_event, Signal
  <2>19. CASE vm_handle_rendezvous(c) BY <2>19 DEF vm_handle_rendezvous
  <2>20. CASE RendezvousReturn(c) BY <2>20 DEF RendezvousReturn
  <2>21. CASE xh_vm_run(c) BY <2>21 DEF xh_vm_run, vcpu_freeze
  <2>22. CASE Restart(c)
    BY <2>22 DEF Restart, vcpu_require_state, vcpu_set_state_locked
  <2>23. CASE InjectInterrupts(c) BY <2>23 DEF InjectInterrupts
  <2>24. CASE CheckSuspended(c) BY <2>24 DEF CheckSuspended
  <2>25. CASE CheckRendezvous(c) BY <2>25 DEF CheckRendezvous
  <2>26. CASE vm_exit_rendezvous(c) BY <2>26 DEF vm_exit_rendezvous
  <2>27. CASE CheckPaused(c)
    BY <2>27 DEF CheckPaused, AfterRun, vcpu_require_state,
        vcpu_set_state_locked
  <2>28. CASE PauseWake(c)
    BY <2>28 DEF PauseWake, AfterRun, vcpu_require_state,
        vcpu_set_state_locked
  <2>29. CASE LeaveRun(c)
    BY <2>29 DEF LeaveRun, vcpu_require_state, vcpu_set_state_locked
  <2>30. CASE Dispatch(c) BY <2>30 DEF Dispatch
  <2>31. CASE ReturnToUser(c)
    BY <2>31 DEF ReturnToUser, vcpu_require_state, vcpu_set_state_locked
  <2>32. CASE vcpu_thread(c) BY <2>32 DEF vcpu_thread
  <2>33. CASE VcpuLoop(c) BY <2>33 DEF VcpuLoop
  <2>34. CASE SpawnThread(c)
    BY <2>34 DEF SpawnThread, MaskMatchesPc
  <2>35. CASE vcpu_delete(c) BY <2>35 DEF vcpu_delete
  <2>36. CASE ApExit(c) BY <2>36 DEF ApExit
  <2>37. CASE BspExit(c) BY <2>37 DEF BspExit
  <2>38. CASE GuestExit(c) BY <2>38 DEF GuestExit
  <2> QED BY <1>1, <2>1, <2>2, <2>3, <2>4, <2>5, <2>6, <2>7, <2>8, <2>9,
          <2>10, <2>11, <2>12, <2>13, <2>14, <2>15, <2>16, <2>17, <2>18,
          <2>19, <2>20, <2>21, <2>22, <2>23, <2>24, <2>25, <2>26, <2>27,
          <2>28, <2>29, <2>30, <2>31, <2>32, <2>33, <2>34, <2>35, <2>36,
          <2>37, <2>38 DEF ThreadStep
<1>2. CASE DevRaise BY <1>2 DEF DevRaise, thread
<1>3. CASE DevNotify BY <1>3 DEF DevNotify, vcpu_notify_event, Signal, thread
<1>4. CASE SignalPause BY <1>4 DEF SignalPause, thread
<1>5. CASE SignalUnpause BY <1>5 DEF SignalUnpause, thread
<1>6. CASE Terminated BY <1>6 DEF Terminated, vars, thread
<1>7. CASE UNCHANGED vars BY <1>7 DEF vars, thread
<1> QED BY <1>1, <1>2, <1>3, <1>4, <1>5, <1>6, <1>7 DEF Next

\* A step keeps cpumask and active_cpus in line with the threads.
LEMMA MaskStep ==
  ASSUME IInv, [Next]_vars
  PROVE  MaskMatchesPc'
<1> USE NCpuAssumption, ExitsAssumption DEF IInv, TypeOK, MaskMatchesPc, At,
        Goto, rdvv, pausev
<1>1. ASSUME NEW c \in Cpus, ThreadStep(c) \/ GuestExit(c)
      PROVE  MaskMatchesPc'
  <2>1. CASE SuspendUser(c) BY <2>1 DEF SuspendUser, vm_suspend, How
  <2>2. CASE SuspendHalt(c) BY <2>2 DEF SuspendHalt, vm_suspend, How
  <2>3. CASE SuspendFault(c) BY <2>3 DEF SuspendFault, vm_suspend, How
  <2>4. CASE NotifyUser(c)
    BY <2>4 DEF NotifyUser, NotifyLoop, vcpu_notify_event, Signal
  <2>5. CASE NotifyHalt(c)
    BY <2>5 DEF NotifyHalt, NotifyLoop, vcpu_notify_event, Signal
  <2>6. CASE NotifyFault(c)
    BY <2>6 DEF NotifyFault, NotifyLoop, vcpu_notify_event, Signal
  <2>7. CASE HandleSuspend(c) BY <2>7 DEF HandleSuspend
  <2>8. CASE SuspendCheck(c)
    BY <2>8 DEF SuspendCheck, vcpu_require_state, vcpu_set_state_locked
  <2>9. CASE NotifySuspended(c)
    BY <2>9 DEF NotifySuspended, NotifyLoop, vcpu_notify_event, Signal
  <2>10. CASE Sleep(c) BY <2>10 DEF Sleep
  <2>11. CASE Wake(c)
    BY <2>11 DEF Wake, vcpu_require_state, vcpu_set_state_locked
  <2>12. CASE HltEnter(c) BY <2>12 DEF HltEnter
  <2>13. CASE HltCheck(c)
    BY <2>13 DEF HltCheck, vcpu_require_state, vcpu_set_state_locked
  <2>14. CASE HltCompare(c)
    BY <2>14 DEF HltCompare, vcpu_require_state, vcpu_set_state_locked
  <2>15. CASE VioapicWrite(c) BY <2>15 DEF VioapicWrite
  <2>16. CASE VioapicDest(c) BY <2>16 DEF VioapicDest
  <2>17. CASE vm_smp_rendezvous(c) BY <2>17 DEF vm_smp_rendezvous
  <2>18. CASE NotifyRendezvous(c)
    BY <2>18 DEF NotifyRendezvous, NotifyLoop, vcpu_notify_event, Signal
  <2>19. CASE vm_handle_rendezvous(c) BY <2>19 DEF vm_handle_rendezvous
  <2>20. CASE RendezvousReturn(c) BY <2>20 DEF RendezvousReturn
  <2>21. CASE xh_vm_run(c) BY <2>21 DEF xh_vm_run, vcpu_freeze
  <2>22. CASE Restart(c)
    BY <2>22 DEF Restart, vcpu_require_state, vcpu_set_state_locked
  <2>23. CASE InjectInterrupts(c) BY <2>23 DEF InjectInterrupts
  <2>24. CASE CheckSuspended(c) BY <2>24 DEF CheckSuspended
  <2>25. CASE CheckRendezvous(c) BY <2>25 DEF CheckRendezvous
  <2>26. CASE vm_exit_rendezvous(c) BY <2>26 DEF vm_exit_rendezvous
  <2>27. CASE CheckPaused(c)
    BY <2>27 DEF CheckPaused, AfterRun, vcpu_require_state,
        vcpu_set_state_locked
  <2>28. CASE PauseWake(c)
    BY <2>28 DEF PauseWake, AfterRun, vcpu_require_state,
        vcpu_set_state_locked
  <2>29. CASE LeaveRun(c)
    BY <2>29 DEF LeaveRun, vcpu_require_state, vcpu_set_state_locked
  <2>30. CASE Dispatch(c) BY <2>30 DEF Dispatch
  <2>31. CASE ReturnToUser(c)
    BY <2>31 DEF ReturnToUser, vcpu_require_state, vcpu_set_state_locked
  <2>32. CASE vcpu_thread(c) BY <2>32 DEF vcpu_thread
  <2>33. CASE VcpuLoop(c) BY <2>33 DEF VcpuLoop
  <2>34. CASE SpawnThread(c) BY <2>34 DEF SpawnThread
  <2>35. CASE vcpu_delete(c) BY <2>35 DEF vcpu_delete
  <2>36. CASE ApExit(c) BY <2>36 DEF ApExit
  <2>37. CASE BspExit(c) BY <2>37 DEF BspExit
  <2>38. CASE GuestExit(c) BY <2>38 DEF GuestExit
  <2> QED BY <1>1, <2>1, <2>2, <2>3, <2>4, <2>5, <2>6, <2>7, <2>8, <2>9,
          <2>10, <2>11, <2>12, <2>13, <2>14, <2>15, <2>16, <2>17, <2>18,
          <2>19, <2>20, <2>21, <2>22, <2>23, <2>24, <2>25, <2>26, <2>27,
          <2>28, <2>29, <2>30, <2>31, <2>32, <2>33, <2>34, <2>35, <2>36,
          <2>37, <2>38 DEF ThreadStep
<1>2. CASE DevRaise BY <1>2 DEF DevRaise, thread
<1>3. CASE DevNotify BY <1>3 DEF DevNotify, vcpu_notify_event, Signal, thread
<1>4. CASE SignalPause BY <1>4 DEF SignalPause, thread
<1>5. CASE SignalUnpause BY <1>5 DEF SignalUnpause, thread
<1>6. CASE Terminated BY <1>6 DEF Terminated, vars, thread
<1>7. CASE UNCHANGED vars BY <1>7 DEF vars, thread
<1> QED BY <1>1, <1>2, <1>3, <1>4, <1>5, <1>6, <1>7 DEF Next

\* A step keeps the exit code in line with the handler being run.
LEMMA CodeStep ==
  ASSUME IInv, [Next]_vars
  PROVE  CodeMatchesPc'
<1> USE NCpuAssumption, ExitsAssumption DEF IInv, TypeOK, CodeMatchesPc, At,
        Goto, rdvv, pausev
<1>1. ASSUME NEW c \in Cpus, ThreadStep(c) \/ GuestExit(c)
      PROVE  CodeMatchesPc'
  <2>1. CASE SuspendUser(c) BY <2>1 DEF SuspendUser, vm_suspend, How
  <2>2. CASE SuspendHalt(c) BY <2>2 DEF SuspendHalt, vm_suspend, How
  <2>3. CASE SuspendFault(c) BY <2>3 DEF SuspendFault, vm_suspend, How
  <2>4. CASE NotifyUser(c)
    BY <2>4 DEF NotifyUser, NotifyLoop, vcpu_notify_event, Signal
  <2>5. CASE NotifyHalt(c)
    BY <2>5 DEF NotifyHalt, NotifyLoop, vcpu_notify_event, Signal
  <2>6. CASE NotifyFault(c)
    BY <2>6 DEF NotifyFault, NotifyLoop, vcpu_notify_event, Signal
  <2>7. CASE HandleSuspend(c) BY <2>7 DEF HandleSuspend
  <2>8. CASE SuspendCheck(c)
    BY <2>8 DEF SuspendCheck, vcpu_require_state, vcpu_set_state_locked
  <2>9. CASE NotifySuspended(c)
    BY <2>9 DEF NotifySuspended, NotifyLoop, vcpu_notify_event, Signal
  <2>10. CASE Sleep(c) BY <2>10 DEF Sleep
  <2>11. CASE Wake(c)
    BY <2>11 DEF Wake, vcpu_require_state, vcpu_set_state_locked
  <2>12. CASE HltEnter(c) BY <2>12 DEF HltEnter
  <2>13. CASE HltCheck(c)
    BY <2>13 DEF HltCheck, vcpu_require_state, vcpu_set_state_locked
  <2>14. CASE HltCompare(c)
    BY <2>14 DEF HltCompare, vcpu_require_state, vcpu_set_state_locked
  <2>15. CASE VioapicWrite(c) BY <2>15 DEF VioapicWrite
  <2>16. CASE VioapicDest(c) BY <2>16 DEF VioapicDest
  <2>17. CASE vm_smp_rendezvous(c) BY <2>17 DEF vm_smp_rendezvous
  <2>18. CASE NotifyRendezvous(c)
    BY <2>18 DEF NotifyRendezvous, NotifyLoop, vcpu_notify_event, Signal
  <2>19. CASE vm_handle_rendezvous(c) BY <2>19 DEF vm_handle_rendezvous
  <2>20. CASE RendezvousReturn(c) BY <2>20 DEF RendezvousReturn
  <2>21. CASE xh_vm_run(c) BY <2>21 DEF xh_vm_run, vcpu_freeze
  <2>22. CASE Restart(c)
    BY <2>22 DEF Restart, vcpu_require_state, vcpu_set_state_locked
  <2>23. CASE InjectInterrupts(c) BY <2>23 DEF InjectInterrupts
  <2>24. CASE CheckSuspended(c) BY <2>24 DEF CheckSuspended
  <2>25. CASE CheckRendezvous(c) BY <2>25 DEF CheckRendezvous
  <2>26. CASE vm_exit_rendezvous(c) BY <2>26 DEF vm_exit_rendezvous
  <2>27. CASE CheckPaused(c)
    BY <2>27 DEF CheckPaused, AfterRun, vcpu_require_state,
        vcpu_set_state_locked
  <2>28. CASE PauseWake(c)
    BY <2>28 DEF PauseWake, AfterRun, vcpu_require_state,
        vcpu_set_state_locked
  <2>29. CASE LeaveRun(c)
    BY <2>29 DEF LeaveRun, vcpu_require_state, vcpu_set_state_locked
  <2>30. CASE Dispatch(c) BY <2>30 DEF Dispatch
  <2>31. CASE ReturnToUser(c)
    BY <2>31 DEF ReturnToUser, vcpu_require_state, vcpu_set_state_locked
  <2>32. CASE vcpu_thread(c) BY <2>32 DEF vcpu_thread
  <2>33. CASE VcpuLoop(c) BY <2>33 DEF VcpuLoop
  <2>34. CASE SpawnThread(c) BY <2>34 DEF SpawnThread
  <2>35. CASE vcpu_delete(c) BY <2>35 DEF vcpu_delete
  <2>36. CASE ApExit(c) BY <2>36 DEF ApExit
  <2>37. CASE BspExit(c) BY <2>37 DEF BspExit
  <2>38. CASE GuestExit(c)
    BY <2>38 DEF GuestExit, GuestExits
  <2> QED BY <1>1, <2>1, <2>2, <2>3, <2>4, <2>5, <2>6, <2>7, <2>8, <2>9,
          <2>10, <2>11, <2>12, <2>13, <2>14, <2>15, <2>16, <2>17, <2>18,
          <2>19, <2>20, <2>21, <2>22, <2>23, <2>24, <2>25, <2>26, <2>27,
          <2>28, <2>29, <2>30, <2>31, <2>32, <2>33, <2>34, <2>35, <2>36,
          <2>37, <2>38 DEF ThreadStep
<1>2. CASE DevRaise BY <1>2 DEF DevRaise, thread
<1>3. CASE DevNotify BY <1>3 DEF DevNotify, vcpu_notify_event, Signal, thread
<1>4. CASE SignalPause BY <1>4 DEF SignalPause, thread
<1>5. CASE SignalUnpause BY <1>5 DEF SignalUnpause, thread
<1>6. CASE Terminated BY <1>6 DEF Terminated, vars, thread
<1>7. CASE UNCHANGED vars BY <1>7 DEF vars, thread
<1> QED BY <1>1, <1>2, <1>3, <1>4, <1>5, <1>6, <1>7 DEF Next

\* A step keeps halted_cpus exact.
LEMMA HaltStep ==
  ASSUME IInv, [Next]_vars
  PROVE  HaltedInHlt'
<1> USE NCpuAssumption, ExitsAssumption DEF IInv, TypeOK, CodeMatchesPc,
        HaltedInHlt, At, Goto, rdvv, pausev
<1>1. ASSUME NEW c \in Cpus, ThreadStep(c) \/ GuestExit(c)
      PROVE  HaltedInHlt'
  <2>1. CASE SuspendUser(c) BY <2>1 DEF SuspendUser, vm_suspend, How
  <2>2. CASE SuspendHalt(c) BY <2>2 DEF SuspendHalt, vm_suspend, How
  <2>3. CASE SuspendFault(c) BY <2>3 DEF SuspendFault, vm_suspend, How
  <2>4. CASE NotifyUser(c)
    BY <2>4 DEF NotifyUser, NotifyLoop, vcpu_notify_event, Signal
  <2>5. CASE NotifyHalt(c)
    BY <2>5 DEF NotifyHalt, NotifyLoop, vcpu_notify_event, Signal
  <2>6. CASE NotifyFault(c)
    BY <2>6 DEF NotifyFault, NotifyLoop, vcpu_notify_event, Signal
  <2>7. CASE HandleSuspend(c) BY <2>7 DEF HandleSuspend
  <2>8. CASE SuspendCheck(c)
    BY <2>8 DEF SuspendCheck, vcpu_require_state, vcpu_set_state_locked
  <2>9. CASE NotifySuspended(c)
    BY <2>9 DEF NotifySuspended, NotifyLoop, vcpu_notify_event, Signal
  <2>10. CASE Sleep(c) BY <2>10 DEF Sleep
  <2>11. CASE Wake(c)
    BY <2>11 DEF Wake, vcpu_require_state, vcpu_set_state_locked
  <2>12. CASE HltEnter(c) BY <2>12 DEF HltEnter
  <2>13. CASE HltCheck(c)
    BY <2>13 DEF HltCheck, vcpu_require_state, vcpu_set_state_locked
  <2>14. CASE HltCompare(c)
    BY <2>14 DEF HltCompare, vcpu_require_state, vcpu_set_state_locked
  <2>15. CASE VioapicWrite(c) BY <2>15 DEF VioapicWrite
  <2>16. CASE VioapicDest(c) BY <2>16 DEF VioapicDest
  <2>17. CASE vm_smp_rendezvous(c) BY <2>17 DEF vm_smp_rendezvous
  <2>18. CASE NotifyRendezvous(c)
    BY <2>18 DEF NotifyRendezvous, NotifyLoop, vcpu_notify_event, Signal
  <2>19. CASE vm_handle_rendezvous(c) BY <2>19 DEF vm_handle_rendezvous
  <2>20. CASE RendezvousReturn(c) BY <2>20 DEF RendezvousReturn
  <2>21. CASE xh_vm_run(c) BY <2>21 DEF xh_vm_run, vcpu_freeze
  <2>22. CASE Restart(c)
    BY <2>22 DEF Restart, vcpu_require_state, vcpu_set_state_locked
  <2>23. CASE InjectInterrupts(c) BY <2>23 DEF InjectInterrupts
  <2>24. CASE CheckSuspended(c) BY <2>24 DEF CheckSuspended
  <2>25. CASE CheckRendezvous(c) BY <2>25 DEF CheckRendezvous
  <2>26. CASE vm_exit_rendezvous(c) BY <2>26 DEF vm_exit_rendezvous
  <2>27. CASE CheckPaused(c)
    BY <2>27 DEF CheckPaused, AfterRun, vcpu_require_state,
        vcpu_set_state_locked
  <2>28. CASE PauseWake(c)
    BY <2>28 DEF PauseWake, AfterRun, vcpu_require_state,
        vcpu_set_state_locked
  <2>29. CASE LeaveRun(c)
    BY <2>29 DEF LeaveRun, vcpu_require_state, vcpu_set_state_locked
  <2>30. CASE Dispatch(c) BY <2>30 DEF Dispatch
  <2>31. CASE ReturnToUser(c)
    BY <2>31 DEF ReturnToUser, vcpu_require_state, vcpu_set_state_locked
  <2>32. CASE vcpu_thread(c) BY <2>32 DEF vcpu_thread
  <2>33. CASE VcpuLoop(c) BY <2>33 DEF VcpuLoop
  <2>34. CASE SpawnThread(c)
    BY <2>34 DEF SpawnThread, MaskMatchesPc
  <2>35. CASE vcpu_delete(c) BY <2>35 DEF vcpu_delete
  <2>36. CASE ApExit(c) BY <2>36 DEF ApExit
  <2>37. CASE BspExit(c) BY <2>37 DEF BspExit
  <2>38. CASE GuestExit(c) BY <2>38 DEF GuestExit
  <2> QED BY <1>1, <2>1, <2>2, <2>3, <2>4, <2>5, <2>6, <2>7, <2>8, <2>9,
          <2>10, <2>11, <2>12, <2>13, <2>14, <2>15, <2>16, <2>17, <2>18,
          <2>19, <2>20, <2>21, <2>22, <2>23, <2>24, <2>25, <2>26, <2>27,
          <2>28, <2>29, <2>30, <2>31, <2>32, <2>33, <2>34, <2>35, <2>36,
          <2>37, <2>38 DEF ThreadStep
<1>2. CASE DevRaise BY <1>2 DEF DevRaise, thread
<1>3. CASE DevNotify BY <1>3 DEF DevNotify, vcpu_notify_event, Signal, thread
<1>4. CASE SignalPause BY <1>4 DEF SignalPause, thread
<1>5. CASE SignalUnpause BY <1>5 DEF SignalUnpause, thread
<1>6. CASE Terminated BY <1>6 DEF Terminated, vars, thread
<1>7. CASE UNCHANGED vars BY <1>7 DEF vars, thread
<1> QED BY <1>1, <1>2, <1>3, <1>4, <1>5, <1>6, <1>7 DEF Next

\* No step asks for a state change that is refused.
LEMMA AbortStep ==
  ASSUME IInv, [Next]_vars
  PROVE  NoStateAbort'
<1> USE NCpuAssumption, ExitsAssumption DEF IInv, TypeOK, StateMatchesPc,
        NoStateAbort, At, Alive, Goto, rdvv, pausev, IdlePcs, RunningPcs,
        SleepingPcs, FrozenPcs, SuspendHow
<1>1. ASSUME NEW c \in Cpus, ThreadStep(c) \/ GuestExit(c)
      PROVE  NoStateAbort'
  <2>1. CASE SuspendUser(c) BY <2>1 DEF SuspendUser, vm_suspend, How
  <2>2. CASE SuspendHalt(c) BY <2>2 DEF SuspendHalt, vm_suspend, How
  <2>3. CASE SuspendFault(c) BY <2>3 DEF SuspendFault, vm_suspend, How
  <2>4. CASE NotifyUser(c)
    BY <2>4 DEF NotifyUser, NotifyLoop, vcpu_notify_event, Signal
  <2>5. CASE NotifyHalt(c)
    BY <2>5 DEF NotifyHalt, NotifyLoop, vcpu_notify_event, Signal
  <2>6. CASE NotifyFault(c)
    BY <2>6 DEF NotifyFault, NotifyLoop, vcpu_notify_event, Signal
  <2>7. CASE HandleSuspend(c) BY <2>7 DEF HandleSuspend
  <2>8. CASE SuspendCheck(c)
    BY <2>8 DEF SuspendCheck, vcpu_require_state, vcpu_set_state_locked
  <2>9. CASE NotifySuspended(c)
    BY <2>9 DEF NotifySuspended, NotifyLoop, vcpu_notify_event, Signal
  <2>10. CASE Sleep(c) BY <2>10 DEF Sleep
  <2>11. CASE Wake(c)
    BY <2>11 DEF Wake, vcpu_require_state, vcpu_set_state_locked
  <2>12. CASE HltEnter(c) BY <2>12 DEF HltEnter
  <2>13. CASE HltCheck(c)
    BY <2>13 DEF HltCheck, vcpu_require_state, vcpu_set_state_locked
  <2>14. CASE HltCompare(c)
    BY <2>14 DEF HltCompare, vcpu_require_state, vcpu_set_state_locked
  <2>15. CASE VioapicWrite(c) BY <2>15 DEF VioapicWrite
  <2>16. CASE VioapicDest(c) BY <2>16 DEF VioapicDest
  <2>17. CASE vm_smp_rendezvous(c) BY <2>17 DEF vm_smp_rendezvous
  <2>18. CASE NotifyRendezvous(c)
    BY <2>18 DEF NotifyRendezvous, NotifyLoop, vcpu_notify_event, Signal
  <2>19. CASE vm_handle_rendezvous(c) BY <2>19 DEF vm_handle_rendezvous
  <2>20. CASE RendezvousReturn(c) BY <2>20 DEF RendezvousReturn
  <2>21. CASE xh_vm_run(c) BY <2>21 DEF xh_vm_run, vcpu_freeze
  <2>22. CASE Restart(c)
    BY <2>22 DEF Restart, vcpu_require_state, vcpu_set_state_locked
  <2>23. CASE InjectInterrupts(c) BY <2>23 DEF InjectInterrupts
  <2>24. CASE CheckSuspended(c) BY <2>24 DEF CheckSuspended
  <2>25. CASE CheckRendezvous(c) BY <2>25 DEF CheckRendezvous
  <2>26. CASE vm_exit_rendezvous(c) BY <2>26 DEF vm_exit_rendezvous
  <2>27. CASE CheckPaused(c)
    BY <2>27 DEF CheckPaused, AfterRun, vcpu_require_state,
        vcpu_set_state_locked
  <2>28. CASE PauseWake(c)
    BY <2>28 DEF PauseWake, AfterRun, vcpu_require_state,
        vcpu_set_state_locked
  <2>29. CASE LeaveRun(c)
    BY <2>29 DEF LeaveRun, vcpu_require_state, vcpu_set_state_locked
  <2>30. CASE Dispatch(c) BY <2>30 DEF Dispatch
  <2>31. CASE ReturnToUser(c)
    BY <2>31 DEF ReturnToUser, vcpu_require_state, vcpu_set_state_locked
  <2>32. CASE vcpu_thread(c) BY <2>32 DEF vcpu_thread
  <2>33. CASE VcpuLoop(c) BY <2>33 DEF VcpuLoop
  <2>34. CASE SpawnThread(c) BY <2>34 DEF SpawnThread
  <2>35. CASE vcpu_delete(c) BY <2>35 DEF vcpu_delete
  <2>36. CASE ApExit(c) BY <2>36 DEF ApExit
  <2>37. CASE BspExit(c) BY <2>37 DEF BspExit
  <2>38. CASE GuestExit(c) BY <2>38 DEF GuestExit
  <2> QED BY <1>1, <2>1, <2>2, <2>3, <2>4, <2>5, <2>6, <2>7, <2>8, <2>9,
          <2>10, <2>11, <2>12, <2>13, <2>14, <2>15, <2>16, <2>17, <2>18,
          <2>19, <2>20, <2>21, <2>22, <2>23, <2>24, <2>25, <2>26, <2>27,
          <2>28, <2>29, <2>30, <2>31, <2>32, <2>33, <2>34, <2>35, <2>36,
          <2>37, <2>38 DEF ThreadStep
<1>2. CASE DevRaise BY <1>2 DEF DevRaise, thread
<1>3. CASE DevNotify BY <1>3 DEF DevNotify, vcpu_notify_event, Signal, thread
<1>4. CASE SignalPause BY <1>4 DEF SignalPause, thread
<1>5. CASE SignalUnpause BY <1>5 DEF SignalUnpause, thread
<1>6. CASE Terminated BY <1>6 DEF Terminated, vars, thread
<1>7. CASE UNCHANGED vars BY <1>7 DEF vars, thread
<1> QED BY <1>1, <1>2, <1>3, <1>4, <1>5, <1>6, <1>7 DEF Next

\* A step keeps the rendezvous invariant.  The case that matters is a pass of
\* vm_handle_rendezvous: a target that is not up to date yet is still
\* requested and not done, so that completion leaves none behind.
LEMMA RendezvousStep ==
  ASSUME IInv, RendezvousInv, [Next]_vars
  PROVE  RendezvousInv'
<1> USE NCpuAssumption, ExitsAssumption DEF IInv, TypeOK, RendezvousInv,
        RendezvousComplete, Initiator, At, Goto, rdvv, pausev
<1>1. ASSUME NEW c \in Cpus, ThreadStep(c) \/ GuestExit(c)
      PROVE  RendezvousInv'
  <2>1. CASE SuspendUser(c) BY <2>1 DEF SuspendUser, vm_suspend, How
  <2>2. CASE SuspendHalt(c) BY <2>2 DEF SuspendHalt, vm_suspend, How
  <2>3. CASE SuspendFault(c) BY <2>3 DEF SuspendFault, vm_suspend, How
  <2>4. CASE NotifyUser(c)
    BY <2>4 DEF NotifyUser, NotifyLoop, vcpu_notify_event, Signal
  <2>5. CASE NotifyHalt(c)
    BY <2>5 DEF NotifyHalt, NotifyLoop, vcpu_notify_event, Signal
  <2>6. CASE NotifyFault(c)
    BY <2>6 DEF NotifyFault, NotifyLoop, vcpu_notify_event, Signal
  <2>7. CASE HandleSuspend(c) BY <2>7 DEF HandleSuspend
  <2>8. CASE SuspendCheck(c)
    BY <2>8 DEF SuspendCheck, vcpu_require_state, vcpu_set_state_locked
  <2>9. CASE NotifySuspended(c)
    BY <2>9 DEF NotifySuspended, NotifyLoop, vcpu_notify_event, Signal
  <2>10. CASE Sleep(c) BY <2>10 DEF Sleep
  <2>11. CASE Wake(c)
    BY <2>11 DEF Wake, vcpu_require_state, vcpu_set_state_locked
  <2>12. CASE HltEnter(c) BY <2>12 DEF HltEnter
  <2>13. CASE HltCheck(c)
    BY <2>13 DEF HltCheck, vcpu_require_state, vcpu_set_state_locked
  <2>14. CASE HltCompare(c)
    BY <2>14 DEF HltCompare, vcpu_require_state, vcpu_set_state_locked
  <2>15. CASE VioapicWrite(c) BY <2>15 DEF VioapicWrite
  <2>16. CASE VioapicDest(c) BY <2>16 DEF VioapicDest
  <2>17. CASE vm_smp_rendezvous(c) BY <2>17 DEF vm_smp_rendezvous
  <2>18. CASE NotifyRendezvous(c)
    BY <2>18 DEF NotifyRendezvous, NotifyLoop, vcpu_notify_event, Signal
  <2>19. CASE vm_handle_rendezvous(c)
    <3> USE <2>19 DEF vm_handle_rendezvous
    <3>1. CASE ~rfunc
      <4>1. RendezvousComplete' BY <3>1
      <4> QED BY <3>1, <4>1
    <3>2. CASE rfunc
      <4> DEFINE r == req \cap active
                 d == IF c \in r THEN done \cup {c} ELSE done
      <4>1. /\ req' = r /\ done' = d /\ rfunc' = (d # r)
            /\ tmr' = IF c \in r \ done THEN [tmr EXCEPT ![c] = rtbl] ELSE tmr
            /\ pc' = [pc EXCEPT ![c] = IF d = r THEN ret[c] ELSE "rdv_wait"]
            /\ UNCHANGED <<ret, dest, wver, rtbl, active>>
        BY <3>2
      <4>2. \A x \in Cpus : /\ dest'[x] \subseteq active'
                            /\ wver'[x] <= rtbl' /\ tmr'[x] <= rtbl'
                            /\ (pc'[x] = "notify_v" => ret'[x] = "rdv_ret")
        BY <4>1
      <4>3. \A x \in Cpus : tmr'[x] >= tmr[x]
        BY <4>1
      <4>4. ASSUME NEW x \in Cpus, Initiator(x), NEW y \in dest[x]
            PROVE  tmr'[y] >= wver'[x] \/ (d # r /\ y \in r \ d)
        <5>1. tmr[y] >= wver[x] \/ y \in req \ done
          BY <4>4
        <5>2. CASE tmr[y] >= wver[x]
          BY <5>2, <4>1, <4>3
        <5>3. CASE y \in req \ done
          <6>1. y \in r BY <5>3
          <6>2. CASE y = c BY <6>1, <6>2, <5>3, <4>1
          <6>3. CASE y # c BY <6>1, <6>3, <5>3, <4>1
          <6> QED BY <6>2, <6>3
        <5> QED BY <5>1, <5>2, <5>3
      <4>5. \A x \in Cpus : Initiator(x)' => Initiator(x)
        BY <4>1
      <4>6. \A x \in Cpus : Initiator(x)' =>
              \A y \in dest'[x] :
                tmr'[y] >= wver'[x] \/ (rfunc' /\ y \in req' \ done')
        BY <4>1, <4>4, <4>5
      <4>7. rfunc' => \E x \in Cpus : Initiator(x)'
        BY <3>2, <4>1
      <4>8. RendezvousComplete'
        <5> SUFFICES ASSUME NEW x \in Cpus, pc'[x] = "rdv_ret", NEW y \in dest'[x]
                     PROVE  tmr'[y] >= wver'[x]
          OBVIOUS
        <5>1. CASE x = c BY <5>1, <4>1, <4>4
        <5>2. CASE x # c BY <5>2, <4>1, <4>3
        <5> QED BY <5>1, <5>2
      <4> QED BY <4>2, <4>6, <4>7, <4>8
    <3> QED BY <3>1, <3>2
  <2>20. CASE RendezvousReturn(c) BY <2>20 DEF RendezvousReturn
  <2>21. CASE xh_vm_run(c) BY <2>21 DEF xh_vm_run, vcpu_freeze
  <2>22. CASE Restart(c)
    BY <2>22 DEF Restart, vcpu_require_state, vcpu_set_state_locked
  <2>23. CASE InjectInterrupts(c) BY <2>23 DEF InjectInterrupts
  <2>24. CASE CheckSuspended(c) BY <2>24 DEF CheckSuspended
  <2>25. CASE CheckRendezvous(c) BY <2>25 DEF CheckRendezvous
  <2>26. CASE vm_exit_rendezvous(c) BY <2>26 DEF vm_exit_rendezvous
  <2>27. CASE CheckPaused(c)
    BY <2>27 DEF CheckPaused, AfterRun, vcpu_require_state,
        vcpu_set_state_locked
  <2>28. CASE PauseWake(c)
    BY <2>28 DEF PauseWake, AfterRun, vcpu_require_state,
        vcpu_set_state_locked
  <2>29. CASE LeaveRun(c)
    BY <2>29 DEF LeaveRun, vcpu_require_state, vcpu_set_state_locked
  <2>30. CASE Dispatch(c) BY <2>30 DEF Dispatch
  <2>31. CASE ReturnToUser(c)
    BY <2>31 DEF ReturnToUser, vcpu_require_state, vcpu_set_state_locked
  <2>32. CASE vcpu_thread(c) BY <2>32 DEF vcpu_thread
  <2>33. CASE VcpuLoop(c) BY <2>33 DEF VcpuLoop
  <2>34. CASE SpawnThread(c)
    BY <2>34 DEF SpawnThread, MaskMatchesPc
  <2>35. CASE vcpu_delete(c) BY <2>35 DEF vcpu_delete
  <2>36. CASE ApExit(c) BY <2>36 DEF ApExit
  <2>37. CASE BspExit(c) BY <2>37 DEF BspExit
  <2>38. CASE GuestExit(c) BY <2>38 DEF GuestExit
  <2> QED BY <1>1, <2>1, <2>2, <2>3, <2>4, <2>5, <2>6, <2>7, <2>8, <2>9,
          <2>10, <2>11, <2>12, <2>13, <2>14, <2>15, <2>16, <2>17, <2>18,
          <2>19, <2>20, <2>21, <2>22, <2>23, <2>24, <2>25, <2>26, <2>27,
          <2>28, <2>29, <2>30, <2>31, <2>32, <2>33, <2>34, <2>35, <2>36,
          <2>37, <2>38 DEF ThreadStep
<1>2. CASE DevRaise BY <1>2 DEF DevRaise, thread
<1>3. CASE DevNotify BY <1>3 DEF DevNotify, vcpu_notify_event, Signal, thread
<1>4. CASE SignalPause BY <1>4 DEF SignalPause, thread
<1>5. CASE SignalUnpause BY <1>5 DEF SignalUnpause, thread
<1>6. CASE Terminated BY <1>6 DEF Terminated, vars, thread
<1>7. CASE UNCHANGED vars BY <1>7 DEF vars, thread
<1> QED BY <1>1, <1>2, <1>3, <1>4, <1>5, <1>6, <1>7 DEF Next

\* A step keeps the suspension invariant: a suspended vcpu stays parked, and
\* once one has passed the wait no vcpu is activated.
LEMMA SuspendStep ==
  ASSUME IInv, RendezvousInv, SuspendInv, [Next]_vars
  PROVE  SuspendInv'
<1> USE NCpuAssumption, ExitsAssumption DEF IInv, TypeOK, MaskMatchesPc,
        SuspendInv, Parked, PastSuspend, At, Goto, rdvv, pausev
<1>1. ASSUME NEW c \in Cpus, ThreadStep(c) \/ GuestExit(c)
      PROVE  SuspendInv'
  <2>1. CASE SuspendUser(c) BY <2>1 DEF SuspendUser, vm_suspend, How
  <2>2. CASE SuspendHalt(c) BY <2>2 DEF SuspendHalt, vm_suspend, How
  <2>3. CASE SuspendFault(c) BY <2>3 DEF SuspendFault, vm_suspend, How
  <2>4. CASE NotifyUser(c)
    BY <2>4 DEF NotifyUser, NotifyLoop, vcpu_notify_event, Signal
  <2>5. CASE NotifyHalt(c)
    BY <2>5 DEF NotifyHalt, NotifyLoop, vcpu_notify_event, Signal
  <2>6. CASE NotifyFault(c)
    BY <2>6 DEF NotifyFault, NotifyLoop, vcpu_notify_event, Signal
  <2>7. CASE HandleSuspend(c) BY <2>7 DEF HandleSuspend
  <2>8. CASE SuspendCheck(c)
    BY <2>8 DEF SuspendCheck, vcpu_require_state, vcpu_set_state_locked
  <2>9. CASE NotifySuspended(c)
    BY <2>9 DEF NotifySuspended, NotifyLoop, vcpu_notify_event, Signal
  <2>10. CASE Sleep(c) BY <2>10 DEF Sleep
  <2>11. CASE Wake(c)
    BY <2>11 DEF Wake, vcpu_require_state, vcpu_set_state_locked
  <2>12. CASE HltEnter(c) BY <2>12 DEF HltEnter
  <2>13. CASE HltCheck(c)
    BY <2>13 DEF HltCheck, vcpu_require_state, vcpu_set_state_locked
  <2>14. CASE HltCompare(c)
    BY <2>14 DEF HltCompare, vcpu_require_state, vcpu_set_state_locked
  <2>15. CASE VioapicWrite(c) BY <2>15 DEF VioapicWrite
  <2>16. CASE VioapicDest(c) BY <2>16 DEF VioapicDest
  <2>17. CASE vm_smp_rendezvous(c) BY <2>17 DEF vm_smp_rendezvous
  <2>18. CASE NotifyRendezvous(c)
    BY <2>18 DEF NotifyRendezvous, NotifyLoop, RendezvousInv
  <2>19. CASE vm_handle_rendezvous(c) BY <2>19 DEF vm_handle_rendezvous
  <2>20. CASE RendezvousReturn(c) BY <2>20 DEF RendezvousReturn
  <2>21. CASE xh_vm_run(c) BY <2>21 DEF xh_vm_run, vcpu_freeze
  <2>22. CASE Restart(c)
    BY <2>22 DEF Restart, vcpu_require_state, vcpu_set_state_locked
  <2>23. CASE InjectInterrupts(c) BY <2>23 DEF InjectInterrupts
  <2>24. CASE CheckSuspended(c) BY <2>24 DEF CheckSuspended
  <2>25. CASE CheckRendezvous(c) BY <2>25 DEF CheckRendezvous
  <2>26. CASE vm_exit_rendezvous(c) BY <2>26 DEF vm_exit_rendezvous
  <2>27. CASE CheckPaused(c)
    BY <2>27 DEF CheckPaused, AfterRun, vcpu_require_state,
        vcpu_set_state_locked
  <2>28. CASE PauseWake(c)
    BY <2>28 DEF PauseWake, AfterRun, vcpu_require_state,
        vcpu_set_state_locked
  <2>29. CASE LeaveRun(c)
    BY <2>29 DEF LeaveRun, vcpu_require_state, vcpu_set_state_locked
  <2>30. CASE Dispatch(c) BY <2>30 DEF Dispatch
  <2>31. CASE ReturnToUser(c)
    BY <2>31 DEF ReturnToUser, vcpu_require_state, vcpu_set_state_locked
  <2>32. CASE vcpu_thread(c) BY <2>32 DEF vcpu_thread
  <2>33. CASE VcpuLoop(c) BY <2>33 DEF VcpuLoop
  <2>34. CASE SpawnThread(c) BY <2>34 DEF SpawnThread
  <2>35. CASE vcpu_delete(c) BY <2>35 DEF vcpu_delete
  <2>36. CASE ApExit(c) BY <2>36 DEF ApExit
  <2>37. CASE BspExit(c) BY <2>37 DEF BspExit
  <2>38. CASE GuestExit(c) BY <2>38 DEF GuestExit
  <2> QED BY <1>1, <2>1, <2>2, <2>3, <2>4, <2>5, <2>6, <2>7, <2>8, <2>9,
          <2>10, <2>11, <2>12, <2>13, <2>14, <2>15, <2>16, <2>17, <2>18,
          <2>19, <2>20, <2>21, <2>22, <2>23, <2>24, <2>25, <2>26, <2>27,
          <2>28, <2>29, <2>30, <2>31, <2>32, <2>33, <2>34, <2>35, <2>36,
          <2>37, <2>38 DEF ThreadStep
<1>2. CASE DevRaise BY <1>2 DEF DevRaise, thread
<1>3. CASE DevNotify BY <1>3 DEF DevNotify, vcpu_notify_event, Signal, thread
<1>4. CASE SignalPause BY <1>4 DEF SignalPause, thread
<1>5. CASE SignalUnpause BY <1>5 DEF SignalUnpause, thread
<1>6. CASE Terminated BY <1>6 DEF Terminated, vars, thread
<1>7. CASE UNCHANGED vars BY <1>7 DEF vars, thread
<1> QED BY <1>1, <1>2, <1>3, <1>4, <1>5, <1>6, <1>7 DEF Next

\* A step keeps the threads invariant.
LEMMA ThreadsStep ==
  ASSUME IInv, RendezvousInv, SuspendInv, ThreadsInv, [Next]_vars
  PROVE  ThreadsInv'
<1> USE BSPInCpus, ExitsAssumption DEF IInv, TypeOK, MaskMatchesPc,
        ThreadsInv, At, Goto, rdvv, pausev
<1>1. ASSUME NEW c \in Cpus, ThreadStep(c) \/ GuestExit(c)
      PROVE  ThreadsInv'
  <2>1. CASE SuspendUser(c) BY <2>1 DEF SuspendUser, vm_suspend, How
  <2>2. CASE SuspendHalt(c) BY <2>2 DEF SuspendHalt, vm_suspend, How
  <2>3. CASE SuspendFault(c) BY <2>3 DEF SuspendFault, vm_suspend, How
  <2>4. CASE NotifyUser(c)
    BY <2>4 DEF NotifyUser, NotifyLoop, vcpu_notify_event, Signal
  <2>5. CASE NotifyHalt(c)
    BY <2>5 DEF NotifyHalt, NotifyLoop, vcpu_notify_event, Signal
  <2>6. CASE NotifyFault(c)
    BY <2>6 DEF NotifyFault, NotifyLoop, vcpu_notify_event, Signal
  <2>7. CASE HandleSuspend(c) BY <2>7 DEF HandleSuspend
  <2>8. CASE SuspendCheck(c)
    BY <2>8 DEF SuspendCheck, vcpu_require_state, vcpu_set_state_locked
  <2>9. CASE NotifySuspended(c)
    BY <2>9 DEF NotifySuspended, NotifyLoop, vcpu_notify_event, Signal
  <2>10. CASE Sleep(c) BY <2>10 DEF Sleep
  <2>11. CASE Wake(c)
    BY <2>11 DEF Wake, vcpu_require_state, vcpu_set_state_locked
  <2>12. CASE HltEnter(c) BY <2>12 DEF HltEnter
  <2>13. CASE HltCheck(c)
    BY <2>13 DEF HltCheck, vcpu_require_state, vcpu_set_state_locked
  <2>14. CASE HltCompare(c)
    BY <2>14 DEF HltCompare, vcpu_require_state, vcpu_set_state_locked
  <2>15. CASE VioapicWrite(c) BY <2>15 DEF VioapicWrite
  <2>16. CASE VioapicDest(c) BY <2>16 DEF VioapicDest
  <2>17. CASE vm_smp_rendezvous(c) BY <2>17 DEF vm_smp_rendezvous
  <2>18. CASE NotifyRendezvous(c)
    BY <2>18 DEF NotifyRendezvous, NotifyLoop, vcpu_notify_event, Signal
  <2>19. CASE vm_handle_rendezvous(c) BY <2>19 DEF vm_handle_rendezvous
  <2>20. CASE RendezvousReturn(c) BY <2>20 DEF RendezvousReturn
  <2>21. CASE xh_vm_run(c) BY <2>21 DEF xh_vm_run, vcpu_freeze
  <2>22. CASE Restart(c)
    BY <2>22 DEF Restart, vcpu_require_state, vcpu_set_state_locked
  <2>23. CASE InjectInterrupts(c) BY <2>23 DEF InjectInterrupts
  <2>24. CASE CheckSuspended(c) BY <2>24 DEF CheckSuspended
  <2>25. CASE CheckRendezvous(c) BY <2>25 DEF CheckRendezvous
  <2>26. CASE vm_exit_rendezvous(c) BY <2>26 DEF vm_exit_rendezvous
  <2>27. CASE CheckPaused(c)
    BY <2>27 DEF CheckPaused, AfterRun, vcpu_require_state,
        vcpu_set_state_locked
  <2>28. CASE PauseWake(c)
    BY <2>28 DEF PauseWake, AfterRun, vcpu_require_state,
        vcpu_set_state_locked
  <2>29. CASE LeaveRun(c)
    BY <2>29 DEF LeaveRun, vcpu_require_state, vcpu_set_state_locked
  <2>30. CASE Dispatch(c) BY <2>30 DEF Dispatch
  <2>31. CASE ReturnToUser(c)
    BY <2>31 DEF ReturnToUser, vcpu_require_state, vcpu_set_state_locked
  <2>32. CASE vcpu_thread(c) BY <2>32 DEF vcpu_thread
  <2>33. CASE VcpuLoop(c) BY <2>33 DEF VcpuLoop
  <2>34. CASE SpawnThread(c)
    <3>1. PICK new \in active \ cpumask :
            pc' = [pc EXCEPT ![c] = "user_run", ![new] = "create"]
      BY <2>34 DEF SpawnThread
    <3>2. /\ c = BSP /\ pc[c] = "spawn" /\ c \in active /\ c \notin suspended
          /\ UNCHANGED <<active, code>>
      BY <2>34 DEF SpawnThread, SuspendInv, Parked
    <3>3. pc[new] = "none"
      <4>1. pc[new] \in {"none", "sig", "gone", "bsp_chk", "bsp_wait"}
        BY <3>1
      <4>2. CASE pc[new] \in {"sig", "gone", "bsp_chk", "bsp_wait"}
        <5>1. new \in PastSuspend
          BY <4>2 DEF SuspendInv, PastSuspend
        <5> QED BY <5>1, <3>2 DEF SuspendInv
      <4> QED BY <4>1, <4>2
    <3> QED BY <3>1, <3>2, <3>3
  <2>35. CASE vcpu_delete(c) BY <2>35 DEF vcpu_delete
  <2>36. CASE ApExit(c) BY <2>36 DEF ApExit
  <2>37. CASE BspExit(c) BY <2>37 DEF BspExit
  <2>38. CASE GuestExit(c) BY <2>38 DEF GuestExit
  <2> QED BY <1>1, <2>1, <2>2, <2>3, <2>4, <2>5, <2>6, <2>7, <2>8, <2>9,
          <2>10, <2>11, <2>12, <2>13, <2>14, <2>15, <2>16, <2>17, <2>18,
          <2>19, <2>20, <2>21, <2>22, <2>23, <2>24, <2>25, <2>26, <2>27,
          <2>28, <2>29, <2>30, <2>31, <2>32, <2>33, <2>34, <2>35, <2>36,
          <2>37, <2>38 DEF ThreadStep
<1>2. CASE DevRaise BY <1>2 DEF DevRaise, thread
<1>3. CASE DevNotify BY <1>3 DEF DevNotify, vcpu_notify_event, Signal, thread
<1>4. CASE SignalPause BY <1>4 DEF SignalPause, thread
<1>5. CASE SignalUnpause BY <1>5 DEF SignalUnpause, thread
<1>6. CASE Terminated BY <1>6 DEF Terminated, vars, thread
<1>7. CASE UNCHANGED vars BY <1>7 DEF vars, thread
<1> QED BY <1>1, <1>2, <1>3, <1>4, <1>5, <1>6, <1>7 DEF Next

\* Only the BSP ends the process with a suspend reason, and only when every
\* other thread has left cpumask.
LEMMA BspExitStep ==
  ASSUME IInv, ThreadsInv, BspExitsLast, [Next]_vars
  PROVE  BspExitsLast'
<1> USE BSPInCpus DEF SuspendHow, BspExitsLast, At, Alive, Goto
<1>1. ASSUME NEW c \in Cpus, ThreadStep(c) \/ GuestExit(c)
      PROVE  BspExitsLast'
  <2>1. CASE SuspendUser(c) BY <2>1 DEF SuspendUser, vm_suspend, How
  <2>2. CASE SuspendHalt(c) BY <2>2 DEF SuspendHalt, vm_suspend, How
  <2>3. CASE SuspendFault(c) BY <2>3 DEF SuspendFault, vm_suspend, How
  <2>4. CASE NotifyUser(c)
    BY <2>4 DEF NotifyUser, NotifyLoop, vcpu_notify_event, Signal
  <2>5. CASE NotifyHalt(c)
    BY <2>5 DEF NotifyHalt, NotifyLoop, vcpu_notify_event, Signal
  <2>6. CASE NotifyFault(c)
    BY <2>6 DEF NotifyFault, NotifyLoop, vcpu_notify_event, Signal
  <2>7. CASE HandleSuspend(c) BY <2>7 DEF HandleSuspend
  <2>8. CASE SuspendCheck(c)
    BY <2>8 DEF SuspendCheck, vcpu_require_state, vcpu_set_state_locked
  <2>9. CASE NotifySuspended(c)
    BY <2>9 DEF NotifySuspended, NotifyLoop, vcpu_notify_event, Signal
  <2>10. CASE Sleep(c) BY <2>10 DEF Sleep
  <2>11. CASE Wake(c)
    BY <2>11 DEF Wake, vcpu_require_state, vcpu_set_state_locked
  <2>12. CASE HltEnter(c) BY <2>12 DEF HltEnter
  <2>13. CASE HltCheck(c)
    BY <2>13 DEF HltCheck, vcpu_require_state, vcpu_set_state_locked
  <2>14. CASE HltCompare(c)
    BY <2>14 DEF HltCompare, vcpu_require_state, vcpu_set_state_locked
  <2>15. CASE VioapicWrite(c) BY <2>15 DEF VioapicWrite
  <2>16. CASE VioapicDest(c) BY <2>16 DEF VioapicDest
  <2>17. CASE vm_smp_rendezvous(c) BY <2>17 DEF vm_smp_rendezvous
  <2>18. CASE NotifyRendezvous(c)
    BY <2>18 DEF NotifyRendezvous, NotifyLoop, vcpu_notify_event, Signal
  <2>19. CASE vm_handle_rendezvous(c) BY <2>19 DEF vm_handle_rendezvous
  <2>20. CASE RendezvousReturn(c) BY <2>20 DEF RendezvousReturn
  <2>21. CASE xh_vm_run(c) BY <2>21 DEF xh_vm_run, vcpu_freeze
  <2>22. CASE Restart(c)
    BY <2>22 DEF Restart, vcpu_require_state, vcpu_set_state_locked
  <2>23. CASE InjectInterrupts(c) BY <2>23 DEF InjectInterrupts
  <2>24. CASE CheckSuspended(c) BY <2>24 DEF CheckSuspended
  <2>25. CASE CheckRendezvous(c) BY <2>25 DEF CheckRendezvous
  <2>26. CASE vm_exit_rendezvous(c) BY <2>26 DEF vm_exit_rendezvous
  <2>27. CASE CheckPaused(c)
    BY <2>27 DEF CheckPaused, AfterRun, vcpu_require_state,
        vcpu_set_state_locked
  <2>28. CASE PauseWake(c)
    BY <2>28 DEF PauseWake, AfterRun, vcpu_require_state,
        vcpu_set_state_locked
  <2>29. CASE LeaveRun(c)
    BY <2>29 DEF LeaveRun, vcpu_require_state, vcpu_set_state_locked
  <2>30. CASE Dispatch(c) BY <2>30 DEF Dispatch
  <2>31. CASE ReturnToUser(c)
    BY <2>31 DEF ReturnToUser, vcpu_require_state, vcpu_set_state_locked
  <2>32. CASE vcpu_thread(c) BY <2>32 DEF vcpu_thread
  <2>33. CASE VcpuLoop(c) BY <2>33 DEF VcpuLoop
  <2>34. CASE SpawnThread(c) BY <2>34 DEF SpawnThread
  <2>35. CASE vcpu_delete(c) BY <2>35 DEF vcpu_delete
  <2>36. CASE ApExit(c) BY <2>36 DEF ApExit
  <2>37. CASE BspExit(c)
    BY <2>37, BSPInCpus
       DEF IInv, TypeOK, MaskMatchesPc, CodeMatchesPc, ThreadsInv, BspExit
  <2>38. CASE GuestExit(c) BY <2>38 DEF GuestExit
  <2> QED BY <1>1, <2>1, <2>2, <2>3, <2>4, <2>5, <2>6, <2>7, <2>8, <2>9,
          <2>10, <2>11, <2>12, <2>13, <2>14, <2>15, <2>16, <2>17, <2>18,
          <2>19, <2>20, <2>21, <2>22, <2>23, <2>24, <2>25, <2>26, <2>27,
          <2>28, <2>29, <2>30, <2>31, <2>32, <2>33, <2>34, <2>35, <2>36,
          <2>37, <2>38 DEF ThreadStep
<1>2. CASE DevRaise
  BY <1>2 DEF DevRaise
<1>3. CASE DevNotify
  BY <1>3 DEF DevNotify
<1>4. CASE SignalPause
  BY <1>4 DEF SignalPause
<1>5. CASE SignalUnpause
  BY <1>5 DEF SignalUnpause
<1>6. CASE Terminated BY <1>6 DEF Terminated, vars, thread
<1>7. CASE UNCHANGED vars BY <1>7 DEF vars, thread
<1> QED BY <1>1, <1>2, <1>3, <1>4, <1>5, <1>6, <1>7 DEF Next

\* No lifecycle assertion fails: a thread that calls vm_run is not suspended,
\* one that halts is not in halted_cpus, one that is deleted is in cpumask.
LEMMA LifecycleStep ==
  ASSUME IInv, SuspendInv, NoLifecycleAbort, [Next]_vars
  PROVE  NoLifecycleAbort'
<1> USE NCpuAssumption, ExitsAssumption DEF IInv, TypeOK, MaskMatchesPc,
        HaltedInHlt, SuspendInv, Parked, NoLifecycleAbort, SuspendHow, At,
        Alive, Goto
<1>1. ASSUME NEW c \in Cpus, ThreadStep(c) \/ GuestExit(c)
      PROVE  NoLifecycleAbort'
  <2>1. CASE SuspendUser(c) BY <2>1 DEF SuspendUser, vm_suspend, How
  <2>2. CASE SuspendHalt(c) BY <2>2 DEF SuspendHalt, vm_suspend, How
  <2>3. CASE SuspendFault(c) BY <2>3 DEF SuspendFault, vm_suspend, How
  <2>4. CASE NotifyUser(c)
    BY <2>4 DEF NotifyUser, NotifyLoop, vcpu_notify_event, Signal
  <2>5. CASE NotifyHalt(c)
    BY <2>5 DEF NotifyHalt, NotifyLoop, vcpu_notify_event, Signal
  <2>6. CASE NotifyFault(c)
    BY <2>6 DEF NotifyFault, NotifyLoop, vcpu_notify_event, Signal
  <2>7. CASE HandleSuspend(c) BY <2>7 DEF HandleSuspend
  <2>8. CASE SuspendCheck(c)
    BY <2>8 DEF SuspendCheck, vcpu_require_state, vcpu_set_state_locked
  <2>9. CASE NotifySuspended(c)
    BY <2>9 DEF NotifySuspended, NotifyLoop, vcpu_notify_event, Signal
  <2>10. CASE Sleep(c) BY <2>10 DEF Sleep
  <2>11. CASE Wake(c)
    BY <2>11 DEF Wake, vcpu_require_state, vcpu_set_state_locked
  <2>12. CASE HltEnter(c) BY <2>12 DEF HltEnter
  <2>13. CASE HltCheck(c)
    BY <2>13 DEF HltCheck, vcpu_require_state, vcpu_set_state_locked
  <2>14. CASE HltCompare(c)
    BY <2>14 DEF HltCompare, vcpu_require_state, vcpu_set_state_locked
  <2>15. CASE VioapicWrite(c) BY <2>15 DEF VioapicWrite
  <2>16. CASE VioapicDest(c) BY <2>16 DEF VioapicDest
  <2>17. CASE vm_smp_rendezvous(c) BY <2>17 DEF vm_smp_rendezvous
  <2>18. CASE NotifyRendezvous(c)
    BY <2>18 DEF NotifyRendezvous, NotifyLoop, vcpu_notify_event, Signal
  <2>19. CASE vm_handle_rendezvous(c) BY <2>19 DEF vm_handle_rendezvous
  <2>20. CASE RendezvousReturn(c) BY <2>20 DEF RendezvousReturn
  <2>21. CASE xh_vm_run(c) BY <2>21 DEF xh_vm_run, vcpu_freeze
  <2>22. CASE Restart(c)
    BY <2>22 DEF Restart, vcpu_require_state, vcpu_set_state_locked
  <2>23. CASE InjectInterrupts(c) BY <2>23 DEF InjectInterrupts
  <2>24. CASE CheckSuspended(c) BY <2>24 DEF CheckSuspended
  <2>25. CASE CheckRendezvous(c) BY <2>25 DEF CheckRendezvous
  <2>26. CASE vm_exit_rendezvous(c) BY <2>26 DEF vm_exit_rendezvous
  <2>27. CASE CheckPaused(c)
    BY <2>27 DEF CheckPaused, AfterRun, vcpu_require_state,
        vcpu_set_state_locked
  <2>28. CASE PauseWake(c)
    BY <2>28 DEF PauseWake, AfterRun, vcpu_require_state,
        vcpu_set_state_locked
  <2>29. CASE LeaveRun(c)
    BY <2>29 DEF LeaveRun, vcpu_require_state, vcpu_set_state_locked
  <2>30. CASE Dispatch(c) BY <2>30 DEF Dispatch
  <2>31. CASE ReturnToUser(c)
    BY <2>31 DEF ReturnToUser, vcpu_require_state, vcpu_set_state_locked
  <2>32. CASE vcpu_thread(c) BY <2>32 DEF vcpu_thread
  <2>33. CASE VcpuLoop(c) BY <2>33 DEF VcpuLoop
  <2>34. CASE SpawnThread(c) BY <2>34 DEF SpawnThread
  <2>35. CASE vcpu_delete(c) BY <2>35 DEF vcpu_delete
  <2>36. CASE ApExit(c) BY <2>36 DEF ApExit
  <2>37. CASE BspExit(c) BY <2>37 DEF BspExit
  <2>38. CASE GuestExit(c) BY <2>38 DEF GuestExit
  <2> QED BY <1>1, <2>1, <2>2, <2>3, <2>4, <2>5, <2>6, <2>7, <2>8, <2>9,
          <2>10, <2>11, <2>12, <2>13, <2>14, <2>15, <2>16, <2>17, <2>18,
          <2>19, <2>20, <2>21, <2>22, <2>23, <2>24, <2>25, <2>26, <2>27,
          <2>28, <2>29, <2>30, <2>31, <2>32, <2>33, <2>34, <2>35, <2>36,
          <2>37, <2>38 DEF ThreadStep
<1>2. CASE DevRaise BY <1>2 DEF DevRaise, thread
<1>3. CASE DevNotify BY <1>3 DEF DevNotify, vcpu_notify_event, Signal, thread
<1>4. CASE SignalPause BY <1>4 DEF SignalPause, thread
<1>5. CASE SignalUnpause BY <1>5 DEF SignalUnpause, thread
<1>6. CASE Terminated BY <1>6 DEF Terminated, vars, thread
<1>7. CASE UNCHANGED vars BY <1>7 DEF vars, thread
<1> QED BY <1>1, <1>2, <1>3, <1>4, <1>5, <1>6, <1>7 DEF Next

\* Guest memory is protected while, and only while, vcpus wait for the end of
\* a pause.
LEMMA PauseStep ==
  ASSUME IInv, BSP \in active, PauseProtects, [Next]_vars
  PROVE  PauseProtects'
<1> USE NCpuAssumption, ExitsAssumption DEF IInv, TypeOK, MaskMatchesPc,
        PauseProtects, At, Goto, rdvv, pausev
<1>1. ASSUME NEW c \in Cpus, ThreadStep(c) \/ GuestExit(c)
      PROVE  PauseProtects'
  <2>1. CASE SuspendUser(c) BY <2>1 DEF SuspendUser, vm_suspend, How
  <2>2. CASE SuspendHalt(c) BY <2>2 DEF SuspendHalt, vm_suspend, How
  <2>3. CASE SuspendFault(c) BY <2>3 DEF SuspendFault, vm_suspend, How
  <2>4. CASE NotifyUser(c)
    BY <2>4 DEF NotifyUser, NotifyLoop, vcpu_notify_event, Signal
  <2>5. CASE NotifyHalt(c)
    BY <2>5 DEF NotifyHalt, NotifyLoop, vcpu_notify_event, Signal
  <2>6. CASE NotifyFault(c)
    BY <2>6 DEF NotifyFault, NotifyLoop, vcpu_notify_event, Signal
  <2>7. CASE HandleSuspend(c) BY <2>7 DEF HandleSuspend
  <2>8. CASE SuspendCheck(c)
    BY <2>8 DEF SuspendCheck, vcpu_require_state, vcpu_set_state_locked
  <2>9. CASE NotifySuspended(c)
    BY <2>9 DEF NotifySuspended, NotifyLoop, vcpu_notify_event, Signal
  <2>10. CASE Sleep(c) BY <2>10 DEF Sleep
  <2>11. CASE Wake(c)
    BY <2>11 DEF Wake, vcpu_require_state, vcpu_set_state_locked
  <2>12. CASE HltEnter(c) BY <2>12 DEF HltEnter
  <2>13. CASE HltCheck(c)
    BY <2>13 DEF HltCheck, vcpu_require_state, vcpu_set_state_locked
  <2>14. CASE HltCompare(c)
    BY <2>14 DEF HltCompare, vcpu_require_state, vcpu_set_state_locked
  <2>15. CASE VioapicWrite(c) BY <2>15 DEF VioapicWrite
  <2>16. CASE VioapicDest(c) BY <2>16 DEF VioapicDest
  <2>17. CASE vm_smp_rendezvous(c) BY <2>17 DEF vm_smp_rendezvous
  <2>18. CASE NotifyRendezvous(c)
    BY <2>18 DEF NotifyRendezvous, NotifyLoop, vcpu_notify_event, Signal
  <2>19. CASE vm_handle_rendezvous(c) BY <2>19 DEF vm_handle_rendezvous
  <2>20. CASE RendezvousReturn(c) BY <2>20 DEF RendezvousReturn
  <2>21. CASE xh_vm_run(c) BY <2>21 DEF xh_vm_run, vcpu_freeze
  <2>22. CASE Restart(c)
    BY <2>22 DEF Restart, vcpu_require_state, vcpu_set_state_locked
  <2>23. CASE InjectInterrupts(c) BY <2>23 DEF InjectInterrupts
  <2>24. CASE CheckSuspended(c) BY <2>24 DEF CheckSuspended
  <2>25. CASE CheckRendezvous(c) BY <2>25 DEF CheckRendezvous
  <2>26. CASE vm_exit_rendezvous(c) BY <2>26 DEF vm_exit_rendezvous
  <2>27. CASE CheckPaused(c)
    <3> USE <2>27 DEF CheckPaused, AfterRun, vcpu_require_state,
                    vcpu_set_state_locked, StateMatchesPc, RunningPcs
    <3>1. CASE paused BY <3>1
    <3>2. CASE ~paused BY <3>2
    <3> QED BY <3>1, <3>2
  <2>28. CASE PauseWake(c)
    <3> USE <2>28 DEF PauseWake, AfterRun, vcpu_require_state,
                    vcpu_set_state_locked, StateMatchesPc, FrozenPcs
    <3>1. CASE paused BY <3>1
    <3>2. CASE ~paused BY <3>2
    <3> QED BY <3>1, <3>2
  <2>29. CASE LeaveRun(c)
    BY <2>29 DEF LeaveRun, vcpu_require_state, vcpu_set_state_locked
  <2>30. CASE Dispatch(c) BY <2>30 DEF Dispatch
  <2>31. CASE ReturnToUser(c)
    BY <2>31 DEF ReturnToUser, vcpu_require_state, vcpu_set_state_locked
  <2>32. CASE vcpu_thread(c) BY <2>32 DEF vcpu_thread
  <2>33. CASE VcpuLoop(c) BY <2>33 DEF VcpuLoop
  <2>34. CASE SpawnThread(c) BY <2>34 DEF SpawnThread
  <2>35. CASE vcpu_delete(c) BY <2>35 DEF vcpu_delete
  <2>36. CASE ApExit(c) BY <2>36 DEF ApExit
  <2>37. CASE BspExit(c) BY <2>37 DEF BspExit
  <2>38. CASE GuestExit(c) BY <2>38 DEF GuestExit
  <2> QED BY <1>1, <2>1, <2>2, <2>3, <2>4, <2>5, <2>6, <2>7, <2>8, <2>9,
          <2>10, <2>11, <2>12, <2>13, <2>14, <2>15, <2>16, <2>17, <2>18,
          <2>19, <2>20, <2>21, <2>22, <2>23, <2>24, <2>25, <2>26, <2>27,
          <2>28, <2>29, <2>30, <2>31, <2>32, <2>33, <2>34, <2>35, <2>36,
          <2>37, <2>38 DEF ThreadStep
<1>2. CASE DevRaise BY <1>2 DEF DevRaise, thread
<1>3. CASE DevNotify BY <1>3 DEF DevNotify, vcpu_notify_event, Signal, thread
<1>4. CASE SignalPause BY <1>4 DEF SignalPause, thread
<1>5. CASE SignalUnpause BY <1>5 DEF SignalUnpause, thread
<1>6. CASE Terminated BY <1>6 DEF Terminated, vars, thread
<1>7. CASE UNCHANGED vars BY <1>7 DEF vars, thread
<1> QED BY <1>1, <1>2, <1>3, <1>4, <1>5, <1>6, <1>7 DEF Next

-----------------------------------------------------------------------------
\* In every initial state the vcpus are idle and only the BSP is active.
LEMMA InitInv ==
  Init => IInv /\ RendezvousInv /\ SuspendInv /\ ThreadsInv
<1> SUFFICES ASSUME Init
             PROVE  IInv /\ RendezvousInv /\ SuspendInv /\ ThreadsInv
  OBVIOUS
<1> USE BSPInCpus DEF Init
<1>1. TypeOK
  <2>1. /\ cur \in [Cpus -> 0 .. NCpu] /\ dev \in 0 .. NCpu
        /\ rtbl \in Nat /\ wver \in [Cpus -> Nat] /\ tmr \in [Cpus -> Nat]
    BY NCpuAssumption
  <2>2. /\ state \in [Cpus -> VcpuStates] /\ pc \in [Cpus -> Pcs]
        /\ code \in [Cpus -> Codes]
    BY DEF Pcs, IdlePcs, VcpuStates, Codes
  <2> QED BY <2>1, <2>2 DEF TypeOK
<1>2. StateMatchesPc
  BY DEF StateMatchesPc, IdlePcs, RunningPcs, SleepingPcs, FrozenPcs
<1>3. MaskMatchesPc /\ CodeMatchesPc /\ HaltedInHlt /\ NoStateAbort
  BY DEF MaskMatchesPc, CodeMatchesPc, HaltedInHlt, NoStateAbort
<1>4. RendezvousInv
  BY DEF RendezvousInv, RendezvousComplete, Initiator
<1>5. SuspendInv
  BY DEF SuspendInv, Parked, PastSuspend
<1>6. ThreadsInv
  BY DEF ThreadsInv
<1> QED BY <1>1, <1>2, <1>3, <1>4, <1>5, <1>6 DEF IInv

\* active_cpus never loses the BSP.
LEMMA BspActive == Spec => [](BSP \in active)
<1>1. Init => BSP \in active
  BY DEF Init
<1>2. BSP \in active /\ [Next]_vars => (BSP \in active)'
  BY DEF Next, ThreadStep, vars, thread, SuspendUser, SuspendHalt, SuspendFault,
     vm_suspend, NotifyUser, NotifyHalt, NotifyFault, NotifySuspended,
     NotifyRendezvous, NotifyLoop, HandleSuspend, SuspendCheck, Sleep, Wake,
     HltEnter, HltCheck, HltCompare, VioapicWrite, VioapicDest,
     vm_smp_rendezvous, vm_handle_rendezvous, RendezvousReturn, xh_vm_run,
     Restart, InjectInterrupts, CheckSuspended, CheckRendezvous,
     vm_exit_rendezvous, CheckPaused, PauseWake, LeaveRun, Dispatch,
     ReturnToUser, vcpu_thread, VcpuLoop, SpawnThread, vcpu_delete, ApExit,
     BspExit, GuestExit, DevRaise, DevNotify, SignalPause, SignalUnpause,
     Terminated
<1> QED BY <1>1, <1>2, PTL DEF Spec

\* The base invariant: types, the vcpu state every place in the code calls
\* for, the exit codes, halted_cpus; it needs nothing but itself.
THEOREM BaseInvariant == Spec => []IInv
<1>1. Init => IInv
  BY InitInv
<1>2. IInv /\ [Next]_vars => IInv'
  BY TypeStep, StateStep, MaskStep, CodeStep, HaltStep, AbortStep DEF IInv
<1> QED BY <1>1, <1>2, PTL DEF Spec

\* Type correctness of the vcpu threads for any number of vcpus.
THEOREM TypeCorrect == Spec => []TypeOK
<1>1. IInv => TypeOK
  BY DEF IInv
<1> QED BY <1>1, BaseInvariant, PTL

\* No interleaving makes vcpu_require_state, vcpu_freeze or
\* vm_check_for_unpause abort on a refused state transition.
THEOREM StatesNeverRefused == Spec => []NoStateAbort
<1>1. IInv => NoStateAbort
  BY DEF IInv
<1> QED BY <1>1, BaseInvariant, PTL

\* halted_cpus only holds vcpus halted with interrupts disabled, so that the
\* comparison with active_cpus in vm_handle_hlt means what it says.
THEOREM HaltedExact == Spec => []HaltedInHlt
<1>1. IInv => HaltedInHlt
  BY DEF IInv
<1> QED BY <1>1, BaseInvariant, PTL

\* The rendezvous invariant holds in every reachable state.
LEMMA RendezvousInvariant == Spec => []RendezvousInv
<1>1. Init => RendezvousInv
  BY InitInv
<1>2. IInv /\ RendezvousInv /\ [Next]_vars => RendezvousInv'
  BY RendezvousStep
<1> QED BY <1>1, <1>2, BaseInvariant, PTL DEF Spec

\* When vm_smp_rendezvous returns, every vcpu it was asked to reach has
\* recomputed its trigger-mode register after the write that caused it.
THEOREM RendezvousCorrect == Spec => []RendezvousComplete
<1>1. RendezvousInv => RendezvousComplete
  BY DEF RendezvousInv
<1> QED BY <1>1, RendezvousInvariant, PTL

\* The suspension invariant holds in every reachable state.
LEMMA SuspendInvariant == Spec => []SuspendInv
<1>1. Init => SuspendInv
  BY InitInv
<1>2. IInv /\ RendezvousInv /\ SuspendInv /\ [Next]_vars => SuspendInv'
  BY SuspendStep
<1> QED BY <1>1, <1>2, BaseInvariant, RendezvousInvariant, PTL DEF Spec

\* Once a vcpu leaves the wait of vm_handle_suspend, all the active ones are
\* parked, no rendezvous is in progress and no thread is being created.
THEOREM SuspendParksAll == Spec => []AllParked
<1>1. IInv /\ RendezvousInv /\ SuspendInv => AllParked
  BY DEF IInv, TypeOK, MaskMatchesPc, RendezvousInv, Initiator, SuspendInv,
         Parked, AllParked, RunningPcs
<1> QED BY <1>1, BaseInvariant, RendezvousInvariant, SuspendInvariant, PTL

\* The threads invariant holds in every reachable state.
LEMMA ThreadsInvariant == Spec => []ThreadsInv
<1>1. Init => ThreadsInv
  BY InitInv
<1>2. IInv /\ RendezvousInv /\ SuspendInv /\ ThreadsInv /\ [Next]_vars
        => ThreadsInv'
  BY ThreadsStep
<1> QED BY <1>1, <1>2, BaseInvariant, RendezvousInvariant, SuspendInvariant,
           PTL DEF Spec

\* The process ends with a suspend reason only after every AP is done.
THEOREM ProcessExitsLast == Spec => []BspExitsLast
<1>1. Init => BspExitsLast
  BY DEF Init, BspExitsLast, SuspendHow
<1>2. IInv /\ ThreadsInv /\ BspExitsLast /\ [Next]_vars => BspExitsLast'
  BY BspExitStep
<1> QED BY <1>1, <1>2, BaseInvariant, ThreadsInvariant, PTL DEF Spec

\* No vcpu halts twice, is deleted twice or runs again after suspending.
THEOREM LifecycleCorrect == Spec => []NoLifecycleAbort
<1>1. Init => NoLifecycleAbort
  BY DEF Init, NoLifecycleAbort
<1>2. IInv /\ SuspendInv /\ NoLifecycleAbort /\ [Next]_vars
        => NoLifecycleAbort'
  BY LifecycleStep
<1> QED BY <1>1, <1>2, BaseInvariant, SuspendInvariant, PTL DEF Spec

\* Memory protection follows the vcpus that wait for the end of a pause.
THEOREM PauseCorrect == Spec => []PauseProtects
<1>1. Init => PauseProtects
  BY BSPInCpus DEF Init, PauseProtects
<1>2. IInv /\ BSP \in active /\ PauseProtects /\ [Next]_vars => PauseProtects'
  BY PauseStep
<1> QED BY <1>1, <1>2, BaseInvariant, BspActive, PTL DEF Spec
=============================================================================
