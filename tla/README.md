# A TLA+ verification project for hyperkit

hyperkit runs one virtual machine per process on top of macOS's
Hypervisor.framework. `src/hyperkit.c` creates one thread per virtual cpu; the
threads run guest code (`lib/vmm`), and emulate what the guest touches:
interrupt controllers and timers (`lib/vmm/io`), PCI and its devices
(`lib/pci_*.c`), the UART, power management and the disk and network backends.
Besides the vcpu threads there are the callout thread (timers), the mevent
thread (kqueue events), one I/O thread per disk, and transmit/receive threads
of the virtio devices. What is hard to get right is what these threads do to
each other, and the state machines that guest accesses drive; this project
models those parts, checks them with TLC and proves the core of them with TLAPS.

Paths in this document are relative to the repository root; `PROJECT.json` maps
every definition to the lines it models, and lists components, runs, mutants,
findings, hazards and theorems.

## Running

    tlc -config vcpu_pause.cfg MCVcpuRun       # one run, see PROJECT.json "runs"
    tlapm VcpuRunProofs.tla                    # all proofs of one module

Every property of a passing run has a mutant in `PROJECT.json`: an operator that
changes a mapped definition the way a plausible bug would. The mutants stand
next to the definitions they replace and are marked `Mutant:` in the modules.

## Inventory

| component | state | operations | interacts with | what is hard |
|---|---|---|---|---|
| vcpu run loop (`lib/vmm/vmm.c`, `intel/vmx.c`, `vmm_api.c`, `hyperkit.c`) | vcpu state, active/suspended/halted sets, suspend reason, rendezvous, pause flag, cpumask | run, halt, suspend, rendezvous, notify, spin up, pause, exit | every device (notification), vioapic (rendezvous), pm.c and atkbdc.c (suspend) | lost wakeups, a vcpu that joins during a rendezvous or a shutdown, everyone waiting on everyone |
| callout (`lib/vmm/vmm_callout.c`) | sorted queue, `work`, flags per callout | arm, stop, drain, dispatch | vlapic, vhpet, vatpit, vrtc | re-arming races with the dispatch, the mutex is released around handlers |
| block_if (`lib/block_if.c`) | element pool, pending and busy queue, cancel list | request, cancel, close, I/O thread | AHCI, virtio-block, mevent (SIGCONT) | callbacks without the lock, requests that wait for others, cancel holding two locks |
| vlapic (`lib/vmm/io/vlapic.c`, `vmm_lapic.c`) | IRR, ISR, TMR, TPR/PPR, LVTs, ICR, timer, boot state | register access, accept, deliver, EOI, IPI, INIT/SIPI, timer | vcpu (notify), vioapic (EOI), callout | priorities, level interrupts whose EOI must reach the I/O APIC |
| vioapic (`lib/vmm/io/vioapic.c`) | redirection table, assertion counts | assert, deassert, pulse, register access, EOI | vlapic, vcpu rendezvous | a level that stays asserted must be delivered again after EOI |
| vatpic (`lib/vmm/io/vatpic.c`) | two 8259s: ICW/OCW, request, service, mask, priority | assert, deassert, pulse, acknowledge, EOI, commands | vatpit, vlapic LINT0 | rotation of priorities, cascade, spurious interrupts |
| vatpit, vhpet, vrtc, vpmtmr | counters, comparators, CMOS | register access, timer callbacks | callout, vatpic, vioapic | periodic re-arming, counters that wrap |
| VMX exit handling (`intel/vmx.c`, `vmcs.c`, `vmx_msr.c`) | VMCS fields, interrupt windows | exit reasons, event injection | vcpu run loop, vlapic | an event that is neither injected nor kept |
| instruction emulation (`vmm_instruction_emul.c`), task switch (`task_switch.c`) | decoded instruction | decode, emulate | guest memory, devices | boundary values |
| virtio core (`lib/virtio.c`) and devices (block, net, 9p, rnd, sock) | rings, per-device queues, connections | getchain, relchain, notify, reset; sock: connect, send, receive, credit, shutdown | mevent, block_if, host sockets | ring indices, interrupts that are suppressed, connection life cycle |
| AHCI (`lib/pci_ahci.c`) | port registers, command slots, free and busy requests | issue, complete, stop, reset | block_if, PCI interrupts | stop while requests are in flight |
| PCI (`pci_emul.c`, `pci_irq.c`, `pci_lpc.c`, `pci_hostbridge.c`, `pci_uart.c`) | BARs, config space, interrupt pins | config access, BAR decode, INTx, MSI | inout, mem | ranges registered and unregistered, a shared interrupt pin |
| mevent (`lib/mevent.c`) | event lists, change list | add, enable, disable, delete, dispatch | all asynchronous devices | deletion while the event is being dispatched |
| uart (`lib/uart_emul.c`) | FIFOs, registers | register access, receive | mevent, PCI/LPC interrupts | interrupt conditions, a full FIFO |
| mem, inout (`lib/mem.c`, `lib/inout.c`, `vmm_ioport.c`) | range tree and its cache, port table | register, unregister, emulate | every MMIO/PIO device | a stale cached range |
| power management (`lib/pm.c`), keyboard controller (`atkbdc.c`) | PM1 registers | reset, poweroff, sleep button | vcpu suspend | second suspend |
| tables and firmware (`acpitbl.c`, `mptbl.c`, `smbiostbl.c`, `firmware/`) | none after start-up | build once | guest memory | sequential, byte layout only |

## VcpuRun: vcpu threads, halt, suspend, rendezvous, pause

`pc[c]` is the point the thread of vcpu `c` has reached; a step is what the code
does between two points where another thread can observe or change what it uses.
`state` is `vcpu->state`; `active`, `suspended`, `halted`, `suspend`, `rfunc`,
`req`, `done` are the fields of `struct vm`; `kick` are outstanding
`hv_vcpu_interrupt`s, `woken` the threads whose condition variable has been
signalled; `rtbl`/`tmr` count redirection-table writes and what each vcpu's TMR
reflects, so that "the rendezvous reached everybody" is a statement about data
and not about flags.

| action | code |
|---|---|
| `xh_vm_run`, `Restart`, `InjectInterrupts`, `CheckSuspended`, `CheckRendezvous`, `GuestExit`, `AfterRun`, `LeaveRun`, `Dispatch`, `ReturnToUser` | `xh_vm_run`, `vm_run`, `vmx_run`, `vmx_exit_process` |
| `HltEnter`, `HltCheck`, `HltCompare`, `Sleep`, `Wake` | `vm_handle_hlt` |
| `HandleSuspend`, `SuspendCheck`, `NotifySuspended`, `SuspendUser/Halt/Fault`, `Notify*` | `vm_handle_suspend`, `vm_suspend` |
| `VioapicWrite`, `VioapicDest`, `vm_smp_rendezvous`, `vm_handle_rendezvous`, `RendezvousReturn` | `vioapic_write`, `vm_smp_rendezvous`, `vm_handle_rendezvous` |
| `CheckPaused`, `PauseWake`, `SignalPause`, `SignalUnpause` | `vm_check_for_unpause`, `vm_signal_pause` |
| `vcpu_thread`, `VcpuLoop`, `SpawnThread`, `vcpu_delete`, `ApExit`, `BspExit` | `hyperkit.c` |
| `DevRaise`, `DevNotify` | a device thread that makes an event pending and then calls `vcpu_notify_event` |

Runs (two vcpus; `Exits` says which guest exits a run has, `MaxWrites` bounds the I/O
APIC writes):

* `vcpu_rendezvous` (two writes, fairness): concurrent rendezvous, halts with interrupts
  off, spin-ups, resets, triple faults and pause signals at any point.
  `RendezvousComplete`, `AllParked`; `NoLifecycleAbort`: no assertion on the life cycle of
  a vcpu fails; `PauseProtects`: memory is protected exactly while vcpus are paused; and in
  the end `RendezvousReturns`, `SuspendLeadsToExit` (both if the user leaves the machine
  unpaused) and `HaltDetected` (a machine whose active vcpus have all halted with
  interrupts off is suspended).
* `vcpu_pause` (fairness with ticks): `PauseStops`, and `HaltWakes`: an interrupt that
  arrives around the beginning of a halt is served.
* `vcpu_notify_lost`: a statement of the source that the code does not keep (see
  "Findings").

Two vcpus give every pairwise race. What needs a third (a vcpu spun up while two
others are in a rendezvous or a shutdown) is covered by the theorems, which hold for
any number. NMIs of a device thread, which end a halt whether interrupts are
enabled or not, are in no run of `VcpuRun` and left to the theorems too.

Fairness (`FairSpec`): each thread's own steps are weakly fair (threads are
scheduled, a mutex that is released is granted), a vcpu that was kicked leaves
the guest (`hv_vcpu_interrupt` makes `hv_vcpu_run` return, also when it comes
just before the call), and a device that raised an event notifies. Nothing is
assumed of guest code, devices or the user. `TickSpec` adds that a guest exits
again and again, which host timer interrupts cause on every host cpu; only
`PauseStops` needs it, because pausing does not kick the vcpus. `HaltWakes`
holds only because the halt waits at most one second: the notification itself
can be lost.

### Proofs (VcpuRunProofs)

Proved for every number of vcpus and every choice of the other constants, from
the assumptions on the constants alone:

| theorem | statement |
|---|---|
| `TypeCorrect` | `Spec => []TypeOK` |
| `StatesNeverRefused` | `Spec => []NoStateAbort` |
| `HaltedExact` | `Spec => []HaltedInHlt` |
| `RendezvousCorrect` | `Spec => []RendezvousComplete` |
| `SuspendParksAll` | `Spec => []AllParked` |
| `ProcessExitsLast` | `Spec => []BspExitsLast` |
| `LifecycleCorrect` | `Spec => []NoLifecycleAbort` |
| `PauseCorrect` | `Spec => []PauseProtects` |

The inductive invariant comes in layers, each proved to be kept by every action
given the ones below it:

1. `IInv`: types; the vcpu state is the one the thread's place in the code calls
   for (`StateMatchesPc`), which is what makes every state transition legal; who
   is in `cpumask`; which exit code belongs to which handler; `HaltedInHlt`.
2. `RendezvousInv`: a target the initiator still waits for is requested and not
   done in the rendezvous in progress, and a rendezvous in progress has an
   initiator. `RendezvousComplete` alone is not inductive: when the last target
   finishes, it says nothing about who the rendezvous was for.
3. `SuspendInv`: a vcpu is in `suspended` exactly when its thread is at one of
   the parked points; once one is past the wait, `suspended = active`.
4. `ThreadsInv`: which active vcpus have no thread yet; at most the one the BSP
   is about to create. Without it a spin-up could slip past the shutdown.

`TypeOK`, `NoStateAbort`, `HaltedInHlt` and `BspExitsLast` are proved and need no run;
the other four are also properties of runs. Liveness and the findings stay with TLC.

## Timers: Callout, Vhpet, Vatpit, Vrtc, Ticks, VrtcClock

**Callout** (`vmm_callout.c`): `queue` is the linked list by timeout, `work` the flag that
makes the thread look again, `flags` the `CALLOUT_*` bits, `pc`/`cur`/`deadline` the
thread. `armed` and `fired` are history: whether a callout was armed and not stopped
since, and how its last firing came about. A client operation is one step, as it holds
`callout_mtx`; the thread's wait and the handler are not. `SpuriousWake` covers POSIX
spurious wakeups and the signal `callout_reset_sbt` sends after its unlock.
`callout_drain` is called only by the clean-up of devices (`vm_destroy`), which the
hyperkit process itself does not run before it exits.

**Vhpet**, **Vatpit**, **Vrtc** are the devices that use it. Each is a record (`struct
vhpet`, a channel of `struct vatpit`, `struct vrtc`) whose operations hold the device's
lock. What makes them hard is that the callout thread takes an expired callout off its
queue first and waits for the lock of the device afterwards: `hnd` says that a handler
is on its way, and the guest reprograms the device in between. The thread dispatches when
its timed wait has run out and does not look at the time again (the finding
`callout_early`), so the dispatch of the three devices has no guard on the time either: a
callout may be taken early as well as late. Counters wrap at a small
bound (`WC`, `ByteVals` for a byte) in the place of 2^32 and 2^8. In `Vrtc` the date is one number, and
register writes can make it invalid; **VrtcClock** has the conversions between seconds,
fields, BCD and the 12-hour format and compares them with a calendar counted day by day.
**Ticks** states what the three devices promise together; they share the callout service
and nothing else.

The run `timers` checks them side by side (`which` chooses one instance at the start;
the others rest, so states add up and do not multiply):

* `StoppedNeverFires`, `QueueSound`: a stopped callout does not fire, the queue stays
  sorted and the `abort()` of the thread is unreachable.
* `PendingLeadsToDispatch`: no pending timeout is forgotten, provided the thread is
  scheduled and time passes (the fairness of the run).
* `LinesMatchIsr`, `MatchNotMissed`: an HPET line is asserted exactly while its status
  bit is set, also when pin and mode change, and a comparator that has matched will
  interrupt. Both include the conditions of the `xhyve_abort`s of `vhpet.c`: a status bit of
  an edge-triggered timer, and a handler that meets a stopped counter.
* `TicksArmed`: a periodic PIT or HPET timer and the callout of the clock run exactly
  when the registers ask for it; a late thread neither stops the tick nor leaves it a
  backlog to work off. An early one makes the PIT add a period to a time that is still to
  come (`pit_timer_start_cntr0`): its next expiry is at most one period ahead, and one more
  for every time its callout was taken early since the count was loaded (`early`).
* `CalendarExact`: 450 days from 1970, around February 2000 and around February 2100, at
  the edges of the day, in both formats.

Bounds: two callouts suffice, as the thread compares the one it waits for with the head
of the queue; instants end at `MaxTime` = 3, and a device arms at least `MinDelay` = 1
ahead (a timer that is armed again for "now" for ever starves itself). One HPET timer:
timers share the counter only. `MaxEarly` = 1: a callout is taken early only when it was
armed anew during the thread's wait, the PIT's handler runs in that thread, and the other
one who arms it, a guest that loads a count, begins a new tick. Deadlock is not checked because time ends.

`callout_early` and `rtc_alarm` are findings.

### Proofs (CalloutProofs, TickProofs)

`CalloutProofs`, for any set of callouts, delays and end of time:

| theorem | statement |
|---|---|
| `TypeCorrect` | `Spec => []TypeOK` |
| `StoppedCalloutsDoNotFire` | `Spec => []StoppedNeverFires` |
| `QueueIsSound` | `Spec => []QueueSound` |
| `NoWorkIsMissed` | `Spec => []WorkIsSeen` |

The inductive invariant `CalloutInv` adds: `CurKnown`, the callout the thread waits for
or has dispatched is one it took from the queue; `QueuedActive`, whatever is linked is
active, except the one the thread has just fired and will unlink; `ActiveArmed`, the
link between the flag and the history. They answer what makes `StoppedNeverFires`
delicate: a stop can fall between the thread's choice of a callout and its call, and the
thread then reads the flags again. `InsertKeeps` and `RemoveKeeps` are about the list by
timeout and say that insertion behind equal timeouts and removal keep it sorted and free
of duplicates, also when the timeout of an unlinked callout changes. `WorkIsSeen` is the
safety half of `PendingLeadsToDispatch`.

`TickProofs`, for the HPET with any number of timers, width of the counter and values
written (`HpetConstantsOK`, which `MCTimers` has TLC evaluate), the PIT with any width of
a byte and the RTC with any rates and times (`PitConstants` and `RtcConstants` are
assumptions of their modules):

| theorem | statement |
|---|---|
| `TypeCorrect` | `HpetConstantsOK => (HpetSpec => []HpetTypeOK)` |
| `PinsMatchStatus` | `HpetConstantsOK => (HpetSpec => []LinesMatchIsr)` |
| `MatchesAreNotMissed` | `HpetConstantsOK => (HpetSpec => []MatchNotMissed)` |
| `PeriodIsAhead` | `HpetConstantsOK => (HpetSpec => []PeriodAhead)` |
| `PitInvariant` | `PitSpec => []PitInv` |
| `RtcInvariant` | `RtcSpec => []RtcInv` |
| `TicksAreArmed` | `HpetConstantsOK => (PitSpec /\ HpetSpec /\ RtcSpec => TicksArmed)` |

TLC has one HPET timer, so no two share a pin; the theorem counts any number of them on
each. `HpetInv` adds `ArmedRuns` (a callout is active only while the counter runs, and a
match that is owed lies in the past) and `Routed` (a timer with its status bit set has a
pin it may use). The loops of the code over all timers are written as one function over
`Timers`: no iteration reads what another one wrote except the count of a shared line,
and that is a sum.

`PeriodAhead` is the arithmetic of `vhpet_adjust_compval`: `RoundedUp` says that, seen
from the counter and modulo its width, the comparator rounded up by whole periods lies
between one tick and one period ahead, wherever it was before. Products of variables are
beyond the SMT backend as a whole; the lemma is cut into quotient and remainder (`DivIs`),
the bound of one rounding (`DivRound`) and the remainder of numbers a few widths apart
(`ModNear`). What remains is that every step that moves counter, comparator or rate of a
running timer arms it anew.

`PitInv` adds that a queued callout is active, that the last expiry of one that is not
queued lies at most as many periods ahead as it was taken early (in the past, if it never
was), and that a channel that has been given its count has a count other than 0. It holds
for every bound `MaxEarly`. `RtcInv` adds that the time of the
clock belongs to an instant that is past and that a clock which is not halted knows its
time: with both, bringing the time up to date (`Updated`), which every access does first,
cannot change the frequency that the registers ask for. What `vrtc_set_reg_a` and
`vrtc_set_reg_b` compare is then the frequency the callout has.
## Disks: BlockIf, Ahci, VirtioBlock

**BlockIf** (`block_if.c`): `be_status`, `be_req`, `be_block`, `pendq`, `busyq` are the
elements and queues; `dev` is the device's view of its requests, `pc`/`cur` the I/O
thread, `cpc`/`canc` a `blockif_cancel` that waits, `bse`/`sigcont` its signal element
and SIGCONT. While a cancel waits it holds `bc_mtx` and the lock of the device, which is
why actions of the device and the completion steps of the thread need `cpc = "none"`.
The thread sets `BST_DONE` and calls back before it takes `bc_mtx` again, so a device
can issue the same request again while its old element is still on the busy queue. One
I/O thread, as `BLOCKIF_NUMTHR` is 1.

**Ahci** (`pci_ahci.c`) is one port with a disk or a DVD drive. `sc` is the controller
with its port, `sc.busy` what block_if has in hand (each request with the `older` ones it
must not overtake); `loop` is `ahci_handle_port` going through the slots with the mutex
held. Commands are their kinds and how they end. The variable `driver` is chosen at the
start from `Drivers`: "careful" (follows the AHCI rules on stopping and starting) or "any".

**VirtioBlock** (`pci_virtio_block.c`) over **Virtio** (`virtio.c`): rings whose indices
wrap at `W` in the place of 2^16. The driver posts, enables interrupts, looks once more
and sleeps until it is interrupted; a `quiet` one has set VRING_AVAIL_F_NO_INTERRUPT while
it polled. The used index is stored as on x86: `lag` of its steps are still in the store
buffer, where a load may pass them, until they leave it on their own (`UsedDrain`) or a
locked instruction (`Locked`) empties it. Other accesses to the rings are sequentially
consistent: the index is the only store of the device that a load of the guest's flags
follows without a fence. The guest has its own fence between its flag and its look.

The run `storage`: three requests with offsets 0 and 1 on three elements (the pool is
exhausted exactly when the limit is reached and an old element lingers), chained,
flushed, re-issued from callbacks, cancelled and closed at any point; a careful driver
with two queued AHCI commands; a ring of two.

* `RequestsKept`: each request of a device has one element that will call back, a device
  within its limit never gets E2BIG, a blocked element has its blocker, a cancel keeps its
  element and a closed backend is drained. Proved for every instance, below.
* `RequestsComplete`: every request ends, whatever else is queued, cancelled, reset or
  fails. For the virtio disk, with MSI-X: it comes back to a driver that leaves interrupts
  on, and to the visible part of the used ring for a quiet one. That a quiet driver is also
  woken is what the code does not ensure (`block_fence`, a finding).
* `CancelReturns`: a cancel, which waits with two locks held, comes to its end.

Fairness: I/O ends, the mevent thread, a cancel and the vcpu that handles a notification
run; steps that need a mutex are strongly fair, because a mutex that is released again
and again is eventually granted. One formula serves an action of each component: `which`
never changes, so a disjunction of actions of different instances under `WF` or `SF`
says of each what a conjunct of its own would.

### Proofs (BlockIfProofs)

`TypeCorrect` (`Spec => []TypeOK`) and `RequestsAreKept` (`Spec => []RequestsKept`), for
any finite pool of elements that is not empty, any finite set of requests and any bound of
the offsets. Finiteness is that of the arrays in the code; it is needed because the limit
is the number of elements.

`RequestsKept` is not inductive. `BackendInv` says why it holds:

* `Linked`: the status of an element says on which queue it is, once;
* `ThreadElem`: the one thread has at most one element, the only one that is busy;
* `Matched`: outstanding requests and elements that will call back correspond one to one.
  The element whose callback has been made and that is still on the busy queue is left
  out. This is what lets a request be issued again from its own callback;
* `BlockedByEarlier`: a blocked element waits for one ahead of it on the queue or the one
  in progress, so no two wait for each other;
* `CancelHoldsThread`: a waiting cancel watches the element of the thread, whose callback
  waits for the device's lock in turn;
* `ExitDrained`: the thread leaves only when it is told to and nothing is queued.

`WithinLimit` then is a count: `PoolSuffices` shows from `Matched` and `ThreadElem` that a
device below its limit finds a free element although the one in `complete` lingers.

## Virtio devices: Virtio, VirtioNet, VirtioSock

**VirtioNet** is the network device with its transmit thread, the receiver of each of
the three backends (`Kind`: a vpnkit thread, a tap callback of mevent, a vmnet
callback), the vcpu that notifies and resets, and the driver. `resetting`,
`tx_in_progress`, `rx_in_progress` are read and written under different locks, as in the
code. The receiver's test `!rx_ready || resetting` is two loads (`pci_vtnet_tap_rx`,
`RxTake`) and the end of a reset three stores (`pci_vtnet_reset`, `ResetRings`,
`ResetOver`), as no mutex is common to them; `TxTop` and `TxAsk` are two steps because the
thread finds the ring empty and only then clears NO_NOTIFY. The used index lags as in
`VirtioBlock`. `Uses` and `Chains` say which queues and chains the driver of an
instance uses.

**VirtioSock** is the socket device: a pool of socks, the tx thread (what the guest
sends, incoming connections, buffered writes) and the rx thread (replies, data, credit,
freeing). Both `select()` without locks on descriptors they chose before. Bytes are small
units; `HostDoes` and `Ops` say what the host and the guest of an instance do.

The run `virtio` (fair threads, a guest that supplies descriptors) asks what must happen
in the end: `RepliesDelivered`, `PacketSent` (although the driver may have seen
NO_NOTIFY), `ResetReturns` (with MSI-X; with the pin it is false, see the observations).
One sock and rings of one are enough for the lost wake-ups
these are about: every thread waits for one condition. Safety of both devices is in
`devices`.

## Interrupts: Vlapic, Vioapic, Vatpic, Inject, PciIntx

An interrupt goes from a device to `Vioapic` or `Vatpic`, from there (or as an MSI) to
`Vlapic`, and from there into the guest by `Inject`. The modules are checked side
by side and not as one product: what one of them needs of its neighbour is a small
interface (a vector made pending, an ExtINT raised, "something is pending"), modelled
in each module by an action that may happen at any time.

**Vlapic** is the local APIC of one vcpu. `irr`, `isr` are sets of vectors, `stk` is
`isrvec_stk`, `sel` the vector `vlapic_pending_intr` has returned and
`vmx_inject_interrupts` has not yet accepted, `fire` an LVT value another thread has
read and not yet used. `abort` records which of the `xhyve_abort` self-checks was
reached. The guest's register writes happen in the vcpu's own thread (hence
`sel = 0`); `lapic_set_intr`, `vlapic_trigger_lvt` and `vlapic_fire_lvt` happen at any
time. The APs appear as their `boot_state`.

**Vioapic** is the I/O APIC together with what each vcpu's local APIC keeps of its
interrupts. `vioapic_write` is three steps where the code unlocks: `WriteEntry`,
`Rendezvous`/`vioapic_update_tmr` on every vcpu, `FinishWrite`. `guest` is the
discipline of the guest: with `any` nothing is assumed; `masked` is what operating
systems do (change an entry while it is masked); `oneshot` changes and unmasks in one
write.

**Vatpic** is the pair of 8259s. `atpic[k]` is `struct atpic`; `pvec` is the line
`vatpic_pending_intr` reported before the lock was released and taken again by
`vatpic_intr_accepted`; `Features` are the modes the guest uses. `strayed` is history: the
guest has polled a chip, has initialised one again, or the slave before the master.

**Inject** is the path of one vcpu through `vmx_run`: `pc` is the place, `entry` the
VM-entry interruption field, `exitintinfo` the event a VM exit interrupted,
`nmiwin`/`intwin` the window exits; `owed` is history, the events taken from their
source whose handler has not begun. The guest and the processor's event delivery are
external and do whatever the architecture allows.

**PciIntx** is the way of PCI's INTx lines: `pci_lintr_assert` and its relatives with the
lock of each device, sharing of pins, PIRQ routing in the LPC bridge and the pins of the
I/O APIC above 16. `isa` and `ioapic` count assertions as the controllers do.

`MCInterrupts` extends the modules whose properties are proved, so that a run and a
theorem are about the same definition; this is why `Init`, `Next` and the like have a
prefix in `Vioapic`, `Vatpic`, `Inject`, `PciIntx` and `Vhpet`. `Prio` has what `Vlapic` and
`Vioapic` share.

The run `interrupts` checks these instances, chosen by `which`: `Vlapic` (vectors 8, 33
and 49, so one illegal and two priorities; TPR 0 and 32; the error and LINT0 entries;
one AP), `Vioapic` with two vcpus and one pin for guests `any` and `masked`, `Inject`,
`Vatpic` four times (special mask over the cascade; automatic EOI with special fully nested
mode over the cascade, with a level line; rotation; polling) and `PciIntx` twice (two functions that share everything; two
slots). The guest `any` of the I/O APIC uses one vector, `masked` two.

* `NoApicAbort`, `SpinsUpOnce`, `AcceptsByPriority`: what the local APIC promises. These
  and all the following are proved for every instance, below.
* `AssertedNotForgotten` (any guest), `RemIrrHasEoi` (guests that mask an entry before
  they change it): an asserted level pin is sent again after EOI, and the EOI comes.
* `NoEventLost`, `EntryLegal`: an event taken from its source is in the VMCS or in
  exitintinfo until it is delivered, a pending one has its window exit armed, and the
  processor accepts what is injected.
* `EligibleServed`: no eligible request of the 8259s waits for the next event, a raised
  interrupt has its ExtINT on the way (until the guest has `strayed`: a poll accepts
  without re-evaluating the chips, and ICW1 forgets requests but not that one was raised),
  and service nests by priority, for every guest.
* `LinesMatch`: both controllers count exactly the devices that assert a line, through
  sharing, re-routing, MSI enables and INTx disables.

Two vectors of different priority give nesting and inversion; two vcpus give every order
of delivery, EOI and rendezvous; one pin is enough because entries interact only by
sharing a vector; `MaxAcnt` bounds the assertions of a shared line. Only safety is checked
here: progress of a pending interrupt depends on the guest.

### Proofs (VlapicProofs)

For every set of vectors, TPR values, LVT entries, LVT writes and APs (the assumptions
of `Vlapic`: vectors and TPRs are bytes, the error entry exists):

| theorem | statement |
|---|---|
| `TypeCorrect` | `Spec => []TypeOK` |
| `SelfChecksHold` | `Spec => []NoApicAbort` |
| `PprIsCurrent` | `Spec => []PprCurrent` |
| `DisabledIsMasked` | `Spec => []DisabledMasksLvts` |
| `StartedOnce` | `Spec => []SpinsUpOnce` |
| `AcceptedByPriority` | `Spec => AcceptsByPriority` |

TLC reaches stacks of depth two; the theorem is about the limit of 17. The inductive
invariant `IInv` adds to the properties: `StackFits`, entry `i` of the stack has a
priority of at least `i`, entries increase, and the ISR is exactly what is on the
stack; `SelInv`, a vector chosen for injection is still pending and above the PPR;
`BootInv`. `PushFits` and `PopFits` show that acceptance and EOI keep the stack fit:
a vector is accepted above the PPR, which is at least the priority of the entry below,
and as there are 15 priorities no stack has more than 15 entries. `PopFits` also shows
that the highest vector in service, which EOI clears, is the innermost one. That every
set of vectors has a highest one is derived from the well-foundedness of `<`.

### Proofs (InterruptProofs)

| module | theorem | statement |
|---|---|---|
| `InterruptProofs` | `IoTypeCorrect` | `IoConstantsOK => (IoSpec => []IoTypeOK)` |
| | `AssertedIsNotForgotten` | `IoConstantsOK => (IoSpec => []AssertedNotForgotten)` |
| | `RemoteIrrHasEoi` | `IoConstantsOK => (IoSpec => []RemIrrHasEoi)` |
| | `InjectInvariance` | `InjectSpec => []InjectInv` |
| | `InjectTypeCorrect` | `InjectSpec => []InjectTypeOK` |
| | `NoEventIsLost` | `InjectSpec => []NoEventLost` |
| | `EntriesAreLegal` | `InjectSpec => []EntryLegal` |
| | `PicInvariant` | `PicSpec => []PicInv` |
| | `EligibleIsServed` | `PicSpec => EligibleServed` |
| | `LinesMatchDevices` | `IntxConstantsOK => (IntxSpec => []LinesMatch)` |

`IoConstantsOK` says that vcpus are numbered from 0, vectors are legal and destinations
name vcpus; `IntxConstantsOK` that there is a device, that there are pins and
PIRQs, and that `pirq_alloc_pin` finds an interrupt it may use (the `best_irq >= 0` its
`assert` relies on). They are definitions, so that `MCInterrupts` can assume them of each
of its instances of a module; TLC evaluates them there.

**I/O APIC**, for any pins, vcpus, vectors and destinations. `AssertedNotForgotten` is
inductive with the types (`IoInv`), for every guest. `RemIrrHasEoi` is about the guest
`masked`; for `oneshot` it is false (see the observations below). `MaskedInv` is the
argument why masking suffices: one vcpu at a time writes an entry (`OneWriter`, the
guest's lock); the entry is masked and its remote IRR clear throughout (`WriteMasked`);
destinations are active vcpus with enabled APICs (`DestLive`); the trigger-mode registers
of the destinations have the vector of each level-triggered entry, but for the entry
whose write has not reached them yet (`TmrCurrent`); and a pin with remote IRR has its
vector pending or in service at one of its destinations (`Held`).

**Injection**, with and without tracing of exceptions. `InjectInv` adds `PendingAtInfo` (a
pending exception or an interrupted event exists only between an exit and the next
`vmx_inject_interrupts`, when the VM-entry field is free), `EntryConsumed` (the field is
free while the guest runs), `StillLegal` (an event that is written, or will be written
again, is still one the guest's state can take) and `NmiSeen`, `IntrSeen` (what the injection step has found pending it has
armed a window for, unless its poster has yet to notify).

**The 8259s**, for every set of wired lines (pin 2 of the master is the cascade), all modes
and all bounds. TLC has two lines and one combination of modes at a time; the theorem has
them all, with polls and re-initialisation. Almost every step ends in
`vatpic_notify_intr`, and `NotifiedIs` says what that leaves: no chip has an eligible
request it has not raised, and a raised slave has its request at the master. `PicInv` adds
what the other steps need: `Unready` (a chip that is not initialised has no requests and
has raised nothing, and the slave is initialised after the master, so that ICW1 to ICW4
and a mask written early leave nothing behind) and `Reported` (what
`vatpic_pending_intr` reported may still go in service when `vatpic_intr_accepted` comes:
between them devices change requests, never what is in service, and a line of the master
that is reported is not the cascade, whose request is the slave's to withdraw).

**INTx**, for any devices in any slots, with any number of pins and PIRQs. TLC
has two devices; the theorem counts any number of them on a shared pin. `IntxInv` adds
`Booted` (every device has its pin, then its lines, before any of them runs, and functions
that share a pin find both lines of it), `StepFits` (what `pci_irq_assert` and
`pci_irq_deassert` have left to do fits the state of the device), `ActiveCounts` (the
active count of a PIRQ is the number of devices that assert it) and `LintrFollows` (the state of a
device follows what it wants, then what is permitted). The lemmas it
rests on say that a count of the members of a finite set that assert a line changes by
one when one of them changes.
## Guest instructions and what they reach

**VieDecode** and **VieAlu** are pure: the decoder over bytes, checked against an encoder
that starts from a description of the instruction, and every emulated instruction with
operand sizes, high byte registers and flags, checked against a definition that works
byte by byte (bytes of two bits). **StringOps** is what is emulated in steps: MOVS, STOS,
INS, OUTS, PUSH, POP, one element per exit, with faults, restarts and accesses that
have side effects, while another vcpu unmaps pages.

**GuestWalk** is `vm_gla2gpa`: entries are read, checked and marked accessed or dirty by
compare-and-set while other vcpus store them; `held` is history, the values each entry
has had. **PageTable** is its abstract specification: what the architecture lets a walk
do to memory. The root (`cr3`) is assumed to point to memory of the machine.

**PciBar** is the sizing, moving and enabling of BARs (`pci_emul.c`) with the range tree,
the per-vcpu hints and the lock of `mem.c`: a vcpu unregisters and registers ranges step
by step while others look addresses up and run handlers. The guest serialises its
configuration writes and does not let decoded ranges overlap.

**Mevent** is the change list of `mevent.c` that a thread hands to the kernel later;
**Uart** and **Pm** use it, for the console's input and the power button, and **Events**
puts the two side by side. `uart_drain` takes one character per step with the lock held.

The run `devices` holds the small instances of all modules whose properties are about
states and steps (`which` again):

* `StringExact`: each access happens once and in order, and whenever the guest runs
  again its registers say how far the instruction came. Eight addresses, pages of two
  bytes, up to two unmappings; both ways of updating a register.
* `InstructionExact`: the decoder recovers every described instruction from its bytes and
  the emulation computes what the architecture says.
* `WalkExact`: `TranslationRecorded` and `KeepsTable` in the three paging modes.
* `NoPciAbort`, `DispatchMatchesBars`: two BARs with two vcpus, and three BARs in both
  spaces with one.
* `EventsWatched`: of the events the kernel was ever given it watches exactly those that
  the devices can take, and input keeps its order. FIFO of two, three characters. The vcpus
  run from the start, before the mevent thread has registered anything, and never wait for
  it. That the kernel is given every event is what the code does not ensure (`uart_start`,
  a finding; for the power button see the observations).
* `PortConsistent`: an AHCI port for a disk and a DVD drive, every command, pin and
  message, a driver that stops and resets whenever it likes.
* `RingsOwned`: no reset takes a ring from a network thread that has a chain of it or is
  about to take one, and no chain is lost. A receiver without a chain can come to
  `vq_endchains` of a ring that was reset: the model has that behaviour, and the observations
  say how to see it. Rings of two and indices modulo four: a vpnkit device that
  sends with two chains and is reset, tap (vmnet's receiver has the same steps) that
  receives with two, and a device on the pin with one chain in each ring.
* `SelectedFdOpen`: no socket descriptor is closed while a thread selects on it.

### Proofs (DeviceProofs)

One module proves the safety of the devices the run checks; `MCDevices` extends the same
modules, so the theorems are about the definitions TLC checks:

| theorem | statement |
|---|---|
| `PciInvariant` | `PciSpec => []PciInv` |
| `NoPciAborts` | `PciSpec => []NoPciAbort` |
| `DispatchFollowsBars` | `PciSpec => []DispatchMatchesBars` |
| `SockInvariant` | `SockSpec => []SockInv` |
| `SelectedFdsOpen` | `SockSpec => [](SockTypeOK /\ SelectedFdOpen)` |
| `UartInvariant` | `UartSpec => []UartInv` |
| `PmInvariant` | `PmSpec => []PmInv` |
| `EventsAreWatched` | `UartSpec /\ PmSpec => []EventsWatched` |
| `AhciInvariant` | `AhciSpec => []AhciInv` |
| `PortIsConsistent` | `AhciSpec => []PortConsistent` |
| `NetInvariant` | `NetSpec => []NetInv` |
| `RingsAreOwned` | `NetSpec => []RingsOwned` |

**BARs**, for any vcpus and any list of BARs with their spaces and sizes. The property
speaks of the moments between writes; `PciInv` says what holds within one. `WriteOrder`:
one write is under way, it moves one BAR or changes the decoding of the BARs of one space in
one direction, and the layout it leads to is free of overlaps. `Dispatched`: the tree and
the ports hold exactly the BARs that are registered at this step, at the addresses they
have at this step, and the range whose handler a vcpu is in stays registered, because
that vcpu holds the lock for reading. `Goal` is where each BAR will be when the write is
done. That a BAR which is registered again finds its place free follows from the guest's
layout at the end of the write, and that of one which is unregistered from `Dispatched`.

**Sockets**, for any set of socks, any packets of the guest and any host. Neither thread
holds a lock while it selects. `TxChosen` and `RxChosen` say which states a chosen sock can
get into meanwhile: the rx thread never takes one out of CLOSING_TX, and only its own
scan closes a descriptor. `BufferedUnacked` and `Buffering` give the assertions of
`buffer_drain`. `NoAssert` (an assertion about the guest's packets) is not claimed.

**Console and power button**, for any FIFO size, any number of characters, register
accesses and signals. `EventFollows` and `SignalFollows` relate three copies of one fact:
what the device wants, what mevent's list says and what the kernel has, at any moment of
the mevent thread, its start included. An event whose listed addition was overwritten is
unknown to the kernel for good, and they say so: the kernel has the event as the device
wants it, or does not have it at all, or a change is listed. `Fifo` is the ring buffer as a set of records, whose `w` is a sum modulo
the size; that a character put in or taken out leaves the contents in order is a lemma
about `Contents`.

**AHCI**, for any number of slots, any commands, a disk or a DVD drive, pin or messages.
`PendingIsBusy` and `IntrFollows` are inductive with the types for every driver. That a
running port does not report a command as done that is in flight needs a driver that
keeps the rules (`Careful`), and an invariant of how a port stops: `Running` (a port
that is stopping has something in flight; one that stopped has nothing, and nothing to
begin), `InFlight` (a queued command in flight has left CI and is in SACT, any other is
in CI, and BSY stands for such a one) and `NotBegun` (commands that are not begun exist
only while the loop goes on or BSY holds it up, and a software reset is alone).

**Network**, for any size of the rings (`QSize`), any range of indices that is a larger
multiple of it (`W`; 2^16 in the code), any backend, features, chains, pin or messages,
with or without resets. Three things make `RingsOwned` inductive. `ResetWaits` says how far a
reset has come: it raised `resetting`, so no thread takes a chain, and has waited for
`tx_in_progress` and then for `rx_in_progress`, which stand for the steps a thread takes on
a ring; a receiver that begins after that is held up by `resetting` until the queues are
gone. `QueuesExist` says that both queues come and go together, and that a receiver is
ready only while they exist: `rx_ready` is cleared before them. `InHand` says that the chain the receiver may give back is
still in the avail ring just before `last`: `vq_retchain` only steps the index back, and
the driver, which could overwrite that place by posting, has too few chains left to do so.
That no chain is lost is a statement about sets and counts, `Conserved`: the chains of the
guest, in hand, available and used make up the ring, and their numbers add up to its size.
It goes through each operation of `virtio.c` in turn (`SharedPost` to `SharedReclaim`), by
lemmas on the places of indices modulo the ring (`PlacesDiffer`), distances
between indices modulo `W` (`SpanGrows`, `SpanShrinks`) and what a stretch of a ring holds
(`WindowGrows`, `WindowShrinks`). That a chain in the used ring is not with the guest is a
pigeonhole argument: there would be fewer chains than places.

### Proofs (GuestWalkProofs)

For every paging mode and every number of stores by other vcpus, from no assumption:

| theorem | statement |
|---|---|
| `TypeCorrect` | `Spec => []TypeOK` |
| `TranslationCorrect` | `Spec => []TranslationRecorded` |
| `WalkImplementsTable` | `Spec => TableSpec`: the walk refines `PageTable` |

`TranslationRecorded` speaks of a walk that has ended. `PathInv` says what holds on the
way: every entry read is one the table held; entries above the current level permitted
the access and have their accessed bit recorded; the entry at the current level is the
one in hand. `RecordedStays` (the history only grows) and `RecordedNow` (a bit that was
read or has just been set is recorded) carry it through other vcpus' stores. The
refinement needs it too: that the entry a compare-and-set writes is present and
writable follows from what the walk checked, because the comparison succeeded.

## Findings

See `PROJECT.json` "findings" for the quotes.

* `vcpu_notify_lost`: a notification between `vcpu_unlock` and the timed wait of
  `vm_handle_hlt` wakes nobody; the vcpu sleeps up to a second with work pending.
* `callout_early`: a timer that is armed again for later while the thread waits for
  it can be dispatched at its old time.
* `rtc_alarm`: when the time of the clock is brought up to date over several seconds, the
  alarm is compared with the current second each time; one in between is skipped.
* `uart_start`: `mevent_update` overwrites the MEV_ADD of an event that is not yet in the
  kernel, and `main` starts the vcpu before it enters `mevent_dispatch`: a guest that sets
  up the console's FIFO first leaves its input unread.
* `block_fence`: the used index is stored and the guest's flags are loaded without a fence
  between them; on x86 a driver that enables interrupts, looks and sleeps can miss the
  interrupt of the disk. (`pci_virtio_net_*.c` have their fence where the transmit thread
  looks again; for the receive queue the same gap exists.)

Observed while modelling, without a run of their own. Three are refuted by TLC on the
instances of the runs:

* network reset (`pci_virtio_net_*.c`): the receiver tests `rx_ready` and `resetting` one
  after the other, and can find each on a different side of the end of a reset; it then
  calls `vq_endchains` with a queue that was reset, although the reset is to "wait for the
  transmit and receive threads to finish their processing"
  (`VirtioNet!ResetWaitsForThreads`, an invariant; add it to `devices.cfg`, whose instance
  `tap` violates it).
* power button (`pm.c`): `mevent_add` refuses the event of SIGTERM while that of the last
  time is only marked for deletion, and SIGTERM is ignored all the same: a guest that
  disables and enables ACPI faster than the mevent thread runs has a dead button
  (`Pm!PowerButton`, likewise, instance `pm`).
* RIP-relative operands (`verify_gla`): the end of the fetched bytes is taken for the end of
  the instruction, so such an operand is refused when the exit gave no length
  (`VieDecode!RipRelative`; `MCDevices!RipRelative` is it for the instance `decode`).

The others (several are definitions or constants of the modules that a reader can check
with TLC):

* vcpus: a vcpu activated during a rendezvous may fail
  `KASSERT(vm->rendezvous_func != NULL)` (`VcpuRun!RendezvousInProgress`, three vcpus); a
  second suspend is tolerated by an assertion that tests `errno`, which `vm_suspend` does
  not set (`lib/pm.c`).
* timers: nobody signals the condition `callout_drain` waits for; an HPET one-shot
  dispatched within its tick is armed again with delta 0 and fires twice; a write of the
  main counter drops a match that is not yet delivered; PIT count 0 on channel 0 starts
  no callout; a mode write does not reset `crbyte`; the clock's fields always show host
  time; rate 0 with PIE stops alarm and update interrupts too.
* interrupts: an I/O APIC entry that is programmed and unmasked in one write is live
  before the rendezvous has updated the trigger-mode registers, and an interrupt taken and
  EOIed in between leaves its remote IRR set (`Vioapic`, guest `oneshot`); the same when
  every destination APIC is disabled; `acnt` of the 8259 drifts when lines change before
  ICW4 (`Vatpic!AcntIsSum`); a divide configuration write while the APIC timer runs may
  fail `KASSERT(ccr <= icr_timer)`.
* disks: a zero-length ATAPI READ completes and still starts I/O; SEND_FPDMA_QUEUED is
  always aborted; the HBA reset does not wait for I/O in flight; a command error without
  FRE, or a FIS that is not host-to-device, keeps `ahci_handle_port` looping; a virtio disk
  without MSI-X locks its own mutex again to interrupt, and stops (`VirtioBlock`, `Msix`
  FALSE).
* network and sockets: with INTx, a reset can wait for a thread that waits for the lock
  it holds (`VirtioNet`, `Msix` FALSE with `Resets`); negotiating twice subtracts two from
  the header length twice; a lost vpnkit connection leaves the receive thread asleep with
  `rx_mtx`; a transmit signal before the thread's first wait is lost; a block device reset
  with I/O in flight lets completions write the old ring. A sock that is closed while it
  buffers stays in CLOSING_TX (`VirtioSock!ClosingLeadsToFree`); `NoAssert`,
  `CreditAnnounced`, `CreditConserved` and `FreeOnFreeList` are further statements of
  that source that the model does not keep.
* PCI and events: `register_mem_int` silently succeeds when a base lies in another
  range; overlapping BARs trip an assertion; an MSI-X message while masked is dropped.
* emulation: C6, OR with a negative immediate and STOS pass an unmasked value to memwrite;
  80 /1 and 80 /4 are not emulated; IN AL/AX writes 32 bits; `vm_gla2gpa` compares for the
  dirty bit with the value read before it set the accessed bit, so it always goes round
  once more; a guest that clears A between the two can get D without A.

## Simplifications

Where a definition says less than its lines do:

* `VirtioSock`: `RxSelect` and `TxSelect` decide on the timeout of `select` from the credit
  and the shutdown state of the moment, not of the scan before it; a credit that comes in
  between also kicks the thread, and the timeout of the tx thread serves the deadline for a
  RST only. `RxScan` closes descriptors under one lock and frees the socks under the next in
  one step: between the two they are in CLOSING_RX, which the tx thread passes over.
  `TxRespond` leaves out that the sock is unlocked once more at the end of the handler.
* `PciBar!emulate_mem` lets no reader in while a writer waits, which a `pthread_rwlock`
  may also do later; accesses are one unit wide and do not cross the end of a BAR, which
  `pci_emul_mem_handler` asserts.
* `VieDecode`: `Encodable` leaves out 16-bit ModRM forms, which the decoder refuses in real
  mode only and reads by the 32-bit table elsewhere. `verify_gla` compares the low 16 bits of
  addresses, has a segment base of 0 as the code does, and is always given an address.
* `VieAlu!memwrite` masks the value to the operand size, as the devices that take it do;
  three handlers pass it unmasked (see the observations).

## What is only model-checked

Everything except the theorems listed above:

* all liveness properties (they need fairness and ENABLED, which the prover does not
  handle);
* what the recursive definitions compute (`CalendarExact`, `InstructionExact`,
  `StringExact`: induction over data).

`WalkExact`, which `MCDevices` defines itself, combines two properties of three instances;
the theorems about its parts are those of `GuestWalkProofs`.

## What is left

* An abstract timer service (fires once, not early, for clients that do not re-arm) and
  an interrupt line that is level-faithful, as specifications that `Callout` and `Vioapic`
  refine.
* The count and divide registers of the APIC timer, the MSI-X table, 9p.

## What is not modelled and why

Firmware tables and loaders run once, sequentially, before the guest; the contents of
ATA/ATAPI answers, packets and register layouts carry no control; the task switch is
sequential over guest memory; the PM timer and CPUID are functions of constants and time;
wrappers of host calls, statistics, MD5 and the OCaml glue hold no logic of the program.
`PROJECT.json` "components" lists every part with its status.
