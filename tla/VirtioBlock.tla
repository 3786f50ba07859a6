---------------------------- MODULE VirtioBlock ----------------------------
(***************************************************************************)
(* The virtio disk (pci_virtio_block.c): a vcpu that handles a register    *)
(* write, with the mutex of the device; the I/O threads of block_if, whose *)
(* callback takes that mutex; and the driver of the guest, which sleeps    *)
(* for an interrupt or polls the used ring.  A quiet driver sets           *)
(* VRING_AVAIL_F_NO_INTERRUPT while it polls.                              *)
(*                                                                         *)
(* The used index is published as on x86 (Virtio).  With the pin instead   *)
(* of MSI-X, vq_interrupt asks for the mutex its caller holds, and nothing *)
(* comes to an end.                                                        *)
(***************************************************************************)
EXTENDS Virtio

CONSTANTS
  Msix,      \* the guest uses MSI-X (pci_msix_enabled)
  Ops,       \* the requests the guest makes: "rw" (also flush), "ident", "bad"
  Quiet      \* the drivers: a subset of BOOLEAN

VARIABLES
  q,         \* vbsc_vq
  mtx,       \* vsc_mtx: "none", "vcpu" or "io"
  vcpu,      \* "run", or where it is in vi_pci_write
  io,        \* "idle", or "end" or "unlock": an I/O thread is in pci_vtblk_done
  ios,       \* vbsc_ios: "none", the request, or its status
  intr,      \* an interrupt the guest has not taken: MSI-X message, or ISR and pin
  g          \* the driver: seen, free chains, mode, whether it must notify, its kind

vars == <<q, mtx, vcpu, io, ios, intr, g>>

\* pci_vtblk_init; then the driver sets the queue up.
Init ==
  /\ q = EmptyQueue
  /\ mtx = "none" /\ vcpu = "run" /\ io = "idle" /\ intr = FALSE
  /\ ios = [i \in Heads |-> "none"]
  /\ \E b \in Quiet :
       g = [seen |-> 0, free |-> Heads, mode |-> "sleep", kick |-> FALSE, quiet |-> b]

\* vq_interrupt.  Without MSI-X it locks the mutex of the device first.
vq_interrupt ==
  /\ ~Msix => mtx = "none"
  /\ intr' = TRUE

\* vq_endchains(vq, 0): the flags are loaded while the store of the used index
\* may still be in the store buffer.
Endchains ==
  /\ IF vq_intr(q, FALSE, FALSE) THEN vq_interrupt ELSE UNCHANGED intr
  /\ q' = vq_saved(q, FALSE, FALSE)

\* The used index becomes visible.
UsedDrain ==
  /\ q.lag # 0
  /\ q' = Drain(q)
  /\ UNCHANGED <<mtx, vcpu, io, ios, intr, g>>

-----------------------------------------------------------------------------
(* The vcpu.                                                               *)

\* VTCFG_R_PFN: vi_vq_init.
WritePfn ==
  /\ ~q.alloc /\ vcpu = "run" /\ mtx = "none"
  /\ q' = vi_vq_init(q)
  /\ g' = [g EXCEPT !.seen = 0, !.free = Heads, !.mode = "sleep", !.kick = FALSE]
  /\ UNCHANGED <<mtx, vcpu, io, ios, intr>>

\* VTCFG_R_STATUS of 0: pci_vtblk_reset.  The driver waits for its requests.
pci_vtblk_reset ==
  /\ q.alloc /\ vcpu = "run" /\ mtx = "none" /\ g.free = Heads
  /\ q' = vi_reset_dev(q)
  /\ intr' = FALSE
  /\ UNCHANGED <<mtx, vcpu, io, ios, g>>

\* VTCFG_R_QNOTIFY.
WriteQnotify ==
  /\ g.kick /\ vcpu = "run" /\ mtx = "none"
  /\ mtx' = "vcpu" /\ vcpu' = "notify"
  /\ g' = [g EXCEPT !.kick = FALSE]
  /\ UNCHANGED <<q, io, ios, intr>>

\* pci_vtblk_proc: a request for block_if, or one that is done at once.
pci_vtblk_proc ==
  LET idx == vq_head(q)
      t == vq_getchain(q)
  IN IF ios[idx] = "rw"
     THEN q' = t /\ ios' = [ios EXCEPT ![idx] = "queued"] /\ UNCHANGED vcpu
     ELSE /\ q' = vq_relchain(t, idx)
          /\ ios' = [ios EXCEPT ![idx] = IF @ = "ident" THEN "S_OK" ELSE "S_UNSUPP"]
          /\ vcpu' = "end"

\* The loop of pci_vtblk_notify; the mutex is unlocked after it.
pci_vtblk_notify ==
  /\ vcpu = "notify"
  /\ IF vq_has_descs(q)
     THEN pci_vtblk_proc /\ UNCHANGED mtx
     ELSE vcpu' = "run" /\ mtx' = "none" /\ q' = Locked(q) /\ UNCHANGED ios
  /\ UNCHANGED <<io, intr, g>>

\* The end of pci_vtblk_done_locked, called from pci_vtblk_proc.
ProcEnd ==
  /\ vcpu = "end"
  /\ Endchains /\ vcpu' = "notify"
  /\ UNCHANGED <<mtx, io, ios, g>>

-----------------------------------------------------------------------------
(* block_if calls back, with errors or without.                            *)

\* pci_vtblk_done, until the chain is released.
pci_vtblk_done(idx) ==
  /\ io = "idle" /\ mtx = "none" /\ ios[idx] = "queued"
  /\ \E status \in {"S_OK", "S_IOERR"} : ios' = [ios EXCEPT ![idx] = status]
  /\ q' = vq_relchain(q, idx)
  /\ mtx' = "io" /\ io' = "end"
  /\ UNCHANGED <<vcpu, intr, g>>

DoneEnd ==
  /\ io = "end"
  /\ Endchains /\ io' = "unlock"
  /\ UNCHANGED <<mtx, vcpu, ios, g>>

DoneUnlock ==
  /\ io = "unlock"
  /\ mtx' = "none" /\ io' = "idle" /\ q' = Locked(q)
  /\ UNCHANGED <<vcpu, ios, intr, g>>

-----------------------------------------------------------------------------
(* The driver of the guest.                                                *)

\* The driver may notify once for several requests.
Post(idx, op) ==
  /\ q.alloc /\ vcpu = "run" /\ idx \in g.free
  /\ ios' = [ios EXCEPT ![idx] = op]
  /\ q' = guest_post(q, idx)
  /\ g' = [g EXCEPT !.free = @ \ {idx}, !.kick = TRUE]
  /\ UNCHANGED <<mtx, vcpu, io, intr>>

\* The interrupt handler (it reads ISR first if it uses the pin).
TakeInterrupt ==
  /\ intr /\ g.mode = "sleep" /\ q.alloc
  /\ ~Msix => mtx = "none"
  /\ intr' = FALSE
  /\ q' = [q EXCEPT !.noIntr = g.quiet]
  /\ g' = [g EXCEPT !.mode = "poll"]
  /\ UNCHANGED <<mtx, vcpu, io, ios>>

Poll ==
  /\ g.mode = "poll" /\ q.alloc /\ guest_sees(q, g.seen)
  /\ LET idx == guest_head(q, g.seen)
     IN /\ g' = [g EXCEPT !.seen = (@ + 1) % W, !.free = @ \cup {idx}]
        /\ ios' = [ios EXCEPT ![idx] = "none"]
  /\ UNCHANGED <<q, mtx, vcpu, io, intr>>

\* The driver is about to sleep: interrupts first, then a last look.
Enable ==
  /\ g.mode = "poll" /\ q.alloc /\ ~guest_sees(q, g.seen)
  /\ q' = [q EXCEPT !.noIntr = FALSE]
  /\ g' = [g EXCEPT !.mode = "look"]
  /\ UNCHANGED <<mtx, vcpu, io, ios, intr>>

Look ==
  /\ g.mode = "look" /\ q.alloc
  /\ IF guest_sees(q, g.seen)
     THEN g' = [g EXCEPT !.mode = "poll"] /\ q' = [q EXCEPT !.noIntr = g.quiet]
     ELSE g' = [g EXCEPT !.mode = "sleep"] /\ UNCHANGED q
  /\ UNCHANGED <<mtx, vcpu, io, ios, intr>>

Driver == TakeInterrupt \/ Poll \/ Enable \/ Look
Vcpu == WriteQnotify \/ pci_vtblk_notify \/ ProcEnd
Io == (\E i \in Heads : pci_vtblk_done(i)) \/ DoneEnd \/ DoneUnlock

Next ==
  \/ WritePfn \/ pci_vtblk_reset \/ Vcpu \/ Io \/ UsedDrain \/ Driver
  \/ \E i \in Heads, op \in Ops : Post(i, op)

Spec == Init /\ [][Next]_vars

\* The vcpu and the driver go on, block_if does every request
\* (BlockIf!RequestCompletes) and its callback gets the mutex in the end.  No
\* store need leave its buffer before the next locked instruction.
Fairness ==
  /\ SF_vars(WriteQnotify) /\ WF_vars(pci_vtblk_notify) /\ WF_vars(ProcEnd)
  /\ \A i \in Heads : SF_vars(pci_vtblk_done(i))
  /\ WF_vars(DoneEnd) /\ WF_vars(DoneUnlock)
  /\ SF_vars(TakeInterrupt) /\ WF_vars(Poll) /\ WF_vars(Enable) /\ WF_vars(Look)

FairSpec == Spec /\ Fairness

-----------------------------------------------------------------------------
\* The chains of the ring are conserved by vq_getchain and vq_relchain, also
\* when the indices wrap around: every one is in one place, and never more
\* are available than the ring has entries (ndesc > vq->vq_qsize).
ChainsConserved ==
  q.alloc => Conserved(q, g.seen, g.free, {i \in Heads : ios[i] = "queued"})

\* A request the driver has not got back, and one that is not even in the part
\* of the used ring that the guest can see.
Waits(i) == i \notin g.free
Undone(i) ==
  /\ Waits(i)
  /\ \A k \in 0 .. UsedCount(q, g.seen) - 1 - q.lag : guest_head(q, g.seen + k) # i

\* Every request comes back to a driver that sleeps until it is interrupted
\* and leaves interrupts on while it polls: no completion and no interrupt is
\* lost between the ring, its flags and the mutex.  What a quiet driver asked
\* for is done, and the used ring says so to whoever looks.
Owed(i) == IF g.quiet THEN Undone(i) ELSE Waits(i)
RequestDone == \A i \in Heads : Owed(i) ~> ~Owed(i)

(* A statement of the source that the code does not keep.                  *)

\* "If the `used' index moved we may need to inform the guest", with an
\* interrupt that is only "suppressed by VRING_AVAIL_F_NO_INTERRUPT"
\* (vq_endchains): a driver that clears the flag, looks once more and sleeps
\* gets every request back.
RequestReturns == \A i \in Heads : Waits(i) ~> ~Waits(i)
=============================================================================
