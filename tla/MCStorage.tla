----------------------------- MODULE MCStorage -----------------------------
(***************************************************************************)
(* The disks: the backend (BlockIf), the AHCI controller with a disk       *)
(* (Ahci) and the virtio disk (VirtioBlock); small instances for TLC.      *)
(* `which' says which of them a behaviour is about; the others rest.       *)
(***************************************************************************)
EXTENDS BlockIf

VARIABLES which, sc, cfis, loop, driver, q, mtx, vcpu, io, ios, intr, g

\* A driver that queues two commands and follows the rules.
Ata == INSTANCE Ahci WITH
  NSlots <- 2, Atapi <- FALSE, Msi <- FALSE, Drivers <- {"careful"},
  Cmds <- {"RW", "FPDMA"}, Enables <- {}

Vtblk == INSTANCE VirtioBlock WITH
  QSize <- 2, W <- 4, Msix <- TRUE, Ops <- {"rw", "ident", "bad"}, Quiet <- BOOLEAN

ahcivars == <<sc, cfis, loop, driver>>
vtblkvars == <<q, mtx, vcpu, io, ios, intr, g>>
allvars == <<which, vars, ahcivars, vtblkvars>>

AllInit ==
  /\ which \in {"blockif", "ata", "vtblk"}
  /\ Init
  /\ Ata!AhciInit /\ Vtblk!Init /\ (g.quiet => which = "vtblk")

AllNext ==
  /\ which' = which
  /\ \/ which = "blockif" /\ Next /\ UNCHANGED <<ahcivars, vtblkvars>>
     \/ which = "ata" /\ Ata!AhciNext /\ UNCHANGED <<vars, vtblkvars>>
     \/ which = "vtblk" /\ Vtblk!Next /\ UNCHANGED <<vars, ahcivars>>

\* What has to be taken in the end of each instance: BlockIf!FairSpec,
\* Ahci!AhciFairness and VirtioBlock!Fairness, with one conjunct for an action
\* of each; `which' never changes, so it says the same of every instance as
\* a conjunct for each action.
Block(A) == which = "blockif" /\ A /\ UNCHANGED <<which, ahcivars, vtblkvars>>
Port(A) == which = "ata" /\ A /\ UNCHANGED <<which, vars, vtblkvars>>
Disk(A) == which = "vtblk" /\ A /\ UNCHANGED <<which, vars, ahcivars>>
AtaBegin(s) == Port(\E b \in Ata!OfSlot(s) : Ata!IoBegin(b))
AtaDone(s) == Port(\E b \in Ata!OfSlot(s), e \in BOOLEAN : Ata!ioreq_cb(b, e))

AllSpec ==
  /\ AllInit /\ [][AllNext]_allvars
  /\ SF_allvars(Block(Top) \/ AtaDone(0) \/ Disk(Vtblk!WriteQnotify))
  /\ SF_allvars(Block(Callback) \/ AtaDone(1) \/ Disk(Vtblk!TakeInterrupt))
  /\ SF_allvars(Block(Complete) \/ Disk(Vtblk!pci_vtblk_done(0)))
  /\ SF_allvars(Disk(Vtblk!pci_vtblk_done(1)))
  /\ WF_allvars(Block(CondWake) \/ AtaBegin(0) \/ Disk(Vtblk!pci_vtblk_notify))
  /\ WF_allvars(Block(Proc) \/ AtaBegin(1) \/ Disk(Vtblk!ProcEnd))
  /\ WF_allvars(Block(CancelStep) \/ Port(Ata!ahci_handle_port)
                                 \/ Disk(Vtblk!DoneEnd \/ Vtblk!DoneUnlock))
  /\ WF_allvars(Block(SigcontHandler) \/ Disk(Vtblk!Poll))
  /\ WF_allvars(Block(CloseJoin) \/ Disk(Vtblk!Enable))
  /\ WF_allvars(Disk(Vtblk!Look))

-----------------------------------------------------------------------------
\* A request of the backend, a slot of the AHCI port or a chain of the virtio
\* ring that has not ended (BlockIf!RequestCompletes, Ahci!CommandEnds,
\* VirtioBlock!RequestDone; one formula for the same number of each).
Outstanding(i) ==
  CASE which = "blockif" -> i \in Reqs /\ Waits(i)
    [] which = "ata"     -> i \in Ata!Slots /\ Ata!Waits(i)
    [] OTHER             -> i \in Vtblk!Heads /\ Vtblk!Owed(i)

\* No chain of a virtio ring is lost or in two places, and every request
\* ends, whatever else is queued, cancelled, reset or fails meanwhile: the
\* backend calls back or cancels it, a command of a running AHCI port ends or
\* stops the port with an error, and a virtio request comes back to a driver
\* that sleeps until it is interrupted and does not suppress interrupts, or, if
\* it does while it polls, to the used ring the guest can see.
RequestsComplete ==
  /\ [](which = "vtblk" => Vtblk!ChainsConserved)
  /\ \A i \in 0 .. 2 : Outstanding(i) ~> ~Outstanding(i)
=============================================================================
