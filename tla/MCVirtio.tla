------------------------------ MODULE MCVirtio ------------------------------
(***************************************************************************)
(* Instances of the virtio socket device (VirtioSock: connections of the   *)
(* guest to a host that reads late, and of the host) and of a virtio       *)
(* network device (VirtioNet) for TLC, for what must happen in the end.    *)
(* `which' says which of them a behaviour belongs to; the others rest.     *)
(***************************************************************************)
EXTENDS Naturals, Sequences, FiniteSets

CONSTANT Socks

VARIABLES which,
  sk, inuse, reply, rxd, packets, tpc, tq, tw, txkick, rpc, rq, rp, rr, todo,
  poll, work, rxkick, kickpend, dial, abort,
  nrxq, ntxq, dev, mtx, txm, rxm, tx, rx, vcpu, chain, intr, g

Packet(o, a, x) == [op |-> o, addr |-> a, arg |-> x]

Calls == INSTANCE VirtioSock WITH
  WriteBuf <- 1, GuestBuf <- 1, MaxTx <- 1, MaxDesc <- 1, MaxReply <- 1,
  HostDoes <- {"eof", "full"},
  Ops <- {Packet("REQUEST", "G", {}), Packet("RW", "G", 1)}

Dials == INSTANCE VirtioSock WITH
  WriteBuf <- 1, GuestBuf <- 1, MaxTx <- 1, MaxDesc <- 1, MaxReply <- 1,
  HostDoes <- {"dial", "data"},
  Ops <- {Packet("RESPONSE", "H0", {}), Packet("CREDIT_REQUEST", "H0", {}), Packet("RST", "H0", {})}

\* A driver that sends and receives and may reset the device at any time.
Vmnet == INSTANCE VirtioNet WITH
  Kind <- "vmnet", QSize <- 1, W <- 2, Msix <- TRUE, OnEmpty <- TRUE, Resets <- TRUE,
  Mrg <- {TRUE}, Uses <- {"tx", "rx"}, Chains <- {0}, rxq <- nrxq, txq <- ntxq

sockvars == <<sk, inuse, reply, rxd, packets, tpc, tq, tw, txkick, rpc, rq, rp, rr, todo,
              poll, work, rxkick, kickpend, dial, abort>>
netvars == <<nrxq, ntxq, dev, mtx, txm, rxm, tx, rx, vcpu, chain, intr, g>>
vars == <<which, sockvars, netvars>>

Init ==
  /\ which \in {"calls", "dials", "net"}
  /\ Dials!SockInit /\ Vmnet!NetInit

Next ==
  /\ which' = which
  /\ \/ which = "calls" /\ Calls!SockNext /\ UNCHANGED netvars
     \/ which = "dials" /\ Dials!SockNext /\ UNCHANGED netvars
     \/ which = "net" /\ Vmnet!NetNext /\ UNCHANGED sockvars

\* The threads of the socket device run and the guest supplies descriptors
\* (VirtioSock!SockFairSpec; Dials!SockTxThread and Dials!SockRxThread do not
\* depend on what differs between the two instances), and VirtioNet!NetFairness
\* of the network device.  `which' never changes, so one conjunct for an
\* action of each says the same as a conjunct for each action.
Sock(A) == which \in {"calls", "dials"} /\ abort = "no" /\ A /\ UNCHANGED <<which, netvars>>
Net(A) == which = "net" /\ A /\ UNCHANGED <<which, sockvars>>

FairSpec ==
  /\ Init /\ [][Next]_vars
  /\ SF_vars(Net(Vmnet!TxLock))
  /\ SF_vars(Net(Vmnet!TxEnd))
  /\ SF_vars(Net(Vmnet!RxEnd))
  /\ SF_vars(Net(Vmnet!pci_vtnet_txwait))
  /\ SF_vars(Net(Vmnet!pci_vtnet_rxwait))
  /\ SF_vars(Net(Vmnet!pci_vtnet_ping_txq))
  /\ WF_vars(Net(Vmnet!TxRuns) \/ Sock(Dials!SockTxThread))
  /\ WF_vars(Net(Vmnet!RxRuns) \/ Sock(Dials!SockRxThread))
  /\ WF_vars(Net(Vmnet!PingTxBegin) \/ Sock(Dials!GuestDesc))
  /\ WF_vars(Net(Vmnet!SkipNotify))
  /\ WF_vars(Net(Vmnet!ResetEnds))

-----------------------------------------------------------------------------
\* VirtioSock!RepliesDelivered: a reply queued for the guest reaches it.
RepliesDelivered == Dials!RepliesDelivered

\* VirtioNet!PacketSent: a packet the driver posts is sent, although it may
\* have seen NO_NOTIFY, unless the device is reset.
PacketSent == Vmnet!PacketSent

\* VirtioNet!ResetReturns: a reset comes to its end, with MSI-X; with the pin it
\* may wait for a thread that waits for its mutex.
ResetReturns == Vmnet!ResetReturns
=============================================================================
