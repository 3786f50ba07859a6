----------------------------- MODULE VirtioNet -----------------------------
(***************************************************************************)
(* The virtio network devices (pci_virtio_net_vpnkit.c, _tap.c, _vmnet.c): *)
(* the transmit thread, the receive thread or callback, a vcpu that        *)
(* notifies and resets the device with vsc_mtx, and the driver.  The       *)
(* three files differ in how they receive (Kind).                          *)
(*                                                                         *)
(* The driver of the guest is careful: it posts, resets and sets up the    *)
(* queues from one thread, and starts the receiver only once the queues    *)
(* exist.  It reclaims what was sent when it likes, and sleeps for what is *)
(* received.                                                               *)
(***************************************************************************)
EXTENDS Virtio

CONSTANTS
  Kind,      \* "vpnkit", "tap" or "vmnet"
  Msix,      \* the guest uses MSI-X
  OnEmpty,   \* VIRTIO_F_NOTIFY_ON_EMPTY is negotiated
  Resets,    \* the driver may reset the device
  Mrg,       \* the values of VIRTIO_NET_F_MRG_RXBUF the driver may negotiate
  Uses,      \* the queues the driver uses: a subset of {"tx", "rx"}
  Chains     \* the chains it uses: a subset of Heads

ASSUME NetConstants ==
  /\ Kind \in {"vpnkit", "tap", "vmnet"} /\ Mrg \subseteq BOOLEAN /\ Chains \subseteq Heads
  /\ Msix \in BOOLEAN /\ OnEmpty \in BOOLEAN /\ Resets \in BOOLEAN

VARIABLES
  rxq, txq,      \* vsc_queues
  dev,           \* resetting, rx_ready, rx_in_progress, tx_in_progress, vhdrlen, merge, link
  mtx,           \* vsc_mtx is held by the vcpu
  txm, rxm,      \* the holders of tx_mtx and rx_mtx, or "none"
  tx, rx, vcpu,  \* where the threads are
  chain,         \* the chains the two threads have in hand, or -1
  intr,          \* interrupt of the receive queue (MSI-X), or of the device
  g              \* the driver

ring == <<rxq, txq>>
locks == <<mtx, txm, rxm>>
netvars == <<rxq, txq, dev, mtx, txm, rxm, tx, rx, vcpu, chain, intr, g>>

NoChain == QSize

\* pci_vtnet_init: the thread waits for its first signal.
NetInit ==
  /\ rxq = EmptyQueue /\ txq = EmptyQueue
  /\ dev = [resetting |-> FALSE, rx_ready |-> FALSE, rx_in_progress |-> FALSE,
            tx_in_progress |-> FALSE, vhdrlen |-> 12, merge |-> TRUE,
            link |-> IF Kind = "vpnkit" THEN "down" ELSE "up"]
  /\ mtx = FALSE /\ txm = "none" /\ rxm = "none"
  /\ tx = "wait" /\ rx = "select" /\ vcpu = "run"
  /\ chain = [tx |-> NoChain, rx |-> NoChain]
  /\ intr = FALSE
  /\ g = [txseen |-> 0, txfree |-> Heads, rxseen |-> 0, rxfree |-> Heads, mode |-> "sleep"]

\* vpnkit_create: one attempt to connect, until one succeeds.
vpnkit_create ==
  /\ dev.link = "down"
  /\ dev' = [dev EXCEPT !.link = "up"]
  /\ UNCHANGED <<ring, locks, tx, rx, vcpu, chain, intr, g>>

\* vq_interrupt, by a thread that does not hold vsc_mtx.
vq_interrupt == (~Msix => ~mtx) /\ intr' = TRUE

-----------------------------------------------------------------------------
(* The transmit thread.                                                    *)

\* pthread_cond_wait returns with the mutex; so does pthread_mutex_lock.
TxLock ==
  /\ tx \in {"woken", "lock"} /\ txm = "none"
  /\ txm' = "tx" /\ tx' = "top"
  /\ txq' = Locked(txq)
  /\ UNCHANGED <<rxq, dev, mtx, rxm, rx, vcpu, chain, intr, g>>

\* Work to do: the mutex is released.
TxGo ==
  /\ txq' = [txq EXCEPT !.noNotify = TRUE]
  /\ dev' = [dev EXCEPT !.tx_in_progress = TRUE]
  /\ txm' = "none" /\ tx' = "proc"

\* The condition of the loop.
TxTop ==
  /\ tx = "top"
  /\ IF ~dev.resetting /\ vq_has_descs(txq) THEN TxGo
     ELSE tx' = "empty" /\ UNCHANGED <<txq, dev, txm>>
  /\ UNCHANGED <<rxq, mtx, rxm, rx, vcpu, chain, intr, g>>

\* Nothing to do: notifications are asked for.
TxAsk ==
  /\ tx = "empty"
  /\ txq' = [txq EXCEPT !.noNotify = FALSE]
  /\ tx' = "recheck"
  /\ UNCHANGED <<rxq, dev, locks, rx, vcpu, chain, intr, g>>

\* Mutant: the queue is not looked at again after notifications are on.
TxNoRecheck ==
  /\ tx = "recheck"
  /\ tx' = "wait" /\ txm' = "none" /\ dev' = [dev EXCEPT !.tx_in_progress = FALSE]
  /\ UNCHANGED <<ring, mtx, rxm, rx, vcpu, chain, intr, g>>

\* Mutant: the thread goes to sleep and still says that it is at work.
TxStaysBusy ==
  /\ tx = "recheck"
  /\ IF ~dev.resetting /\ vq_has_descs(txq) THEN TxGo
     ELSE txm' = "none" /\ tx' = "wait" /\ UNCHANGED <<txq, dev>>
  /\ UNCHANGED <<rxq, mtx, rxm, rx, vcpu, chain, intr, g>>

\* The second look, and the wait.
TxRecheck ==
  /\ tx = "recheck"
  /\ IF ~dev.resetting /\ vq_has_descs(txq) THEN TxGo
     ELSE /\ dev' = [dev EXCEPT !.tx_in_progress = FALSE]
          /\ txm' = "none" /\ tx' = "wait" /\ UNCHANGED txq
  /\ UNCHANGED <<rxq, mtx, rxm, rx, vcpu, chain, intr, g>>

\* pci_vtnet_proctx takes a chain and sends it (pci_vtnet_tap_tx, vmn_write).
pci_vtnet_proctx ==
  /\ tx = "proc"
  /\ chain' = [chain EXCEPT !.tx = vq_head(txq)]
  /\ txq' = vq_getchain(txq)
  /\ tx' = "sent"
  /\ UNCHANGED <<rxq, dev, locks, rx, vcpu, intr, g>>

\* It releases the chain; the loop goes on while there are more.
TxRelease ==
  /\ tx = "sent"
  /\ txq' = vq_relchain(txq, chain.tx)
  /\ chain' = [chain EXCEPT !.tx = NoChain]
  /\ tx' = IF vq_has_descs(txq) THEN "proc" ELSE "end"
  /\ UNCHANGED <<rxq, dev, locks, rx, vcpu, intr, g>>

\* vq_endchains(vq, 1).  The driver does not wait for this interrupt.
TxEnd ==
  /\ tx = "end"
  /\ IF vq_intr(txq, TRUE, OnEmpty) /\ ~Msix THEN vq_interrupt ELSE UNCHANGED intr
  /\ txq' = vq_saved(txq, TRUE, OnEmpty)
  /\ tx' = "lock"
  /\ UNCHANGED <<rxq, dev, locks, rx, vcpu, chain, g>>

\* The used index becomes visible.
TxDrain ==
  /\ txq.lag # 0
  /\ txq' = Drain(txq)
  /\ UNCHANGED <<rxq, dev, locks, tx, rx, vcpu, chain, intr, g>>

-----------------------------------------------------------------------------
(* The receiver: a thread around select (vpnkit), a callback of mevent or  *)
(* a thread (tap), a callback of the framework (vmnet).                    *)

\* A packet has come: pci_vtnet_tap_select_func, pci_vtnet_tap_callback.
RxBegin ==
  /\ rx = "select" /\ dev.link = "up" /\ rxm = "none"
  /\ rxm' = "rx" /\ rx' = "check"
  /\ dev' = [dev EXCEPT !.rx_in_progress = TRUE]
  /\ UNCHANGED <<ring, mtx, txm, tx, vcpu, chain, intr, g>>

\* pci_vtnet_tap_rx: without a ring the packet is dropped.
pci_vtnet_tap_rx ==
  /\ rx = "check"
  /\ rx' = IF dev.rx_ready THEN "ready" ELSE "done"
  /\ UNCHANGED <<ring, dev, locks, tx, vcpu, chain, intr, g>>

\* Mutant: a device that is being reset still receives.
RxIgnoresReset == FALSE

\* The second half of the test, a load of its own: a reset.
RxDrops == dev.resetting

\* The packet is dropped, or goes to the next chain.
RxTake ==
  /\ rx = "ready"
  /\ IF RxDrops THEN rx' = "done" /\ UNCHANGED <<rxq, chain>>
     ELSE IF ~vq_has_descs(rxq) THEN rx' = "end" /\ UNCHANGED <<rxq, chain>>
     ELSE /\ chain' = [chain EXCEPT !.rx = vq_head(rxq)]
          /\ rxq' = vq_getchain(rxq) /\ rx' = "fill"
  /\ UNCHANGED <<txq, dev, locks, tx, vcpu, intr, g>>

\* vmn_read of vpnkit: one packet for every call.
VpnkitFill == rxq' = vq_relchain(rxq, chain.rx) /\ rx' = "end"

\* The loop of tap: the next packet, while there are chains.
TapFill ==
  /\ rxq' = vq_relchain(rxq, chain.rx)
  /\ rx' = IF vq_has_descs(rxq) THEN "more" ELSE "end"

\* EWOULDBLOCK, or no packet from vmnet_read: the chain is given back.
RxGiveBack == rxq' = vq_retchain(rxq) /\ rx' = "end0"

\* The packet is read into the chain.
RxFill ==
  /\ rx = "fill"
  /\ IF Kind = "vpnkit" THEN VpnkitFill ELSE TapFill \/ RxGiveBack
  /\ chain' = [chain EXCEPT !.rx = NoChain]
  /\ UNCHANGED <<txq, dev, locks, tx, vcpu, intr, g>>

RxMore ==
  /\ rx = "more"
  /\ chain' = [chain EXCEPT !.rx = vq_head(rxq)]
  /\ rxq' = vq_getchain(rxq) /\ rx' = "fill"
  /\ UNCHANGED <<txq, dev, locks, tx, vcpu, intr, g>>

\* vq_endchains.  A queue that was reset has no MSI-X vector.
RxEnd ==
  /\ rx \in {"end", "end0"}
  /\ IF vq_intr(rxq, rx = "end", OnEmpty) /\ (Msix => rxq.alloc)
     THEN vq_interrupt ELSE UNCHANGED intr
  /\ rxq' = vq_saved(rxq, rx = "end", OnEmpty)
  /\ rx' = "done"
  /\ UNCHANGED <<txq, dev, locks, tx, vcpu, chain, g>>

RxDone ==
  /\ rx = "done"
  /\ rx' = "select" /\ rxm' = "none"
  /\ dev' = [dev EXCEPT !.rx_in_progress = FALSE]
  /\ rxq' = Locked(rxq)
  /\ UNCHANGED <<txq, mtx, txm, tx, vcpu, chain, intr, g>>

\* The used index becomes visible.
RxDrain ==
  /\ rxq.lag # 0
  /\ rxq' = Drain(rxq)
  /\ UNCHANGED <<txq, dev, locks, tx, rx, vcpu, chain, intr, g>>

\* The connection is lost (really_read): the thread presses the power button
\* and sleeps for ever, with rx_mtx.
RxLost ==
  /\ rx \in {"check", "ready", "fill"} /\ Kind = "vpnkit" /\ ~Resets
  /\ rx' = "lost" /\ dev' = [dev EXCEPT !.link = "lost"]
  /\ UNCHANGED <<ring, locks, tx, vcpu, chain, intr, g>>

-----------------------------------------------------------------------------
(* The vcpu, in vi_pci_write with vsc_mtx.                                 *)

Run == vcpu = "run" /\ ~mtx

\* VTCFG_R_GUESTCAP, right after a reset: pci_vtnet_neg_features.
pci_vtnet_neg_features(mrg) ==
  /\ Run /\ ~rxq.alloc /\ dev.merge
  /\ dev' = [dev EXCEPT !.merge = mrg, !.vhdrlen = IF mrg THEN @ ELSE @ - 2]
  /\ UNCHANGED <<ring, locks, tx, rx, vcpu, chain, intr, g>>

\* VTCFG_R_PFN for both queues; the driver fills the receive queue.
WritePfn ==
  /\ Run /\ ~rxq.alloc
  /\ rxq' = vi_vq_init(rxq) /\ txq' = vi_vq_init(txq)
  /\ g' = [txseen |-> 0, txfree |-> Heads, rxseen |-> 0, rxfree |-> Heads, mode |-> "sleep"]
  /\ UNCHANGED <<dev, locks, tx, rx, vcpu, chain, intr>>

\* VTCFG_R_QNOTIFY of the receive queue.
pci_vtnet_ping_rxq ==
  /\ "rx" \in Uses /\ Run /\ rxq.alloc /\ ~dev.rx_ready
  /\ dev' = [dev EXCEPT !.rx_ready = TRUE]
  /\ rxq' = [rxq EXCEPT !.noNotify = TRUE]
  /\ UNCHANGED <<txq, locks, tx, rx, vcpu, chain, intr, g>>

\* VTCFG_R_QNOTIFY of the transmit queue: the first half of
\* pci_vtnet_ping_txq.
PingTxBegin ==
  /\ vcpu = "kick" /\ ~mtx /\ ~txq.noNotify
  /\ IF vq_has_descs(txq) THEN mtx' = TRUE /\ vcpu' = "ping"
     ELSE vcpu' = "run" /\ UNCHANGED mtx
  /\ UNCHANGED <<ring, dev, txm, rxm, tx, rx, chain, intr, g>>

\* The driver need not notify.
SkipNotify ==
  /\ vcpu = "kick" /\ txq.noNotify
  /\ vcpu' = "run"
  /\ UNCHANGED <<ring, dev, locks, tx, rx, chain, intr, g>>

\* Its second half, with tx_mtx: the signal.
pci_vtnet_ping_txq ==
  /\ vcpu = "ping" /\ txm = "none"
  /\ txq' = [txq EXCEPT !.noNotify = TRUE]
  /\ tx' = IF ~dev.tx_in_progress /\ tx = "wait" THEN "woken" ELSE tx
  /\ vcpu' = "run" /\ mtx' = FALSE
  /\ UNCHANGED <<rxq, dev, txm, rxm, rx, chain, intr, g>>

\* VTCFG_R_STATUS of 0: pci_vtnet_reset.
ResetBegin ==
  /\ Resets /\ Run /\ rxq.alloc
  /\ mtx' = TRUE /\ vcpu' = "txwait"
  /\ dev' = [dev EXCEPT !.resetting = TRUE]
  /\ UNCHANGED <<ring, txm, rxm, tx, rx, chain, intr, g>>

pci_vtnet_txwait ==
  /\ vcpu = "txwait" /\ txm = "none" /\ ~dev.tx_in_progress
  /\ vcpu' = "rxwait"
  /\ UNCHANGED <<ring, dev, locks, tx, rx, chain, intr, g>>

pci_vtnet_rxwait ==
  /\ vcpu = "rxwait" /\ rxm = "none" /\ ~dev.rx_in_progress
  /\ vcpu' = "reset"
  /\ UNCHANGED <<ring, dev, locks, tx, rx, chain, intr, g>>

\* The rest of pci_vtnet_reset: stores that no mutex of the threads covers,
\* in this order.  First the receiver is no longer ready;
pci_vtnet_reset ==
  /\ vcpu = "reset"
  /\ dev' = [dev EXCEPT !.rx_ready = FALSE, !.merge = TRUE, !.vhdrlen = 12]
  /\ vcpu' = "clear"
  /\ UNCHANGED <<ring, locks, tx, rx, chain, intr, g>>

\* then vi_reset_dev takes the queues, and the driver forgets them;
ResetRings ==
  /\ vcpu = "clear"
  /\ rxq' = vi_reset_dev(rxq) /\ txq' = vi_reset_dev(txq)
  /\ intr' = FALSE
  /\ vcpu' = "over"
  /\ UNCHANGED <<dev, locks, tx, rx, chain, g>>

\* then the reset is over.
ResetOver ==
  /\ vcpu = "over"
  /\ dev' = [dev EXCEPT !.resetting = FALSE]
  /\ mtx' = FALSE /\ vcpu' = "run"
  /\ UNCHANGED <<ring, txm, rxm, tx, rx, chain, intr, g>>

-----------------------------------------------------------------------------
(* The driver.                                                             *)

TxPost(idx) ==
  /\ "tx" \in Uses /\ vcpu = "run" /\ txq.alloc /\ idx \in g.txfree
  /\ txq' = guest_post(txq, idx)
  /\ g' = [g EXCEPT !.txfree = @ \ {idx}]
  /\ vcpu' = "kick"
  /\ UNCHANGED <<rxq, dev, locks, tx, rx, chain, intr>>

TxReclaim ==
  /\ txq.alloc /\ guest_sees(txq, g.txseen) /\ vcpu = "run"
  /\ g' = [g EXCEPT !.txseen = (@ + 1) % W, !.txfree = @ \cup {guest_head(txq, g.txseen)}]
  /\ UNCHANGED <<ring, dev, locks, tx, rx, vcpu, chain, intr>>

RxPost(idx) ==
  /\ "rx" \in Uses /\ vcpu = "run" /\ rxq.alloc /\ idx \in g.rxfree
  /\ rxq' = guest_post(rxq, idx)
  /\ g' = [g EXCEPT !.rxfree = @ \ {idx}]
  /\ UNCHANGED <<txq, dev, locks, tx, rx, vcpu, chain, intr>>

\* The interrupt handler (it reads ISR, with the mutex, if it uses the pin).
TakeInterrupt ==
  /\ intr /\ g.mode = "sleep" /\ rxq.alloc /\ vcpu = "run" /\ (~Msix => ~mtx)
  /\ intr' = FALSE
  /\ rxq' = [rxq EXCEPT !.noIntr = TRUE]
  /\ g' = [g EXCEPT !.mode = "poll"]
  /\ UNCHANGED <<txq, dev, locks, tx, rx, vcpu, chain>>

RxReclaim ==
  /\ g.mode = "poll" /\ rxq.alloc /\ vcpu = "run" /\ guest_sees(rxq, g.rxseen)
  /\ g' = [g EXCEPT !.rxseen = (@ + 1) % W, !.rxfree = @ \cup {guest_head(rxq, g.rxseen)}]
  /\ UNCHANGED <<ring, dev, locks, tx, rx, vcpu, chain, intr>>

Enable ==
  /\ g.mode = "poll" /\ rxq.alloc /\ vcpu = "run" /\ ~guest_sees(rxq, g.rxseen)
  /\ rxq' = [rxq EXCEPT !.noIntr = FALSE]
  /\ g' = [g EXCEPT !.mode = "look"]
  /\ UNCHANGED <<txq, dev, locks, tx, rx, vcpu, chain, intr>>

Look ==
  /\ g.mode = "look" /\ rxq.alloc /\ vcpu = "run"
  /\ IF guest_sees(rxq, g.rxseen)
     THEN g' = [g EXCEPT !.mode = "poll"] /\ rxq' = [rxq EXCEPT !.noIntr = TRUE]
     ELSE g' = [g EXCEPT !.mode = "sleep"] /\ UNCHANGED rxq
  /\ UNCHANGED <<txq, dev, locks, tx, rx, vcpu, chain, intr>>

-----------------------------------------------------------------------------
TxThread == TxLock \/ TxTop \/ TxAsk \/ TxRecheck \/ pci_vtnet_proctx \/ TxRelease \/ TxEnd
RxThread == pci_vtnet_tap_rx \/ RxTake \/ RxFill \/ RxMore \/ RxEnd \/ RxDone
Vcpu ==
  \/ PingTxBegin \/ SkipNotify \/ pci_vtnet_ping_txq
  \/ pci_vtnet_txwait \/ pci_vtnet_rxwait
  \/ pci_vtnet_reset \/ ResetRings \/ ResetOver
Driver == TakeInterrupt \/ RxReclaim \/ Enable \/ Look

NetNext ==
  \/ TxThread \/ TxDrain \/ RxBegin \/ RxThread \/ RxDrain \/ RxLost \/ Vcpu \/ Driver
  \/ vpnkit_create \/ WritePfn \/ pci_vtnet_ping_rxq \/ ResetBegin \/ TxReclaim
  \/ \E mrg \in Mrg : pci_vtnet_neg_features(mrg)
  \/ \E i \in Chains : TxPost(i) \/ RxPost(i)

NetSpec == NetInit /\ [][NetNext]_netvars

\* The steps of the threads and of a reset that wait for nothing.
TxRuns == TxTop \/ TxAsk \/ TxRecheck \/ pci_vtnet_proctx \/ TxRelease
RxRuns == pci_vtnet_tap_rx \/ RxTake \/ RxFill \/ RxMore \/ RxDone
ResetEnds == pci_vtnet_reset \/ ResetRings \/ ResetOver

\* The threads and the vcpu go on; a mutex is won in the end, and the reset,
\* which polls, finds it free.  Packets need not come, and no store need leave
\* its buffer before the next locked instruction.
NetFairness ==
  /\ WF_netvars(TxRuns) /\ SF_netvars(TxLock) /\ SF_netvars(TxEnd)
  /\ WF_netvars(RxRuns) /\ SF_netvars(RxEnd)
  /\ SF_netvars(pci_vtnet_txwait) /\ SF_netvars(pci_vtnet_rxwait) /\ SF_netvars(pci_vtnet_ping_txq)
  /\ WF_netvars(PingTxBegin) /\ WF_netvars(SkipNotify) /\ WF_netvars(ResetEnds)

NetFairSpec == NetSpec /\ NetFairness

-----------------------------------------------------------------------------
\* While a thread has a chain of a ring, or is about to take one, the ring
\* exists and has it (assert(n >= 1) in pci_vtnet_proctx and pci_vtnet_tap_rx).
\* The transmit thread keeps its ring until vq_endchains is over; the receiver
\* does if it took a chain, although it tests rx_ready and resetting one after
\* the other and the reset sets them back without its mutex.
RingOwned ==
  /\ tx \in {"proc", "sent", "end"} => txq.alloc
  /\ tx = "proc" => vq_has_descs(txq)
  /\ rx \in {"fill", "more", "end0"} => rxq.alloc
  /\ rx = "more" => vq_has_descs(rxq)

\* The chains of both rings are conserved, also when a chain is given back.
ChainsConserved ==
  /\ txq.alloc => Conserved(txq, g.txseen, g.txfree, {chain.tx} \cap Heads)
  /\ rxq.alloc => Conserved(rxq, g.rxseen, g.rxfree, {chain.rx} \cap Heads)

\* Both of the above: no reset takes a ring from a thread that has a chain of
\* it, and no chain is lost (pci_virtio_net_*.c, virtio.c).
RingsOwned == RingOwned /\ ChainsConserved

(* The inductive invariant of the proofs.                                  *)

NetTypeOK ==
  /\ rxq \in Queues /\ txq \in Queues
  /\ dev \in [resetting : BOOLEAN, rx_ready : BOOLEAN, rx_in_progress : BOOLEAN,
              tx_in_progress : BOOLEAN, vhdrlen : {10, 12}, merge : BOOLEAN,
              link : {"down", "up", "lost"}]
  /\ dev.merge => dev.vhdrlen = 12
  /\ mtx \in BOOLEAN /\ txm \in {"none", "tx"} /\ rxm \in {"none", "rx"}
  /\ tx \in {"wait", "woken", "lock", "top", "empty", "recheck", "proc", "sent", "end"}
  /\ rx \in {"select", "check", "ready", "fill", "more", "end", "end0", "done", "lost"}
  /\ vcpu \in {"run", "kick", "ping", "txwait", "rxwait", "reset", "clear", "over"}
  /\ chain \in [tx : Heads \cup {NoChain}, rx : Heads \cup {NoChain}]
  /\ intr \in BOOLEAN
  /\ g \in [txseen : Indices, txfree : SUBSET Heads, rxseen : Indices, rxfree : SUBSET Heads,
            mode : {"sleep", "poll", "look"}]

\* What the flags say of the threads, and how far a reset has waited for them.
ResetWaits ==
  /\ dev.resetting <=> vcpu \in {"txwait", "rxwait", "reset", "clear", "over"}
  /\ dev.resetting => Resets
  /\ tx \in {"proc", "sent", "end"} => dev.tx_in_progress
  /\ rx \in {"check", "ready", "fill", "more", "end", "end0", "lost"} => dev.rx_in_progress
  /\ rx = "lost" => ~Resets
  /\ vcpu \in {"rxwait", "reset", "clear", "over"} => ~dev.tx_in_progress
  /\ vcpu \in {"reset", "clear", "over"} => rx \notin {"fill", "more", "end", "end0"}
  /\ vcpu = "clear" => ~dev.rx_ready

\* The queues come and go together, and a receiver that is ready has one.
QueuesExist ==
  /\ rxq.alloc = txq.alloc
  /\ dev.rx_ready => rxq.alloc

\* What the threads have in hand; a chain that may be given back is still the
\* one before the index of the queue.
InHand ==
  /\ tx = "sent" <=> chain.tx # NoChain
  /\ chain.rx # NoChain => rx \in {"fill", "lost"} /\ rxq.alloc
  /\ rx = "fill" => chain.rx # NoChain /\ chain.rx = vq_head(vq_retchain(rxq))

NetInv == NetTypeOK /\ ResetWaits /\ QueuesExist /\ InHand /\ RingsOwned

\* A packet the driver posts is sent, although it may have seen NO_NOTIFY and
\* not have notified, unless the device is reset.
Unsent(i) == i \in AvailChains(txq) /\ txq.alloc /\ ~dev.resetting
PacketSent == \A i \in Heads : Unsent(i) ~> ~Unsent(i)

\* A reset comes to its end, so the vcpu that asked for it goes on.  True with
\* MSI-X only: with the pin the thread that the reset waits for may itself wait
\* in vq_interrupt for vsc_mtx, which the reset holds.
ResetReturns == dev.resetting ~> ~dev.resetting

(* A statement of the source that the code does not keep.                  *)

\* pci_vtnet_reset is to "wait for the transmit and receive threads to finish
\* their processing": no thread comes to vq_endchains of a ring that was reset.
ResetWaitsForThreads ==
  (tx = "end" => txq.alloc) /\ (rx \in {"end", "end0"} => rxq.alloc)
=============================================================================
