------------------------------- MODULE Virtio -------------------------------
(***************************************************************************)
(* The generic part of the virtio devices (virtio.c, virtio.h): a queue    *)
(* and what the devices do to it.                                          *)
(*                                                                         *)
(* A queue is a record with the fields of struct vqueue_info (alloc is     *)
(* VQ_ALLOC, last is vq_last_avail, save is vq_save_used) and the rings in *)
(* the guest's memory: their indices avail and used, modulo W as the       *)
(* code's are modulo 2^16, and their flags.  A chain of descriptors is     *)
(* its head, a number below QSize.                                         *)
(*                                                                         *)
(* Memory is that of x86: a store may stay in the processor's store buffer *)
(* while later loads of the same thread are done, and leaves it in order.  *)
(* The one place where this shows is the used index, which the device      *)
(* stores before it loads the flags of the avail ring, without a fence:    *)
(* used is the index as the device sees it, and the last lag steps of it   *)
(* are not yet visible to the guest.  A locked instruction (a mutex, an    *)
(* interrupt) empties the buffer.                                          *)
(***************************************************************************)
EXTENDS Naturals, FiniteSets

CONSTANTS
  QSize,     \* vq_qsize
  W          \* the indices of the rings wrap around here; a multiple of QSize

\* virtio.c: "number of queue entries (a power of 2)", and 16-bit indices.
ASSUME VirtioConstants ==
  QSize \in Nat \ {0} /\ W \in Nat /\ W > QSize /\ W % QSize = 0

Heads == 0 .. QSize - 1

Indices == 0 .. W - 1
Queues ==
  [alloc : BOOLEAN, last : Indices, save : Indices, avail : Indices, used : Indices,
   lag : Nat, aring : [Heads -> Heads], uring : [Heads -> Heads], noIntr : BOOLEAN, noNotify : BOOLEAN]

\* A queue the guest has not set up.
EmptyQueue ==
  [alloc |-> FALSE, last |-> 0, save |-> 0, avail |-> 0, used |-> 0,
   lag |-> 0, aring |-> [i \in Heads |-> 0], uring |-> [i \in Heads |-> 0],
   noIntr |-> FALSE, noNotify |-> FALSE]

\* vi_vq_init: the guest gives a page with zeroed rings.
vi_vq_init(q) == [EmptyQueue EXCEPT !.alloc = TRUE]

\* vi_reset_dev, for one queue: the rings are the guest's and stay as they are.
vi_reset_dev(q) == [q EXCEPT !.alloc = FALSE, !.last = 0, !.save = 0]

vq_has_descs(q) == q.alloc /\ q.last # q.avail

\* The number of chains the guest has made available (ndesc).
ndesc(q) == (q.avail + W - q.last) % W

\* vq_getchain: the next chain, and the queue after it.
vq_head(q) == q.aring[q.last % QSize]
vq_getchain(q) == [q EXCEPT !.last = (@ + 1) % W]

\* vq_retchain: the chain taken last is available again.
vq_retchain(q) == [q EXCEPT !.last = (@ + W - 1) % W]

\* vq_relchain: the store of vu_idx goes to the store buffer.
vq_relchain(q, idx) ==
  [q EXCEPT !.uring[q.used % QSize] = idx, !.used = (@ + 1) % W, !.lag = @ + 1]

\* The oldest store leaves the buffer; a locked instruction empties it.
Drain(q) == [q EXCEPT !.lag = @ - 1]
Locked(q) == [q EXCEPT !.lag = 0]

\* vq_endchains: is an interrupt due, and the index it saves; raising the
\* interrupt takes locks.  No device offers VIRTIO_RING_F_EVENT_IDX.
vq_intr(q, usedAll, onEmpty) ==
  \/ usedAll /\ onEmpty
  \/ q.used # q.save /\ ~q.noIntr
vq_saved(q, usedAll, onEmpty) ==
  LET r == [q EXCEPT !.save = q.used]
  IN  IF vq_intr(q, usedAll, onEmpty) THEN Locked(r) ELSE r

-----------------------------------------------------------------------------
(* The driver of the guest.  seen is the index of the used ring up to      *)
(* which it has looked.                                                    *)

\* The guest makes a chain available.
guest_post(q, idx) ==
  [q EXCEPT !.aring[q.avail % QSize] = idx, !.avail = (@ + 1) % W]

guest_head(q, seen) == q.uring[seen % QSize]

\* The used ring has an entry that the guest can see and has not looked at.
UsedCount(q, seen) == (q.used + W - seen) % W
guest_sees(q, seen) == UsedCount(q, seen) > q.lag

\* The chains in the avail ring that the device has not taken, and those in
\* the used ring that the guest has not seen.
AvailChains(q) == {q.aring[(q.last + i) % QSize] : i \in 0 .. ndesc(q) - 1}
UsedChains(q, seen) == {q.uring[(seen + i) % QSize] : i \in 0 .. UsedCount(q, seen) - 1}

\* Every chain is in exactly one place: with the guest (free), in the avail
\* ring, with the device (held), or in the used ring.
Conserved(q, seen, free, held) ==
  /\ free \cup held \cup AvailChains(q) \cup UsedChains(q, seen) = Heads
  /\ Cardinality(free) + Cardinality(held) + ndesc(q) + UsedCount(q, seen) = QSize
=============================================================================
