------------------------------ MODULE BlockIf ------------------------------
(***************************************************************************)
(* The block backend of block_if.c: a fixed pool of request elements, a    *)
(* queue of pending ones, one I/O thread that takes and completes them,    *)
(* and the device emulation (AHCI, virtio-block) that issues, cancels and  *)
(* closes.                                                                 *)
(*                                                                         *)
(* The thread does its I/O and runs the device's callback without bc_mtx.  *)
(* The device issues and cancels under its own lock, which its callback    *)
(* takes too; blockif_cancel keeps bc_mtx while it waits for an I/O to be  *)
(* interrupted.  A request is a range of blocks that begins at br_offset   *)
(* and ends at be_block; what is read or written is not modelled.  The     *)
(* fields of a free element and of a request the device owns, which nobody *)
(* reads, are set to 0.                                                    *)
(***************************************************************************)
EXTENDS Integers, Sequences, SequencesExt, FiniteSets

CONSTANTS Reqs,      \* the blockif_req objects of the device (br)
          Elems,     \* bc_reqs[]
          MaxOffset, \* bound on the offsets of requests
          NoElem     \* no element

ASSUME ElemsAssumption == IsFiniteSet(Elems) /\ Elems # {} /\ NoElem \notin Elems
ASSUME ReqsAssumption == IsFiniteSet(Reqs) /\ NoElem \notin Reqs
ASSUME MaxOffsetAssumption == MaxOffset \in Nat

BLOCKIF_MAXREQ == Cardinality(Elems)
OFF_MAX == MaxOffset + 2
Offsets == 0 .. MaxOffset + 1

VARIABLES
  be_status,  \* per element
  be_req,     \* per element: its request, NoElem when it is free
  be_block,   \* per element: where its request ends
  pendq,      \* bc_pendq
  busyq,      \* bc_busyq
  br_offset,  \* per request: where it begins
  dev,        \* per request, for the device: "free" or "issued"
  pc,         \* where the I/O thread is
  cur,        \* its element
  sig,        \* bc_cond was signalled while it waits
  file,       \* "open", "closing" (bc_closing) or "closed"
  cpc,        \* where blockif_cancel is; it holds both locks unless "none"
  canc,       \* its element
  bse,        \* its blockif_sig_elem
  sigcont,    \* SIGCONT waits for the mevent thread
  err         \* what the last call of the device returned

vars == <<be_status, be_req, be_block, pendq, busyq, br_offset, dev, pc, cur,
          sig, file, cpc, canc, bse, sigcont, err>>

Init ==
  /\ be_status = [e \in Elems |-> "FREE"]
  /\ be_req = [e \in Elems |-> NoElem]
  /\ be_block = [e \in Elems |-> 0]
  /\ pendq = <<>> /\ busyq = {}
  /\ br_offset = [r \in Reqs |-> 0]
  /\ dev = [r \in Reqs |-> "free"]
  /\ pc = "top" /\ cur = NoElem /\ sig = FALSE
  /\ file = "open"
  /\ cpc = "none" /\ canc = NoElem /\ bse = "none" /\ sigcont = FALSE
  /\ err = "0"

PendSet == {pendq[i] : i \in DOMAIN pendq}
FreeSet == {e \in Elems : be_status[e] = "FREE"}

-----------------------------------------------------------------------------
(* The queues.                                                             *)

\* The elements a new request waits for: those that end where it begins.
Blockers(at) == {e \in PendSet \cup busyq : be_block[e] = at}

\* blockif_enqueue for request r of the blocks from `at' to `end'.
blockif_enqueue(r, at, end) ==
  LET be == CHOOSE e \in FreeSet : TRUE
      runnable == Blockers(at) = {}
  IN /\ be_req' = [be_req EXCEPT ![be] = r]
     /\ be_block' = [be_block EXCEPT ![be] = end]
     /\ be_status' = [be_status EXCEPT ![be] = IF runnable THEN "PEND" ELSE "BLOCK"]
     /\ pendq' = Append(pendq, be)
     /\ sig' = (sig \/ (runnable /\ pc = "wait"))

\* TAILQ_REMOVE from the queue that the status of the element says.
Unlink(e) ==
  IF be_status[e] \in {"DONE", "BUSY"}
  THEN busyq' = busyq \ {e} /\ pendq' = pendq
  ELSE /\ busyq' = busyq
       /\ pendq' = RemoveAt(pendq, CHOOSE i \in DOMAIN pendq : pendq[i] = e)

\* Mutant: a completed request unblocks nobody.
CompleteNoUnblock(e) ==
  /\ Unlink(e)
  /\ be_status' = [be_status EXCEPT ![e] = "FREE"]
  /\ be_req' = [be_req EXCEPT ![e] = NoElem]
  /\ be_block' = [be_block EXCEPT ![e] = 0]

\* blockif_complete: unlink, let those that wait for this element run, free it.
blockif_complete(e) ==
  /\ Unlink(e)
  /\ be_status' = [t \in Elems |->
       IF t = e THEN "FREE"
       ELSE IF t \in PendSet /\ br_offset[be_req[t]] = be_block[e] THEN "PEND"
       ELSE be_status[t]]
  /\ be_req' = [be_req EXCEPT ![e] = NoElem]
  /\ be_block' = [be_block EXCEPT ![e] = 0]

-----------------------------------------------------------------------------
(* The device.  Its lock and bc_mtx are free when no cancel is under way.  *)

\* What the device may have outstanding.
blockif_queuesz == BLOCKIF_MAXREQ - 1

Issued == {r \in Reqs : dev[r] = "issued"}

\* blockif_read, write, delete and flush: blockif_request.
Issue(r) ==
  /\ file = "open" /\ cpc = "none"
  /\ dev[r] = "free"
  /\ Cardinality(Issued) < blockif_queuesz
  /\ \E at \in 0 .. MaxOffset : \E end \in {at, at + 1, OFF_MAX} :
       /\ br_offset' = [br_offset EXCEPT ![r] = at]
       /\ IF FreeSet # {}
          THEN /\ blockif_enqueue(r, at, end)
               /\ dev' = [dev EXCEPT ![r] = "issued"]
               /\ err' = "0"
          ELSE /\ err' = "E2BIG"
               /\ UNCHANGED <<be_req, be_block, be_status, pendq, sig, dev>>
  /\ UNCHANGED <<busyq, pc, cur, file, cpc, canc, bse, sigcont>>

\* Mutant: a request in progress counts as cancelled too.
CancelBusyToo(r) ==
  /\ file = "open" /\ cpc = "none"
  /\ dev[r] = "issued"
  /\ dev' = [dev EXCEPT ![r] = "free"]
  /\ err' = "0"
  /\ LET pend == {e \in PendSet : be_req[e] = r}
     IN \/ \E e \in pend : blockif_complete(e)
        \/ pend = {} /\ UNCHANGED <<be_status, be_req, be_block, pendq, busyq>>
  /\ UNCHANGED <<br_offset, pc, cur, sig, file, bse, sigcont, cpc, canc>>

\* blockif_cancel of a request the device has outstanding (ahci_port_stop):
\* drop it from the pending queue, or wait until its I/O is interrupted.
blockif_cancel(r) ==
  /\ file = "open" /\ cpc = "none"
  /\ dev[r] = "issued"
  /\ LET pend == {e \in PendSet : be_req[e] = r}
         busy == {e \in busyq : be_req[e] = r}
     IN \/ /\ pend # {}
           /\ \E e \in pend : blockif_complete(e)
           /\ dev' = [dev EXCEPT ![r] = "free"]
           /\ br_offset' = [br_offset EXCEPT ![r] = 0]
           /\ err' = "0"
           /\ UNCHANGED <<cpc, canc>>
        \/ /\ pend = {}
           /\ IF busy # {}
              THEN cpc' = "loop" /\ canc' \in busy /\ UNCHANGED err
              ELSE err' = "EINVAL" /\ UNCHANGED <<cpc, canc>>
           /\ UNCHANGED <<be_status, be_req, be_block, pendq, busyq, br_offset, dev>>
  /\ UNCHANGED <<pc, cur, sig, file, bse, sigcont>>

\* The loop of blockif_cancel: push a signal element, or return.
CancelLoop ==
  /\ cpc = "loop"
  /\ \/ /\ be_status[canc] = "BUSY"
        /\ bse' = "pushed" /\ cpc' = "kill"
        /\ UNCHANGED <<canc, err>>
     \/ /\ be_status[canc] # "BUSY"
        /\ cpc' = "none" /\ canc' = NoElem /\ bse' = "none"
        /\ err' = "EBUSY"
  /\ UNCHANGED <<be_status, be_req, be_block, pendq, busyq, br_offset, dev, pc,
                 cur, sig, file, sigcont>>

\* Mutant: the signal is forgotten.
KillNothing ==
  /\ cpc = "kill"
  /\ cpc' = "wait"
  /\ UNCHANGED <<be_status, be_req, be_block, pendq, busyq, br_offset, dev, pc,
                 cur, sig, file, canc, bse, sigcont, err>>

\* pthread_kill(be_tid, SIGCONT).
CancelKill ==
  /\ cpc = "kill"
  /\ cpc' = "wait"
  /\ sigcont' = TRUE
  /\ UNCHANGED <<be_status, be_req, be_block, pendq, busyq, br_offset, dev, pc,
                 cur, sig, file, canc, bse, err>>

\* bse_pending is clear: look at the element again.
CancelWake ==
  /\ cpc = "wait" /\ bse = "handled"
  /\ cpc' = "loop"
  /\ UNCHANGED <<be_status, be_req, be_block, pendq, busyq, br_offset, dev, pc,
                 cur, sig, file, canc, bse, sigcont, err>>

\* blockif_sigcont_handler in the mevent thread empties the list.
SigcontHandler ==
  /\ sigcont
  /\ sigcont' = FALSE
  /\ bse' = IF bse = "pushed" THEN "handled" ELSE bse
  /\ UNCHANGED <<be_status, be_req, be_block, pendq, busyq, br_offset, dev, pc,
                 cur, sig, file, cpc, canc, err>>

\* blockif_cancel of another disk: the list and the signal are shared.
OtherCancel ==
  /\ ~sigcont
  /\ sigcont' = TRUE
  /\ UNCHANGED <<be_status, be_req, be_block, pendq, busyq, br_offset, dev, pc,
                 cur, sig, file, cpc, canc, bse, err>>

\* blockif_close: stop the thread ...
CloseStart ==
  /\ file = "open" /\ cpc = "none"
  /\ file' = "closing"
  /\ sig' = (sig \/ pc = "wait")
  /\ UNCHANGED <<be_status, be_req, be_block, pendq, busyq, br_offset, dev, pc,
                 cur, cpc, canc, bse, sigcont, err>>

\* ... join it and release everything.
CloseJoin ==
  /\ file = "closing" /\ pc = "exit"
  /\ file' = "closed"
  /\ UNCHANGED <<be_status, be_req, be_block, pendq, busyq, br_offset, dev, pc,
                 cur, sig, cpc, canc, bse, sigcont, err>>

-----------------------------------------------------------------------------
(* The I/O thread, blockif_thr.                                            *)

\* Where the requests that may run are in the queue.
Runnable == {i \in DOMAIN pendq : be_status[pendq[i]] = "PEND"}

\* The loop: blockif_dequeue the first request that may run; without one, exit
\* when closing, else wait.
Top ==
  /\ pc = "top" /\ cpc = "none"
  /\ \/ \E i \in Runnable :
          /\ \A j \in Runnable : i <= j
          /\ pc' = "proc" /\ cur' = pendq[i]
          /\ be_status' = [be_status EXCEPT ![pendq[i]] = "BUSY"]
          /\ pendq' = RemoveAt(pendq, i)
          /\ busyq' = busyq \cup {pendq[i]}
     \/ /\ Runnable = {}
        /\ pc' = IF file = "open" THEN "wait" ELSE "exit"
        /\ UNCHANGED <<be_status, pendq, busyq, cur>>
  /\ UNCHANGED <<be_req, be_block, br_offset, dev, sig, file, cpc, canc, bse,
                 sigcont, err>>

\* pthread_cond_wait returns.
CondWake ==
  /\ pc = "wait" /\ sig /\ cpc = "none"
  /\ sig' = FALSE /\ pc' = "top"
  /\ UNCHANGED <<be_status, be_req, be_block, pendq, busyq, br_offset, dev, cur,
                 file, cpc, canc, bse, sigcont, err>>

\* blockif_proc: the I/O, or its error; no lock is held.
Proc ==
  /\ pc = "proc"
  /\ be_status' = [be_status EXCEPT ![cur] = "DONE"]
  /\ pc' = "callback"
  /\ UNCHANGED <<be_req, be_block, pendq, busyq, br_offset, dev, cur, sig, file,
                 cpc, canc, bse, sigcont, err>>

\* br_callback, under the lock of the device, which may use the request again
\* at once.
Callback ==
  /\ pc = "callback" /\ cpc = "none"
  /\ dev' = [dev EXCEPT ![be_req[cur]] = "free"]
  /\ br_offset' = [br_offset EXCEPT ![be_req[cur]] = 0]
  /\ pc' = "complete"
  /\ UNCHANGED <<be_status, be_req, be_block, pendq, busyq, cur, sig, file, cpc,
                 canc, bse, sigcont, err>>

\* Back under bc_mtx.
Complete ==
  /\ pc = "complete" /\ cpc = "none"
  /\ blockif_complete(cur)
  /\ pc' = "top" /\ cur' = NoElem
  /\ UNCHANGED <<br_offset, dev, sig, file, cpc, canc, bse, sigcont, err>>

-----------------------------------------------------------------------------
ThreadStep == Top \/ CondWake \/ Proc \/ Callback \/ Complete
CancelStep == CancelLoop \/ CancelKill \/ CancelWake

Next ==
  \/ \E r \in Reqs : Issue(r) \/ blockif_cancel(r)
  \/ CancelStep \/ SigcontHandler \/ OtherCancel
  \/ CloseStart \/ CloseJoin
  \/ ThreadStep

Spec == Init /\ [][Next]_vars

\* The threads are scheduled, an I/O ends, and a mutex that is free again and
\* again is acquired.
FairSpec ==
  /\ Spec
  /\ WF_vars(CondWake) /\ WF_vars(Proc)
  /\ SF_vars(Top) /\ SF_vars(Callback) /\ SF_vars(Complete)
  /\ WF_vars(CancelStep) /\ WF_vars(SigcontHandler) /\ WF_vars(CloseJoin)

-----------------------------------------------------------------------------
\* The values each part of the backend can hold; the two queues only link
\* elements.
TypeOK ==
  /\ be_status \in [Elems -> {"FREE", "BLOCK", "PEND", "BUSY", "DONE"}]
  /\ be_req \in [Elems -> Reqs \cup {NoElem}]
  /\ be_block \in [Elems -> Offsets \cup {OFF_MAX}]
  /\ pendq \in Seq(Elems) /\ busyq \subseteq Elems
  /\ br_offset \in [Reqs -> 0 .. MaxOffset]
  /\ dev \in [Reqs -> {"free", "issued"}]
  /\ pc \in {"top", "wait", "proc", "callback", "complete", "exit"}
  /\ cur \in Elems \cup {NoElem} /\ canc \in Elems \cup {NoElem}
  /\ sig \in BOOLEAN /\ sigcont \in BOOLEAN
  /\ file \in {"open", "closing", "closed"}
  /\ cpc \in {"none", "loop", "kill", "wait"}
  /\ bse \in {"none", "pushed", "handled"}
  /\ err \in {"0", "E2BIG", "EINVAL", "EBUSY"}

\* "Callers are not allowed to enqueue more than the specified blockif queue
\* limit": a device that keeps to blockif_queuesz never gets E2BIG, although
\* the element of a request it has got back is still on the busy queue when
\* its callback issues the next one (virtio-block asserts it).
WithinLimit == err # "E2BIG"

\* The elements of an outstanding request that will still call back.
Live(r) == {e \in Elems : /\ be_req[e] = r
                          /\ ~(e = cur /\ pc = "complete")}

\* Each outstanding request has exactly one element that will call back or be
\* cancelled, and a request the device owns has none: no callback is lost and
\* none comes twice, also when a request is issued again before its old
\* element is completed.
OneOutcome ==
  \A r \in Reqs : Cardinality(Live(r)) = IF dev[r] = "issued" THEN 1 ELSE 0

\* A blocked element waits for one that is still queued or in progress.
BlockedHasBlocker ==
  \A e \in PendSet : be_status[e] = "BLOCK" =>
    \E t \in (PendSet \cup busyq) \ {e} : be_block[t] = br_offset[be_req[e]]

\* The element a cancel watches is not completed and used for another
\* request under it.
CancelWatchesItsOwn ==
  cpc # "none" => /\ be_status[canc] \in {"BUSY", "DONE"}
                  /\ dev[be_req[canc]] = "issued"

\* "XXX Cancel queued i/o's ???": none is queued when the backend is closed,
\* every request the device issued has called back.
ClosedDrained ==
  file = "closed" => Issued = {} /\ FreeSet = Elems

\* All of the above: no request is lost or done twice on its way through the
\* backend, whatever is issued from callbacks, cancelled and closed meanwhile.
RequestsKept ==
  /\ WithinLimit /\ OneOutcome /\ BlockedHasBlocker
  /\ CancelWatchesItsOwn /\ ClosedDrained

-----------------------------------------------------------------------------
(* What makes RequestsKept inductive.                                      *)

\* An element whose request has not been given back yet.
LiveElem(e) == be_status[e] # "FREE" /\ ~(e = cur /\ pc = "complete")

\* The status of an element says which queue it is on, once.
Linked ==
  /\ \A e \in Elems :
       /\ be_status[e] = "FREE" <=> be_req[e] = NoElem
       /\ be_status[e] \in {"PEND", "BLOCK"} <=> e \in PendSet
       /\ be_status[e] \in {"BUSY", "DONE"} <=> e \in busyq
  /\ \A i, j \in DOMAIN pendq : pendq[i] = pendq[j] => i = j

\* The thread has one element at a time, the only one on the busy queue.
ThreadElem ==
  IF pc \in {"proc", "callback", "complete"}
  THEN cur \in Elems /\ busyq = {cur}
  ELSE cur = NoElem /\ busyq = {}

\* Live elements and outstanding requests correspond one to one.
Matched ==
  /\ \A e \in Elems : LiveElem(e) => dev[be_req[e]] = "issued"
  /\ \A e, f \in Elems : LiveElem(e) /\ LiveElem(f) /\ be_req[e] = be_req[f] => e = f
  /\ \A r \in Issued : \E e \in Elems : LiveElem(e) /\ be_req[e] = r

\* A blocked element waits for an earlier one: never for each other.
BlockedByEarlier ==
  \A i \in DOMAIN pendq : be_status[pendq[i]] = "BLOCK" =>
    \/ \E j \in DOMAIN pendq : /\ j < i
                               /\ be_block[pendq[j]] = br_offset[be_req[pendq[i]]]
    \/ \E t \in busyq : be_block[t] = br_offset[be_req[pendq[i]]]

\* A cancel waits for the element of the thread, whose callback has to wait
\* for it in turn.
CancelHoldsThread ==
  cpc # "none" => canc \in busyq /\ pc # "complete" /\ file = "open"

\* The thread leaves when it is told to and nothing is queued.
ExitDrained ==
  /\ pc = "exit" => file # "open" /\ pendq = <<>>
  /\ file = "closed" => pc = "exit"

BackendInv ==
  /\ TypeOK /\ Linked /\ ThreadElem /\ Matched /\ BlockedByEarlier
  /\ CancelHoldsThread /\ ExitDrained /\ WithinLimit

-----------------------------------------------------------------------------
\* Every request calls back or is cancelled.
Waits(r) == dev[r] = "issued"
RequestCompletes == \A r \in Reqs : Waits(r) ~> ~Waits(r)

\* A cancel returns, although it waits for a signal handler in another thread
\* with the locks held that the I/O thread needs.
CancelReturns == cpc # "none" ~> cpc = "none"
=============================================================================
