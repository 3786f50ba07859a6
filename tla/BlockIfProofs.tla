---------------------------- MODULE BlockIfProofs ----------------------------
(***************************************************************************)
(* Proofs about the disk backend, for every number of elements, every set  *)
(* of requests and every offset: each outstanding request has one element  *)
(* that will call back, the pool is never empty for a device that keeps to *)
(* the limit, blocked requests wait for earlier ones, a cancel watches its *)
(* own element, and nothing is outstanding when the backend is closed.     *)
(*                                                                         *)
(* First what unlinking does to the pending queue; then every step is      *)
(* shown to keep BackendInv.                                               *)
(***************************************************************************)
EXTENDS BlockIf, FiniteSetTheorems, SequenceTheorems, TLAPS

-----------------------------------------------------------------------------
(* The pending queue.                                                      *)

\* RemoveAt, entry by entry.
LEMMA RemoveAtIs ==
  ASSUME NEW S, NEW q \in Seq(S), NEW i \in 1 .. Len(q)
  PROVE  /\ RemoveAt(q, i) \in Seq(S)
         /\ Len(RemoveAt(q, i)) = Len(q) - 1
         /\ \A k \in 1 .. Len(q) - 1 : RemoveAt(q, i)[k] = IF k < i THEN q[k] ELSE q[k + 1]
<1> DEFINE a == SubSeq(q, 1, i - 1)
           b == SubSeq(q, i + 1, Len(q))
<1>1. /\ a \in Seq(S) /\ Len(a) = i - 1
      /\ \A k \in 1 .. i - 1 : a[k] = q[k]
  BY SubSeqProperties
<1>2. /\ b \in Seq(S) /\ Len(b) = Len(q) - i
      /\ \A k \in 1 .. Len(q) - i : b[k] = q[k + i]
  BY SubSeqProperties
<1>3. RemoveAt(q, i) = a \o b
  BY DEF RemoveAt
<1> HIDE DEF a, b
<1>4. /\ a \o b \in Seq(S) /\ Len(a \o b) = Len(q) - 1
      /\ \A k \in 1 .. Len(q) - 1 : (a \o b)[k] = IF k <= i - 1 THEN a[k] ELSE b[k - (i - 1)]
  <2>1. Len(a) + Len(b) = Len(q) - 1
    BY <1>1, <1>2
  <2>2. /\ a \o b \in Seq(S) /\ Len(a \o b) = Len(a) + Len(b)
        /\ \A k \in 1 .. Len(a) + Len(b) :
             (a \o b)[k] = IF k <= Len(a) THEN a[k] ELSE b[k - Len(a)]
    BY ONLY <1>1, <1>2, ConcatProperties
  <2> QED
    BY ONLY <1>1, <2>1, <2>2
<1>5. ASSUME NEW k \in 1 .. Len(q) - 1
      PROVE  (a \o b)[k] = IF k < i THEN q[k] ELSE q[k + 1]
  <2>1. CASE k < i
    BY <1>1, <1>4, <2>1
  <2>2. CASE ~(k < i)
    <3>1. k - (i - 1) \in 1 .. Len(q) - i /\ (k - (i - 1)) + i = k + 1
      BY <2>2
    <3>2. b[k - (i - 1)] = q[k + 1]
      BY <1>2, <3>1
    <3> QED
      BY <1>4, <2>2, <3>2
  <2> QED
    BY <2>1, <2>2
<1> QED
  BY <1>3, <1>4, <1>5

\* r is q without e: nothing twice, and what was before an entry still is.
Without(r, q, e) ==
  /\ r \in Seq(Elems)
  /\ {r[k] : k \in DOMAIN r} = {q[k] : k \in DOMAIN q} \ {e}
  /\ \A i, j \in DOMAIN r : r[i] = r[j] => i = j
  /\ \A k \in DOMAIN r : \E j \in DOMAIN q :
       /\ r[k] = q[j] /\ q[j] # e
       /\ \A h \in DOMAIN q : h < j /\ q[h] # e => \E g \in DOMAIN r : g < k /\ r[g] = q[h]

\* TAILQ_REMOVE on a queue without duplicates.
LEMMA RemoveKeeps ==
  ASSUME NEW q \in Seq(Elems), NEW i \in DOMAIN q,
         \A j, k \in DOMAIN q : q[j] = q[k] => j = k
  PROVE  Without(RemoveAt(q, i), q, q[i])
<1> DEFINE r == RemoveAt(q, i)
<1>1. i \in 1 .. Len(q) /\ Len(q) \in Nat /\ DOMAIN q = 1 .. Len(q)
  OBVIOUS
<1>2. /\ r \in Seq(Elems) /\ Len(r) = Len(q) - 1
      /\ \A k \in 1 .. Len(q) - 1 : r[k] = IF k < i THEN q[k] ELSE q[k + 1]
  <2>1. q \in Seq(Elems) /\ i \in 1 .. Len(q)
    BY <1>1
  <2> QED
    BY ONLY <2>1, RemoveAtIs
<1> HIDE DEF r
<1> DEFINE Up(k) == IF k < i THEN k ELSE k + 1
           Down(j) == IF j < i THEN j ELSE j - 1
<1>3. DOMAIN r = 1 .. Len(q) - 1
  BY <1>1, <1>2
<1>4. \A k \in 1 .. Len(q) - 1 : Up(k) \in 1 .. Len(q) /\ Up(k) # i /\ r[k] = q[Up(k)]
  BY <1>1, <1>2
<1>5. \A j \in 1 .. Len(q) : j # i =>
        Down(j) \in 1 .. Len(q) - 1 /\ Up(Down(j)) = j
  BY ONLY <1>1
<1>6. \A j \in 1 .. Len(q) : j # i => Down(j) \in 1 .. Len(q) - 1 /\ r[Down(j)] = q[j]
  <2> HIDE DEF Up, Down
  <2> QED
    BY <1>4, <1>5
<1>7. \A k, l \in 1 .. Len(q) - 1 : Up(k) = Up(l) => k = l
  BY ONLY <1>1
<1>8. \A k \in 1 .. Len(q) - 1 : \A h \in 1 .. Len(q) :
        h # i /\ h < Up(k) => Down(h) < k
  BY ONLY <1>1
<1> HIDE DEF Up, Down
<1>9. \A k \in 1 .. Len(q) : q[k] = q[i] <=> k = i
  BY <1>1
<1>10. {r[k] : k \in DOMAIN r} = {q[k] : k \in DOMAIN q} \ {q[i]}
  <2>1. ASSUME NEW k \in DOMAIN r
        PROVE  r[k] \in {q[j] : j \in DOMAIN q} \ {q[i]}
    BY <1>1, <1>3, <1>4, <1>9
  <2>2. ASSUME NEW j \in DOMAIN q, q[j] # q[i]
        PROVE  q[j] \in {r[k] : k \in DOMAIN r}
    BY <1>1, <1>3, <1>6, <2>2
  <2> QED
    BY <2>1, <2>2
<1>11. \A j, k \in DOMAIN r : r[j] = r[k] => j = k
  BY <1>1, <1>3, <1>4, <1>7
<1>12. ASSUME NEW k \in DOMAIN r
       PROVE  \E j \in DOMAIN q :
                /\ r[k] = q[j] /\ q[j] # q[i]
                /\ \A h \in DOMAIN q : h < j /\ q[h] # q[i] =>
                     \E g \in DOMAIN r : g < k /\ r[g] = q[h]
  <2>1. Up(k) \in DOMAIN q /\ r[k] = q[Up(k)] /\ q[Up(k)] # q[i]
    BY <1>1, <1>3, <1>4, <1>9
  <2>2. ASSUME NEW h \in DOMAIN q, h < Up(k), q[h] # q[i]
        PROVE  \E g \in DOMAIN r : g < k /\ r[g] = q[h]
    BY <1>1, <1>3, <1>6, <1>8, <1>9, <2>2
  <2> QED
    BY <2>1, <2>2
<1> QED
  BY <1>2, <1>10, <1>11, <1>12 DEF Without, r

-----------------------------------------------------------------------------
(* The steps.                                                              *)

\* The initial state.
LEMMA InitInv == Init => BackendInv
<1> SUFFICES ASSUME Init PROVE BackendInv
  OBVIOUS
<1> USE ElemsAssumption, ReqsAssumption, MaxOffsetAssumption
<1>1. TypeOK
  <2>1. 0 \in 0 .. MaxOffset /\ 0 \in Offsets \cup {OFF_MAX}
    BY DEF Offsets
  <2>2. pendq \in Seq(Elems)
    BY DEF Init
  <2>3. sig \in BOOLEAN /\ sigcont \in BOOLEAN
    BY DEF Init
  <2> QED
    BY <2>1, <2>2, <2>3 DEF Init, TypeOK
<1>2. PendSet = {} /\ DOMAIN pendq = {} /\ Issued = {}
  BY DEF Init, PendSet, Issued
<1>3. Linked
  BY <1>2 DEF Init, Linked
<1>4. Matched
  BY <1>2 DEF Init, Matched, LiveElem
<1> QED
  BY <1>1, <1>2, <1>3, <1>4
     DEF BackendInv, Init, ThreadElem, BlockedByEarlier, CancelHoldsThread,
         ExitDrained, WithinLimit

\* The queues are disjoint, and what is on one of them has a request.
LEMMA QueuedFacts ==
  ASSUME BackendInv
  PROVE  /\ \A e \in PendSet \cup busyq :
              e \in Elems /\ be_status[e] # "FREE" /\ be_req[e] \in Reqs
         /\ \A e \in PendSet : e \notin busyq /\ e # cur /\ LiveElem(e)
         /\ DOMAIN pendq = 1 .. Len(pendq) /\ Len(pendq) \in Nat
         /\ \A i \in DOMAIN pendq : pendq[i] \in PendSet
<1>1. PendSet \subseteq Elems /\ busyq \subseteq Elems
  BY DEF BackendInv, TypeOK, PendSet
<1>2. \A e \in PendSet \cup busyq : be_status[e] # "FREE" /\ be_req[e] \in Reqs
  BY <1>1 DEF BackendInv, Linked, TypeOK
<1>3. \A e \in PendSet : e \notin busyq /\ e # cur
  BY <1>1, ElemsAssumption DEF BackendInv, Linked, ThreadElem, TypeOK
<1>4. \A e \in PendSet : LiveElem(e)
  BY <1>2, <1>3 DEF LiveElem
<1>5. DOMAIN pendq = 1 .. Len(pendq) /\ Len(pendq) \in Nat
  BY DEF BackendInv, TypeOK
<1> QED
  BY <1>1, <1>2, <1>3, <1>4, <1>5 DEF PendSet

\* Steps that leave the elements and the requests alone.
LEMMA StillMatched ==
  ASSUME BackendInv,
         UNCHANGED <<be_status, be_req, be_block, pendq, busyq, br_offset, dev, cur>>,
         pc' = pc \/ (pc \in {"top", "wait"} /\ pc' \in {"top", "wait", "exit"})
  PROVE  Linked' /\ ThreadElem' /\ Matched' /\ BlockedByEarlier'
<1>1. PendSet' = PendSet /\ Issued' = Issued
  BY DEF PendSet, Issued
<1>2. Linked'
  BY <1>1 DEF BackendInv, Linked
<1>3. ThreadElem'
  BY DEF BackendInv, ThreadElem
<1>4. \A e \in Elems : LiveElem(e)' <=> LiveElem(e)
  BY ElemsAssumption DEF BackendInv, ThreadElem, LiveElem
<1>5. Matched'
  BY <1>1, <1>4 DEF BackendInv, Matched
<1>6. BlockedByEarlier'
  BY DEF BackendInv, BlockedByEarlier
<1> QED
  BY <1>2, <1>3, <1>5, <1>6

\* The steps of a cancel, of the signal handler and of a close, and the
\* wakeup of the thread.
LEMMA QuietInv ==
  ASSUME BackendInv,
         \/ CancelLoop \/ CancelKill \/ CancelWake \/ SigcontHandler \/ OtherCancel
         \/ CloseStart \/ CloseJoin \/ CondWake \/ UNCHANGED vars
  PROVE  BackendInv'
<1> USE DEF CancelLoop, CancelKill, CancelWake, SigcontHandler, OtherCancel,
            CloseStart, CloseJoin, CondWake, vars
<1>1. UNCHANGED <<be_status, be_req, be_block, pendq, busyq, br_offset, dev, cur>>
  OBVIOUS
<1>2. pc' = pc \/ (pc \in {"top", "wait"} /\ pc' \in {"top", "wait", "exit"})
  OBVIOUS
<1>3. Linked' /\ ThreadElem' /\ Matched' /\ BlockedByEarlier'
  BY <1>1, <1>2, StillMatched
<1>4. sig' \in BOOLEAN /\ sigcont' \in BOOLEAN
  BY DEF BackendInv, TypeOK
<1>5. /\ file' \in {"open", "closing", "closed"}
      /\ cpc' \in {"none", "loop", "kill", "wait"}
      /\ bse' \in {"none", "pushed", "handled"}
      /\ err' \in {"0", "E2BIG", "EINVAL", "EBUSY"}
      /\ pc' \in {"top", "wait", "proc", "callback", "complete", "exit"}
      /\ canc' \in Elems \cup {NoElem}
  BY DEF BackendInv, TypeOK
<1>6. TypeOK'
  BY <1>1, <1>4, <1>5 DEF BackendInv, TypeOK
<1>7. CancelHoldsThread'
  BY DEF BackendInv, CancelHoldsThread
<1>8. ExitDrained'
  BY DEF BackendInv, ExitDrained
<1>9. WithinLimit'
  BY DEF BackendInv, WithinLimit
<1> QED
  BY <1>3, <1>6, <1>7, <1>8, <1>9 DEF BackendInv

\* The end of the I/O.
LEMMA ProcInv ==
  ASSUME BackendInv, Proc
  PROVE  BackendInv'
<1>1. /\ UNCHANGED <<be_req, be_block, pendq, busyq, br_offset, dev, cur, sig, file,
                     cpc, canc, bse, sigcont, err>>
      /\ pc = "proc" /\ pc' = "callback" /\ cur \in Elems /\ busyq = {cur}
  BY DEF Proc, BackendInv, ThreadElem
<1>2. be_status' = [be_status EXCEPT ![cur] = "DONE"]
  BY DEF Proc
<1>3. be_status' \in [Elems -> {"FREE", "BLOCK", "PEND", "BUSY", "DONE"}]
  BY <1>1, <1>2 DEF BackendInv, TypeOK
<1>4. /\ be_status'[cur] = "DONE"
      /\ \A e \in Elems : e # cur => be_status'[e] = be_status[e]
  BY <1>1, <1>2 DEF BackendInv, TypeOK
<1>5. PendSet' = PendSet /\ Issued' = Issued
  BY <1>1 DEF PendSet, Issued
<1>6. cur \notin PendSet /\ be_status[cur] # "FREE"
  BY <1>1, QueuedFacts
<1>7. TypeOK'
  BY <1>1, <1>3 DEF BackendInv, TypeOK
<1>8. Linked'
  <2>1. \A e \in Elems :
          /\ be_status'[e] = "FREE" <=> be_req[e] = NoElem
          /\ be_status'[e] \in {"PEND", "BLOCK"} <=> e \in PendSet
          /\ be_status'[e] \in {"BUSY", "DONE"} <=> e \in busyq
    BY <1>1, <1>4, <1>6 DEF BackendInv, Linked
  <2> QED
    BY <1>1, <1>5, <2>1 DEF BackendInv, Linked
<1>9. \A e \in Elems : LiveElem(e)' <=> LiveElem(e)
  BY <1>1, <1>4, <1>6 DEF LiveElem
<1>10. Matched'
  BY <1>1, <1>5, <1>9 DEF BackendInv, Matched
<1>11. BlockedByEarlier'
  <2>1. \A i \in DOMAIN pendq : be_status'[pendq[i]] = be_status[pendq[i]]
    BY <1>4, <1>6, QueuedFacts
  <2> QED
    BY <1>1, <2>1 DEF BackendInv, BlockedByEarlier
<1> QED
  BY <1>1, <1>7, <1>8, <1>10, <1>11
     DEF BackendInv, ThreadElem, CancelHoldsThread, ExitDrained, WithinLimit

\* The callback gives the request of the thread's element back, and only that.
LEMMA CallbackInv ==
  ASSUME BackendInv, Callback
  PROVE  BackendInv'
<1>1. /\ UNCHANGED <<be_status, be_req, be_block, pendq, busyq, cur, sig, file, cpc,
                     canc, bse, sigcont, err>>
      /\ pc = "callback" /\ pc' = "complete" /\ cpc = "none"
      /\ cur \in Elems /\ busyq = {cur}
  BY DEF Callback, BackendInv, ThreadElem
<1> DEFINE r == be_req[cur]
<1>2. /\ dev' = [dev EXCEPT ![r] = "free"]
      /\ br_offset' = [br_offset EXCEPT ![r] = 0]
  BY DEF Callback
<1>3. r \in Reqs /\ be_status[cur] # "FREE" /\ LiveElem(cur)
  BY <1>1, QueuedFacts DEF LiveElem
<1> HIDE DEF r
<1>4. /\ dev' \in [Reqs -> {"free", "issued"}]
      /\ br_offset' \in [Reqs -> 0 .. MaxOffset]
      /\ dev'[r] = "free"
      /\ \A x \in Reqs : x # r => dev'[x] = dev[x] /\ br_offset'[x] = br_offset[x]
  BY <1>2, <1>3, MaxOffsetAssumption DEF BackendInv, TypeOK
<1>5. PendSet' = PendSet
  BY <1>1 DEF PendSet
<1>6. \A e \in Elems : LiveElem(e)' <=> LiveElem(e) /\ e # cur
  BY <1>1 DEF LiveElem
<1>7. \A e \in Elems : LiveElem(e) /\ e # cur => be_req[e] # r /\ be_req[e] \in Reqs
  BY <1>1, <1>3 DEF BackendInv, Matched, Linked, TypeOK, LiveElem, r
<1>8. TypeOK'
  BY <1>1, <1>4 DEF BackendInv, TypeOK
<1>9. Linked'
  BY <1>1, <1>5 DEF BackendInv, Linked
<1>10. Matched'
  <2>1. \A e \in Elems : LiveElem(e)' => dev'[be_req[e]] = "issued"
    BY <1>4, <1>6, <1>7 DEF BackendInv, Matched
  <2>2. \A x \in Issued' : x # r /\ x \in Issued
    BY <1>4 DEF Issued
  <2>3. \A x \in Issued' : \E e \in Elems : LiveElem(e)' /\ be_req[e] = x
    BY <1>6, <2>2 DEF BackendInv, Matched, r
  <2> QED
    BY <1>1, <1>6, <2>1, <2>3 DEF BackendInv, Matched
<1>11. BlockedByEarlier'
  <2>1. \A i \in DOMAIN pendq : br_offset'[be_req[pendq[i]]] = br_offset[be_req[pendq[i]]]
    BY <1>4, <1>7, QueuedFacts
  <2> QED
    BY <1>1, <2>1 DEF BackendInv, BlockedByEarlier
<1> QED
  BY <1>1, <1>8, <1>9, <1>10, <1>11
     DEF BackendInv, ThreadElem, CancelHoldsThread, ExitDrained, WithinLimit

\* blockif_dequeue takes the first element that may run.
LEMMA DequeueInv ==
  ASSUME BackendInv, pc = "top", cpc = "none",
         NEW i \in Runnable,
         pc' = "proc", cur' = pendq[i],
         be_status' = [be_status EXCEPT ![pendq[i]] = "BUSY"],
         pendq' = RemoveAt(pendq, i),
         busyq' = busyq \cup {pendq[i]},
         UNCHANGED <<be_req, be_block, br_offset, dev, sig, file, cpc, canc, bse,
                     sigcont, err>>
  PROVE  BackendInv'
<1> DEFINE e == pendq[i]
<1>1. /\ i \in DOMAIN pendq /\ be_status[e] = "PEND" /\ e \in PendSet /\ e \in Elems
      /\ cur = NoElem /\ busyq = {}
  BY QueuedFacts DEF Runnable, BackendInv, ThreadElem, TypeOK
<1>2. Without(pendq', pendq, e)
  BY <1>1, RemoveKeeps DEF BackendInv, TypeOK, Linked
<1>3. be_status' \in [Elems -> {"FREE", "BLOCK", "PEND", "BUSY", "DONE"}]
  BY <1>1 DEF BackendInv, TypeOK
<1>4. /\ be_status'[e] = "BUSY"
      /\ \A t \in Elems : t # e => be_status'[t] = be_status[t]
  BY <1>1 DEF BackendInv, TypeOK
<1>5. cur' = e /\ busyq' = {e}
  BY <1>1
<1> HIDE DEF e
<1>6. PendSet' = PendSet \ {e} /\ Issued' = Issued
  BY <1>2 DEF PendSet, Without, Issued
<1>7. TypeOK'
  <2>1. pendq' \in Seq(Elems) /\ busyq' \subseteq Elems /\ cur' \in Elems
    BY <1>1, <1>2, <1>5 DEF Without
  <2> QED
    BY <1>3, <2>1 DEF BackendInv, TypeOK
<1>8. Linked'
  <2>1. ASSUME NEW t \in Elems
        PROVE  /\ be_status'[t] = "FREE" <=> be_req[t] = NoElem
               /\ be_status'[t] \in {"PEND", "BLOCK"} <=> t \in PendSet'
               /\ be_status'[t] \in {"BUSY", "DONE"} <=> t \in busyq'
    <3>1. CASE t = e
      BY <1>1, <1>4, <1>5, <1>6, <3>1 DEF BackendInv, Linked
    <3>2. CASE t # e
      BY <1>1, <1>4, <1>5, <1>6, <3>2 DEF BackendInv, Linked
    <3> QED
      BY <3>1, <3>2
  <2>2. \A j, k \in DOMAIN pendq' : pendq'[j] = pendq'[k] => j = k
    BY <1>2 DEF Without
  <2> QED
    BY <2>1, <2>2 DEF Linked
<1>9. ThreadElem'
  BY <1>1, <1>5 DEF ThreadElem
<1>10. \A t \in Elems : LiveElem(t)' <=> LiveElem(t)
  BY <1>1, <1>4 DEF LiveElem
<1>11. Matched'
  BY <1>6, <1>10 DEF BackendInv, Matched
<1>12. BlockedByEarlier'
  <2> SUFFICES ASSUME NEW k \in DOMAIN pendq', be_status'[pendq'[k]] = "BLOCK"
               PROVE  LET at == br_offset[be_req[pendq'[k]]]
                      IN \/ \E j \in DOMAIN pendq' : j < k /\ be_block[pendq'[j]] = at
                         \/ \E t \in busyq' : be_block[t] = at
    BY DEF BlockedByEarlier
  <2>1. PICK j \in DOMAIN pendq :
          /\ pendq'[k] = pendq[j] /\ pendq[j] # e
          /\ \A h \in DOMAIN pendq : h < j /\ pendq[h] # e =>
               \E g \in DOMAIN pendq' : g < k /\ pendq'[g] = pendq[h]
    BY <1>2 DEF Without
  <2>2. pendq[j] \in Elems /\ be_status[pendq[j]] = "BLOCK"
    BY <1>4, <2>1, QueuedFacts
  <2>3. PICK h \in DOMAIN pendq : h < j /\ be_block[pendq[h]] = br_offset[be_req[pendq[j]]]
    BY <1>1, <2>2 DEF BackendInv, BlockedByEarlier
  <2>4. CASE pendq[h] = e
    BY <1>5, <2>1, <2>3, <2>4
  <2>5. CASE pendq[h] # e
    BY <2>1, <2>3, <2>5
  <2> QED
    BY <2>4, <2>5
<1> QED
  BY <1>7, <1>8, <1>9, <1>11, <1>12
     DEF BackendInv, CancelHoldsThread, ExitDrained, WithinLimit

\* Nothing may run.  When the backend is closing, nothing is queued either:
\* the first element would wait for an earlier one.
LEMMA IdleInv ==
  ASSUME BackendInv, pc = "top", cpc = "none", Runnable = {},
         pc' = IF file = "open" THEN "wait" ELSE "exit",
         UNCHANGED <<be_status, pendq, busyq, cur>>,
         UNCHANGED <<be_req, be_block, br_offset, dev, sig, file, cpc, canc, bse,
                     sigcont, err>>
  PROVE  BackendInv'
<1>1. Linked' /\ ThreadElem' /\ Matched' /\ BlockedByEarlier'
  BY StillMatched
<1>2. pendq = <<>>
  <2> SUFFICES ASSUME pendq # <<>> PROVE FALSE
    OBVIOUS
  <2>1. pendq \in Seq(Elems) /\ 1 \in DOMAIN pendq
    BY DEF BackendInv, TypeOK
  <2>2. be_status[pendq[1]] = "BLOCK"
    BY <2>1, QueuedFacts DEF BackendInv, Linked, Runnable
  <2>3. busyq = {}
    BY DEF BackendInv, ThreadElem
  <2>4. \E j \in DOMAIN pendq : j < 1
    BY <2>1, <2>2, <2>3 DEF BackendInv, BlockedByEarlier
  <2> QED
    BY <2>1, <2>4
<1>3. TypeOK'
  BY DEF BackendInv, TypeOK
<1>4. ExitDrained'
  BY <1>2 DEF BackendInv, ExitDrained
<1> QED
  BY <1>1, <1>3, <1>4 DEF BackendInv, CancelHoldsThread, WithinLimit

\* The loop of the thread.
LEMMA TopInv ==
  ASSUME BackendInv, Top
  PROVE  BackendInv'
<1>1. CASE Runnable = {}
  BY <1>1, IdleInv DEF Top
<1>2. CASE Runnable # {}
  BY <1>2, DequeueInv DEF Top
<1> QED
  BY <1>1, <1>2

\* blockif_complete of an element on either queue: it is free, and off its
\* queue; those that began where it ends may run, the others are as they were.
LEMMA CompleteEffect ==
  ASSUME BackendInv, NEW e \in PendSet \cup busyq, blockif_complete(e)
  PROVE  /\ Without(pendq', pendq, e)
         /\ PendSet' = PendSet \ {e} /\ busyq' = busyq \ {e}
         /\ be_status' \in [Elems -> {"FREE", "BLOCK", "PEND", "BUSY", "DONE"}]
         /\ be_req' \in [Elems -> Reqs \cup {NoElem}]
         /\ be_block' \in [Elems -> Offsets \cup {OFF_MAX}]
         /\ be_status'[e] = "FREE" /\ be_req'[e] = NoElem
         /\ \A t \in Elems : t # e =>
              /\ be_req'[t] = be_req[t] /\ be_block'[t] = be_block[t]
              /\ be_status'[t] = IF t \in PendSet /\ br_offset[be_req[t]] = be_block[e]
                                 THEN "PEND" ELSE be_status[t]
<1>1. e \in Elems
  BY QueuedFacts
<1>2. Without(pendq', pendq, e) /\ busyq' = busyq \ {e}
  <2>1. CASE e \in busyq
    <3>1. be_status[e] \in {"DONE", "BUSY"}
      BY <1>1, <2>1 DEF BackendInv, Linked
    <3>2. pendq' = pendq /\ busyq' = busyq \ {e}
      BY <3>1 DEF blockif_complete, Unlink
    <3>3. \A k \in DOMAIN pendq : pendq[k] # e
      BY <2>1, QueuedFacts
    <3> QED
      BY <3>2, <3>3 DEF Without, BackendInv, TypeOK, Linked
  <2>2. CASE e \notin busyq
    <3>1. be_status[e] \notin {"DONE", "BUSY"}
      BY <1>1, <2>2 DEF BackendInv, Linked
    <3> DEFINE i == CHOOSE i \in DOMAIN pendq : pendq[i] = e
    <3>2. pendq' = RemoveAt(pendq, i) /\ busyq' = busyq
      BY <3>1 DEF blockif_complete, Unlink
    <3>3. i \in DOMAIN pendq /\ pendq[i] = e
      BY <2>2 DEF PendSet
    <3> HIDE DEF i
    <3>4. Without(RemoveAt(pendq, i), pendq, pendq[i])
      BY <3>3, RemoveKeeps DEF BackendInv, TypeOK, Linked
    <3> QED
      BY <2>2, <3>2, <3>3, <3>4
  <2> QED
    BY <2>1, <2>2
<1>3. PendSet' = PendSet \ {e}
  BY <1>2 DEF PendSet, Without
<1>4. /\ be_status' = [t \in Elems |->
            IF t = e THEN "FREE"
            ELSE IF t \in PendSet /\ br_offset[be_req[t]] = be_block[e] THEN "PEND"
            ELSE be_status[t]]
      /\ be_req' = [be_req EXCEPT ![e] = NoElem]
      /\ be_block' = [be_block EXCEPT ![e] = 0]
  BY DEF blockif_complete
<1>5. 0 \in Offsets
  BY MaxOffsetAssumption DEF Offsets
<1>6. /\ be_status' \in [Elems -> {"FREE", "BLOCK", "PEND", "BUSY", "DONE"}]
      /\ be_req' \in [Elems -> Reqs \cup {NoElem}]
      /\ be_block' \in [Elems -> Offsets \cup {OFF_MAX}]
  BY <1>1, <1>4, <1>5 DEF BackendInv, TypeOK
<1>7. /\ be_status'[e] = "FREE" /\ be_req'[e] = NoElem
      /\ \A t \in Elems : t # e =>
           /\ be_req'[t] = be_req[t] /\ be_block'[t] = be_block[t]
           /\ be_status'[t] = IF t \in PendSet /\ br_offset[be_req[t]] = be_block[e]
                              THEN "PEND" ELSE be_status[t]
  BY <1>1, <1>4 DEF BackendInv, TypeOK
<1> QED
  BY <1>2, <1>3, <1>6, <1>7

\* Completing an element keeps the queues, and whoever still waits has
\* somebody to wait for, if the offsets of queued requests stay.
LEMMA CompleteKeeps ==
  ASSUME BackendInv, NEW e \in PendSet \cup busyq, blockif_complete(e),
         \A t \in PendSet : t # e => br_offset'[be_req[t]] = br_offset[be_req[t]]
  PROVE  Linked' /\ BlockedByEarlier'
<1>0. e \in Elems
  BY QueuedFacts
<1>1. /\ Without(pendq', pendq, e)
      /\ PendSet' = PendSet \ {e} /\ busyq' = busyq \ {e}
      /\ be_status'[e] = "FREE" /\ be_req'[e] = NoElem
  BY CompleteEffect
<1>2. \A t \in Elems : t # e =>
        /\ be_req'[t] = be_req[t] /\ be_block'[t] = be_block[t]
        /\ be_status'[t] = IF t \in PendSet /\ br_offset[be_req[t]] = be_block[e]
                           THEN "PEND" ELSE be_status[t]
  BY CompleteEffect
<1>3. Linked'
  <2>1. ASSUME NEW t \in Elems
        PROVE  /\ be_status'[t] = "FREE" <=> be_req'[t] = NoElem
               /\ be_status'[t] \in {"PEND", "BLOCK"} <=> t \in PendSet'
               /\ be_status'[t] \in {"BUSY", "DONE"} <=> t \in busyq'
    <3>1. CASE t = e
      BY <1>1, <3>1
    <3>2. CASE t # e
      BY <1>1, <1>2, <3>2 DEF BackendInv, Linked
    <3> QED
      BY <3>1, <3>2
  <2>2. \A j, k \in DOMAIN pendq' : pendq'[j] = pendq'[k] => j = k
    BY <1>1 DEF Without
  <2> QED
    BY <2>1, <2>2 DEF Linked
<1>4. BlockedByEarlier'
  <2> SUFFICES ASSUME NEW k \in DOMAIN pendq', be_status'[pendq'[k]] = "BLOCK"
               PROVE  LET at == br_offset'[be_req'[pendq'[k]]]
                      IN \/ \E j \in DOMAIN pendq' : j < k /\ be_block'[pendq'[j]] = at
                         \/ \E t \in busyq' : be_block'[t] = at
    BY DEF BlockedByEarlier
  <2>1. PICK j \in DOMAIN pendq :
          /\ pendq'[k] = pendq[j] /\ pendq[j] # e
          /\ \A h \in DOMAIN pendq : h < j /\ pendq[h] # e =>
               \E g \in DOMAIN pendq' : g < k /\ pendq'[g] = pendq[h]
    BY <1>1 DEF Without
  <2>2. pendq[j] \in Elems /\ pendq[j] \in PendSet
    BY QueuedFacts
  <2> DEFINE at == br_offset[be_req[pendq[j]]]
  <2>3. br_offset'[be_req'[pendq'[k]]] = at
    BY <1>2, <2>1, <2>2
  <2>4. be_status[pendq[j]] = "BLOCK" /\ at # be_block[e]
    BY <1>2, <2>1, <2>2
  <2>5. \/ \E h \in DOMAIN pendq : h < j /\ be_block[pendq[h]] = at
        \/ \E t \in busyq : be_block[t] = at
    BY <2>4 DEF BackendInv, BlockedByEarlier
  <2> HIDE DEF at
  <2>6. CASE \E h \in DOMAIN pendq : h < j /\ be_block[pendq[h]] = at
    <3>1. PICK h \in DOMAIN pendq : h < j /\ be_block[pendq[h]] = at
      BY <2>6
    <3>2. pendq[h] # e /\ pendq[h] \in Elems
      BY <2>4, <3>1, QueuedFacts
    <3>3. be_block'[pendq[h]] = at
      BY <1>2, <3>1, <3>2
    <3> QED
      BY <2>1, <2>3, <3>1, <3>2, <3>3
  <2>7. CASE \E t \in busyq : be_block[t] = at
    <3>1. PICK t \in busyq : be_block[t] = at
      BY <2>7
    <3>2. t # e /\ t \in Elems
      BY <2>4, <3>1, QueuedFacts
    <3> QED
      BY <1>1, <1>2, <2>3, <3>1, <3>2
  <2> QED
    BY <2>5, <2>6, <2>7
<1> QED
  BY <1>3, <1>4

\* The thread completes its element, whose request was given back before.
LEMMA CompleteInv ==
  ASSUME BackendInv, Complete
  PROVE  BackendInv'
<1>1. /\ UNCHANGED <<br_offset, dev, sig, file, cpc, canc, bse, sigcont, err>>
      /\ pc = "complete" /\ pc' = "top" /\ cur' = NoElem /\ cpc = "none"
      /\ cur \in Elems /\ busyq = {cur} /\ blockif_complete(cur)
  BY DEF Complete, BackendInv, ThreadElem
<1>2. cur \in PendSet \cup busyq
  BY <1>1
<1>3. Linked' /\ BlockedByEarlier'
  BY <1>1, <1>2, CompleteKeeps
<1>4. /\ Without(pendq', pendq, cur) /\ busyq' = {}
      /\ be_status' \in [Elems -> {"FREE", "BLOCK", "PEND", "BUSY", "DONE"}]
      /\ be_req' \in [Elems -> Reqs \cup {NoElem}]
      /\ be_block' \in [Elems -> Offsets \cup {OFF_MAX}]
      /\ be_status'[cur] = "FREE"
  BY <1>1, <1>2, CompleteEffect
<1>5. \A t \in Elems : t # cur =>
        /\ be_req'[t] = be_req[t]
        /\ be_status'[t] = be_status[t] \/ (be_status'[t] = "PEND" /\ t \in PendSet)
  BY <1>1, <1>2, CompleteEffect
<1>6. TypeOK'
  BY <1>1, <1>4 DEF BackendInv, TypeOK, Without
<1>7. \A t \in Elems : LiveElem(t)' <=> LiveElem(t)
  BY <1>1, <1>4, <1>5, QueuedFacts DEF LiveElem
<1>8. Matched'
  <2>1. \A t \in Elems : LiveElem(t) => t # cur
    BY <1>1 DEF LiveElem
  <2>2. Issued' = Issued
    BY <1>1 DEF Issued
  <2> QED
    BY <1>1, <1>5, <1>7, <2>1, <2>2 DEF BackendInv, Matched
<1> QED
  BY <1>1, <1>3, <1>4, <1>6, <1>8
     DEF BackendInv, ThreadElem, CancelHoldsThread, ExitDrained, WithinLimit

\* A cancel drops an element that has not started.
LEMMA CancelPendInv ==
  ASSUME BackendInv, NEW r \in Reqs, NEW e \in PendSet, be_req[e] = r,
         file = "open", cpc = "none",
         blockif_complete(e),
         dev' = [dev EXCEPT ![r] = "free"],
         br_offset' = [br_offset EXCEPT ![r] = 0],
         err' = "0",
         UNCHANGED <<cpc, canc, pc, cur, sig, file, bse, sigcont>>
  PROVE  BackendInv'
<1>1. e \in Elems /\ e \in PendSet \cup busyq /\ LiveElem(e) /\ e \notin busyq /\ e # cur
  BY QueuedFacts
<1>2. /\ Without(pendq', pendq, e) /\ busyq' = busyq
      /\ be_status' \in [Elems -> {"FREE", "BLOCK", "PEND", "BUSY", "DONE"}]
      /\ be_req' \in [Elems -> Reqs \cup {NoElem}]
      /\ be_block' \in [Elems -> Offsets \cup {OFF_MAX}]
      /\ be_status'[e] = "FREE"
  <2>1. busyq \ {e} = busyq
    BY <1>1
  <2> QED
    BY <1>1, <2>1, CompleteEffect
<1>3. \A t \in Elems : t # e =>
        /\ be_req'[t] = be_req[t]
        /\ be_status'[t] = be_status[t] \/ (be_status'[t] = "PEND" /\ t \in PendSet)
  BY <1>1, CompleteEffect
<1>4. /\ dev' \in [Reqs -> {"free", "issued"}]
      /\ br_offset' \in [Reqs -> 0 .. MaxOffset]
      /\ dev'[r] = "free"
      /\ \A x \in Reqs : x # r => dev'[x] = dev[x] /\ br_offset'[x] = br_offset[x]
  BY MaxOffsetAssumption DEF BackendInv, TypeOK
<1>5. \A t \in Elems : LiveElem(t)' <=> LiveElem(t) /\ t # e
  BY <1>2, <1>3, QueuedFacts DEF LiveElem
<1>6. \A t \in Elems : LiveElem(t) /\ t # e => be_req[t] # r /\ be_req[t] \in Reqs
  BY <1>1 DEF BackendInv, Matched, Linked, TypeOK, LiveElem
<1>7. Linked' /\ BlockedByEarlier'
  <2>1. \A t \in PendSet : t # e => br_offset'[be_req[t]] = br_offset[be_req[t]]
    BY <1>4, <1>6, QueuedFacts
  <2> QED
    BY <1>1, <2>1, CompleteKeeps
<1>8. TypeOK'
  BY <1>2, <1>4 DEF BackendInv, TypeOK, Without
<1>9. Matched'
  <2>1. \A t \in Elems : LiveElem(t)' => dev'[be_req'[t]] = "issued"
    BY <1>3, <1>4, <1>5, <1>6 DEF BackendInv, Matched
  <2>2. \A t, u \in Elems : LiveElem(t)' /\ LiveElem(u)' /\ be_req'[t] = be_req'[u] => t = u
    BY <1>3, <1>5 DEF BackendInv, Matched
  <2>3. \A x \in Issued' : x # r /\ x \in Issued
    BY <1>4 DEF Issued
  <2>4. \A x \in Issued' : \E t \in Elems : LiveElem(t)' /\ be_req'[t] = x
    BY <1>3, <1>5, <2>3 DEF BackendInv, Matched
  <2> QED
    BY <2>1, <2>2, <2>4 DEF Matched
<1>10. pc' # "exit"
  BY DEF BackendInv, ExitDrained
<1> QED
  BY <1>2, <1>7, <1>8, <1>9, <1>10
     DEF BackendInv, ThreadElem, CancelHoldsThread, ExitDrained, WithinLimit

\* blockif_cancel: when the request is not pending its element is the one the
\* thread works on, before its callback.
LEMMA CancelInv ==
  ASSUME BackendInv, NEW r \in Reqs, blockif_cancel(r)
  PROVE  BackendInv'
<1> DEFINE pend == {e \in PendSet : be_req[e] = r}
           busy == {e \in busyq : be_req[e] = r}
<1>1. /\ file = "open" /\ cpc = "none" /\ r \in Issued
      /\ UNCHANGED <<pc, cur, sig, file, bse, sigcont>>
  BY DEF blockif_cancel, Issued
<1>2. CASE pend # {}
  <2>1. /\ \E e \in pend : blockif_complete(e)
        /\ dev' = [dev EXCEPT ![r] = "free"]
        /\ br_offset' = [br_offset EXCEPT ![r] = 0]
        /\ err' = "0"
        /\ UNCHANGED <<cpc, canc>>
    BY <1>2 DEF blockif_cancel
  <2>2. PICK e \in PendSet : be_req[e] = r /\ blockif_complete(e)
    BY <2>1
  <2> QED
    BY <1>1, <2>1, <2>2, CancelPendInv
<1>3. CASE pend = {}
  <2>1. /\ UNCHANGED <<be_status, be_req, be_block, pendq, busyq, br_offset, dev>>
        /\ IF busy # {}
           THEN cpc' = "loop" /\ canc' \in busy /\ UNCHANGED err
           ELSE err' = "EINVAL" /\ UNCHANGED <<cpc, canc>>
    BY <1>3 DEF blockif_cancel
  <2>2. Linked' /\ ThreadElem' /\ Matched' /\ BlockedByEarlier'
    BY <1>1, <2>1, StillMatched
  <2>3. PICK e \in Elems : LiveElem(e) /\ be_req[e] = r
    BY <1>1 DEF BackendInv, Matched
  <2>4. e \in busyq
    BY <1>3, <2>3 DEF LiveElem, BackendInv, Linked, TypeOK
  <2>5. busyq = {cur} /\ e = cur /\ pc # "complete"
    BY <2>3, <2>4 DEF LiveElem, BackendInv, ThreadElem
  <2>6. cpc' = "loop" /\ canc' = cur /\ err' = err
    BY <2>1, <2>3, <2>4, <2>5
  <2>7. TypeOK'
    BY <1>1, <2>1, <2>5, <2>6 DEF BackendInv, TypeOK
  <2> QED
    BY <1>1, <2>1, <2>2, <2>5, <2>6, <2>7
       DEF BackendInv, CancelHoldsThread, ExitDrained, WithinLimit
<1> QED
  BY <1>2, <1>3

\* The pool holds one element more than a device may have outstanding, which
\* is enough: of the elements in use all but the one being completed belong
\* to different outstanding requests.
LEMMA PoolSuffices ==
  ASSUME BackendInv, Cardinality(Issued) < blockif_queuesz
  PROVE  FreeSet # {}
<1> SUFFICES ASSUME FreeSet = {} PROVE FALSE
  OBVIOUS
<1> DEFINE L == Elems \ {cur}
           f == [e \in L |-> be_req[e]]
<1>1. \A e \in L : LiveElem(e)
  BY DEF FreeSet, LiveElem
<1>2. \A e \in L : be_req[e] \in Issued
  BY <1>1 DEF BackendInv, Matched, Linked, TypeOK, LiveElem, Issued
<1>3. f \in Injection(L, Issued)
  <2>1. f \in [L -> Issued]
    BY <1>2
  <2>2. \A a, b \in L : f[a] = f[b] => a = b
    BY <1>1 DEF BackendInv, Matched
  <2> HIDE DEF f, L
  <2> QED
    BY <2>1, <2>2 DEF Injection, IsInjective
<1>4. IsFiniteSet(Issued) /\ Cardinality(Issued) \in Nat
  BY ReqsAssumption, FS_Subset, FS_CardinalityType DEF Issued
<1>5. Cardinality(L) <= Cardinality(Issued)
  <2> HIDE DEF f, L
  <2> QED
    BY <1>3, <1>4, FS_Injection
<1>6. Cardinality(L) >= Cardinality(Elems) - 1 /\ Cardinality(L) \in Nat
      /\ Cardinality(Elems) \in Nat
  <2>1. IsFiniteSet(Elems)
    BY ElemsAssumption
  <2>2. /\ IsFiniteSet(L)
        /\ Cardinality(L) = IF cur \in Elems THEN Cardinality(Elems) - 1
                            ELSE Cardinality(Elems)
    BY ONLY <2>1, FS_RemoveElement
  <2>3. Cardinality(L) \in Nat /\ Cardinality(Elems) \in Nat
    BY ONLY <2>1, <2>2, FS_CardinalityType
  <2> QED
    BY ONLY <2>2, <2>3
<1> HIDE DEF L, f
<1>7. Cardinality(Issued) < Cardinality(Elems) - 1
  BY DEF blockif_queuesz, BLOCKIF_MAXREQ
<1> QED
  BY ONLY <1>4, <1>5, <1>6, <1>7

\* A new request takes a free element to the end of the pending queue.
LEMMA IssueInv ==
  ASSUME BackendInv, NEW r \in Reqs, Issue(r)
  PROVE  BackendInv'
<1>1. /\ file = "open" /\ cpc = "none" /\ dev[r] = "free"
      /\ UNCHANGED <<busyq, pc, cur, file, cpc, canc, bse, sigcont>>
      /\ FreeSet # {}
  BY PoolSuffices DEF Issue
<1>2. PICK at \in 0 .. MaxOffset : \E end \in {at, at + 1, OFF_MAX} :
        /\ br_offset' = [br_offset EXCEPT ![r] = at]
        /\ blockif_enqueue(r, at, end)
        /\ dev' = [dev EXCEPT ![r] = "issued"]
        /\ err' = "0"
  BY <1>1 DEF Issue
<1>3. PICK end \in {at, at + 1, OFF_MAX} :
        /\ br_offset' = [br_offset EXCEPT ![r] = at]
        /\ blockif_enqueue(r, at, end)
        /\ dev' = [dev EXCEPT ![r] = "issued"]
        /\ err' = "0"
  BY <1>2
<1> DEFINE e == CHOOSE e \in FreeSet : TRUE
<1>4. e \in Elems /\ be_status[e] = "FREE"
  BY <1>1 DEF FreeSet
<1>5. /\ be_req' = [be_req EXCEPT ![e] = r]
      /\ be_block' = [be_block EXCEPT ![e] = end]
      /\ be_status' = [be_status EXCEPT ![e] = IF Blockers(at) = {} THEN "PEND" ELSE "BLOCK"]
      /\ pendq' = Append(pendq, e)
      /\ sig' = (sig \/ (Blockers(at) = {} /\ pc = "wait"))
  BY <1>3 DEF blockif_enqueue
<1> HIDE DEF e
<1>6. end \in Offsets \cup {OFF_MAX}
  BY MaxOffsetAssumption DEF Offsets
<1>7. /\ br_offset' \in [Reqs -> 0 .. MaxOffset] /\ dev' \in [Reqs -> {"free", "issued"}]
      /\ br_offset'[r] = at /\ dev'[r] = "issued"
      /\ \A x \in Reqs : x # r => br_offset'[x] = br_offset[x] /\ dev'[x] = dev[x]
  BY <1>3 DEF BackendInv, TypeOK
<1>8. /\ be_req' \in [Elems -> Reqs \cup {NoElem}]
      /\ be_block' \in [Elems -> Offsets \cup {OFF_MAX}]
      /\ be_status' \in [Elems -> {"FREE", "BLOCK", "PEND", "BUSY", "DONE"}]
  BY <1>4, <1>5, <1>6 DEF BackendInv, TypeOK
<1>9. /\ be_req'[e] = r /\ be_block'[e] = end
      /\ be_status'[e] = IF Blockers(at) = {} THEN "PEND" ELSE "BLOCK"
      /\ \A t \in Elems : t # e => /\ be_req'[t] = be_req[t] /\ be_block'[t] = be_block[t]
                                   /\ be_status'[t] = be_status[t]
  BY <1>4, <1>5 DEF BackendInv, TypeOK
<1>10. /\ pendq \in Seq(Elems) /\ pendq' \in Seq(Elems)
       /\ Len(pendq') = Len(pendq) + 1 /\ Len(pendq) \in Nat
       /\ DOMAIN pendq = 1 .. Len(pendq) /\ DOMAIN pendq' = 1 .. Len(pendq) + 1
       /\ \A k \in 1 .. Len(pendq) : pendq'[k] = pendq[k]
       /\ pendq'[Len(pendq) + 1] = e
  <2>1. pendq \in Seq(Elems)
    BY DEF BackendInv, TypeOK
  <2> QED
    BY <1>4, <1>5, <2>1, AppendProperties
<1>11. PendSet' = PendSet \cup {e}
  BY <1>10 DEF PendSet
<1>12. e \notin PendSet \cup busyq /\ e # cur
  BY <1>4, QueuedFacts, ElemsAssumption DEF BackendInv, ThreadElem
<1>13. sig' \in BOOLEAN
  BY <1>5, Zenon DEF BackendInv, TypeOK
<1>14. TypeOK'
  BY <1>1, <1>3, <1>7, <1>8, <1>10, <1>13 DEF BackendInv, TypeOK
<1>15. Linked'
  <2>1. ASSUME NEW t \in Elems
        PROVE  /\ be_status'[t] = "FREE" <=> be_req'[t] = NoElem
               /\ be_status'[t] \in {"PEND", "BLOCK"} <=> t \in PendSet'
               /\ be_status'[t] \in {"BUSY", "DONE"} <=> t \in busyq'
    <3>1. CASE t = e
      BY <1>1, <1>9, <1>11, <1>12, <3>1, ReqsAssumption
    <3>2. CASE t # e
      BY <1>1, <1>9, <1>11, <3>2 DEF BackendInv, Linked
    <3> QED
      BY <3>1, <3>2
  <2>2. ASSUME NEW j \in DOMAIN pendq', NEW k \in DOMAIN pendq', pendq'[j] = pendq'[k]
        PROVE  j = k
    <3>1. \A h \in 1 .. Len(pendq) : pendq'[h] # e
      BY <1>10, <1>12 DEF PendSet
    <3>2. CASE j \in 1 .. Len(pendq) /\ k \in 1 .. Len(pendq)
      BY <1>10, <2>2, <3>2 DEF BackendInv, Linked
    <3>3. CASE ~(j \in 1 .. Len(pendq) /\ k \in 1 .. Len(pendq))
      BY <1>10, <2>2, <3>1, <3>3
    <3> QED
      BY <3>2, <3>3
  <2> QED
    BY <2>1, <2>2 DEF Linked
<1>16. \A t \in Elems : LiveElem(t)' <=> LiveElem(t) \/ t = e
  BY <1>1, <1>4, <1>9, <1>12 DEF LiveElem
<1>17. \A t \in Elems : LiveElem(t) => t # e /\ be_req[t] # r /\ be_req[t] \in Reqs
  BY <1>1, <1>4 DEF BackendInv, Matched, Linked, TypeOK, LiveElem
<1>18. Matched'
  <2>1. \A t \in Elems : LiveElem(t)' => dev'[be_req'[t]] = "issued"
    BY <1>7, <1>9, <1>16, <1>17 DEF BackendInv, Matched
  <2>2. \A t, u \in Elems : LiveElem(t)' /\ LiveElem(u)' /\ be_req'[t] = be_req'[u] => t = u
    BY <1>9, <1>16, <1>17 DEF BackendInv, Matched
  <2>3. \A x \in Issued' : x = r \/ x \in Issued
    BY <1>7 DEF Issued
  <2>4. \A x \in Issued' : \E t \in Elems : LiveElem(t)' /\ be_req'[t] = x
    <3>1. \A x \in Issued : \E t \in Elems : LiveElem(t) /\ be_req[t] = x
      BY DEF BackendInv, Matched
    <3>2. \A x \in Issued : \E t \in Elems : LiveElem(t)' /\ be_req'[t] = x
      BY <1>9, <1>16, <1>17, <3>1
    <3> QED
      BY <1>4, <1>9, <1>16, <2>3, <3>2
  <2> QED
    BY <2>1, <2>2, <2>4 DEF Matched
<1>19. BlockedByEarlier'
  <2> SUFFICES ASSUME NEW k \in DOMAIN pendq', be_status'[pendq'[k]] = "BLOCK"
               PROVE  LET to == br_offset'[be_req'[pendq'[k]]]
                      IN \/ \E j \in DOMAIN pendq' : j < k /\ be_block'[pendq'[j]] = to
                         \/ \E t \in busyq' : be_block'[t] = to
    BY DEF BlockedByEarlier
  <2>1. \A t \in PendSet \cup busyq : be_block'[t] = be_block[t]
    BY <1>9, <1>12, QueuedFacts
  <2>2. \A j \in 1 .. Len(pendq) : pendq'[j] = pendq[j] /\ be_block'[pendq'[j]] = be_block[pendq[j]]
    BY <1>10, <2>1, QueuedFacts
  <2>3. CASE k = Len(pendq) + 1
    <3>1. br_offset'[be_req'[pendq'[k]]] = at /\ Blockers(at) # {}
      BY <1>7, <1>9, <1>10, <2>3
    <3>2. PICK t \in PendSet \cup busyq : be_block[t] = at
      BY <3>1 DEF Blockers
    <3>3. CASE t \in busyq
      BY <1>1, <2>1, <3>1, <3>2, <3>3
    <3>4. CASE t \in PendSet
      <4>1. PICK j \in DOMAIN pendq : pendq[j] = t
        BY <3>4 DEF PendSet
      <4>2. j \in DOMAIN pendq' /\ j < k
        BY <1>10, <2>3
      <4> QED
        BY <1>10, <2>2, <3>1, <3>2, <4>1, <4>2
    <3> QED
      BY <3>3, <3>4
  <2>4. CASE k # Len(pendq) + 1
    <3>1. k \in 1 .. Len(pendq) /\ k \in DOMAIN pendq
      BY <1>10, <2>4
    <3>2. pendq[k] \in Elems /\ pendq[k] # e /\ LiveElem(pendq[k])
      BY <1>12, <3>1, QueuedFacts
    <3>3. be_status[pendq[k]] = "BLOCK" /\ be_req'[pendq'[k]] = be_req[pendq[k]]
      BY <1>9, <2>2, <3>1, <3>2
    <3>4. br_offset'[be_req'[pendq'[k]]] = br_offset[be_req[pendq[k]]]
      BY <1>7, <1>17, <3>2, <3>3
    <3>5. \/ \E j \in DOMAIN pendq : j < k /\ be_block[pendq[j]] = br_offset[be_req[pendq[k]]]
          \/ \E t \in busyq : be_block[t] = br_offset[be_req[pendq[k]]]
      BY <3>1, <3>3 DEF BackendInv, BlockedByEarlier
    <3>6. DOMAIN pendq \subseteq DOMAIN pendq'
      BY <1>10
    <3> QED
      BY <1>1, <1>10, <2>1, <2>2, <3>4, <3>5, <3>6
  <2> QED
    BY <2>3, <2>4
<1>20. pc' # "exit"
  BY <1>1 DEF BackendInv, ExitDrained
<1> QED
  BY <1>1, <1>3, <1>14, <1>15, <1>18, <1>19, <1>20
     DEF BackendInv, ThreadElem, CancelHoldsThread, ExitDrained, WithinLimit

\* Every step keeps the invariant.
LEMMA NextInv == BackendInv /\ [Next]_vars => BackendInv'
<1> SUFFICES ASSUME BackendInv, [Next]_vars PROVE BackendInv'
  OBVIOUS
<1>1. ASSUME NEW r \in Reqs, Issue(r) \/ blockif_cancel(r) PROVE BackendInv'
  BY <1>1, IssueInv, CancelInv
<1>2. CASE CancelStep \/ SigcontHandler \/ OtherCancel \/ CloseStart \/ CloseJoin
  BY <1>2, QuietInv DEF CancelStep
<1>3. CASE ThreadStep
  BY <1>3, TopInv, QuietInv, ProcInv, CallbackInv, CompleteInv DEF ThreadStep
<1>4. CASE UNCHANGED vars
  BY <1>4, QuietInv
<1> QED
  BY <1>1, <1>2, <1>3, <1>4 DEF Next

-----------------------------------------------------------------------------
(* What the invariant says.                                                *)

\* The live elements of a request, counted.
LEMMA OutcomesCounted == BackendInv => OneOutcome
<1> SUFFICES ASSUME BackendInv, NEW r \in Reqs
             PROVE  Cardinality(Live(r)) = IF dev[r] = "issued" THEN 1 ELSE 0
  BY DEF OneOutcome
<1>1. Live(r) = {e \in Elems : be_req[e] = r /\ LiveElem(e)}
  BY ReqsAssumption DEF Live, LiveElem, BackendInv, Linked
<1>2. CASE dev[r] = "issued"
  <2>1. PICK e \in Elems : LiveElem(e) /\ be_req[e] = r
    BY <1>2 DEF BackendInv, Matched, Issued
  <2>2. Live(r) = {e}
    BY <1>1, <2>1 DEF BackendInv, Matched
  <2> QED
    BY <1>2, <2>2, FS_Singleton
<1>3. CASE dev[r] # "issued"
  <2>1. Live(r) = {}
    BY <1>1, <1>3 DEF BackendInv, Matched
  <2> QED
    BY <1>3, <2>1, FS_EmptySet
<1> QED
  BY <1>2, <1>3

\* The invariant of the backend.
LEMMA Invariance == Spec => []BackendInv
BY InitInv, NextInv, PTL DEF Spec

\* The backend is type correct: both queues link elements only, and requests
\* begin and end within the offsets the device may use.
THEOREM TypeCorrect == Spec => []TypeOK
<1>1. BackendInv => TypeOK
  BY DEF BackendInv
<1> QED
  BY <1>1, Invariance, PTL

\* No request is lost or done twice on its way through the backend, whatever
\* is issued from callbacks, cancelled and closed meanwhile.
THEOREM RequestsAreKept == Spec => []RequestsKept
<1>1. ASSUME BackendInv PROVE RequestsKept
  <2>1. OneOutcome
    BY <1>1, OutcomesCounted
  <2>2. BlockedHasBlocker
    <3> SUFFICES ASSUME NEW e \in PendSet, be_status[e] = "BLOCK"
                 PROVE  \E t \in (PendSet \cup busyq) \ {e} : be_block[t] = br_offset[be_req[e]]
      BY DEF BlockedHasBlocker
    <3>1. PICK i \in DOMAIN pendq : pendq[i] = e
      BY DEF PendSet
    <3>2. CASE \E t \in busyq : be_block[t] = br_offset[be_req[e]]
      BY <1>1, <3>2, QueuedFacts
    <3>3. CASE \E j \in DOMAIN pendq : j < i /\ be_block[pendq[j]] = br_offset[be_req[e]]
      <4>1. PICK j \in DOMAIN pendq : j < i /\ be_block[pendq[j]] = br_offset[be_req[e]]
        BY <3>3
      <4>2. i \in Nat /\ j \in Nat
        BY <1>1, <4>1, QueuedFacts
      <4>3. pendq[j] # e /\ pendq[j] \in PendSet
        BY <1>1, <3>1, <4>1, <4>2, QueuedFacts DEF BackendInv, Linked
      <4> QED
        BY <4>1, <4>3
    <3> QED
      BY <1>1, <3>1, <3>2, <3>3 DEF BackendInv, BlockedByEarlier
  <2>3. CancelWatchesItsOwn
    <3> SUFFICES ASSUME cpc # "none"
                 PROVE  be_status[canc] \in {"BUSY", "DONE"} /\ dev[be_req[canc]] = "issued"
      BY DEF CancelWatchesItsOwn
    <3>1. canc \in busyq /\ pc # "complete" /\ canc \in Elems
      BY <1>1 DEF BackendInv, CancelHoldsThread, TypeOK
    <3>2. be_status[canc] \in {"BUSY", "DONE"}
      BY <1>1, <3>1 DEF BackendInv, Linked
    <3>3. LiveElem(canc)
      BY <3>1, <3>2 DEF LiveElem
    <3> QED
      BY <1>1, <3>1, <3>2, <3>3 DEF BackendInv, Matched
  <2>4. ClosedDrained
    <3> SUFFICES ASSUME file = "closed" PROVE Issued = {} /\ FreeSet = Elems
      BY DEF ClosedDrained
    <3>1. pc = "exit" /\ pendq = <<>> /\ busyq = {}
      BY <1>1 DEF BackendInv, ExitDrained, ThreadElem
    <3>2. PendSet = {}
      BY <3>1 DEF PendSet
    <3>3. \A e \in Elems : be_status[e] = "FREE"
      BY <1>1, <3>1, <3>2 DEF BackendInv, Linked, TypeOK
    <3> QED
      BY <1>1, <3>3 DEF FreeSet, LiveElem, BackendInv, Matched
  <2> QED
    BY <1>1, <2>1, <2>2, <2>3, <2>4 DEF RequestsKept, BackendInv
<1> QED
  BY <1>1, Invariance, PTL
=============================================================================
