---------------------------- MODULE CalloutProofs ----------------------------
(***************************************************************************)
(* Proofs about the callout service, for every set of callouts, timeouts   *)
(* and delays: its queue stays sorted and without duplicates, its thread   *)
(* never meets the state it aborts on, a stopped callout does not fire and *)
(* a pending one is in the queue while the thread does not sleep beside it.*)
(*                                                                         *)
(* First the two operations on the queue are described entry by entry;     *)
(* then every step is shown to keep CalloutInv.                            *)
(***************************************************************************)
EXTENDS Callout, SequenceTheorems, WellFoundedInduction, TLAPS

-----------------------------------------------------------------------------
(* The queue.                                                              *)

\* A queue as QueueSorted wants it, for the timeouts t.
Sorted(q, t) ==
  \A i, j \in DOMAIN q : i < j => q[i] # q[j] /\ t[q[i]] <= t[q[j]]

In(q, c) == \E i \in DOMAIN q : q[i] = c

\* RemoveAt, entry by entry.
LEMMA RemoveAtIs ==
  ASSUME NEW S, NEW q \in Seq(S), NEW i \in 1 .. Len(q)
  PROVE  /\ RemoveAt(q, i) \in Seq(S)
         /\ Len(RemoveAt(q, i)) = Len(q) - 1
         /\ \A k \in 1 .. Len(q) - 1 : RemoveAt(q, i)[k] = IF k < i THEN q[k] ELSE q[k + 1]
<1> DEFINE a == SubSeq(q, 1, i - 1)
           b == SubSeq(q, i + 1, Len(q))
<1>1. /\ a \in Seq(S) /\ Len(a) = i - 1
      /\ \A k \in 1 .. i - 1 : a[k] = q[k]
  BY SubSeqProperties
<1>2. /\ b \in Seq(S) /\ Len(b) = Len(q) - i
      /\ \A k \in 1 .. Len(q) - i : b[k] = q[k + i]
  BY SubSeqProperties
<1>3. RemoveAt(q, i) = a \o b
  BY DEF RemoveAt
<1> HIDE DEF a, b
<1>4. /\ a \o b \in Seq(S) /\ Len(a \o b) = Len(q) - 1
      /\ \A k \in 1 .. Len(q) - 1 : (a \o b)[k] = IF k <= i - 1 THEN a[k] ELSE b[k - (i - 1)]
  <2>1. Len(a) + Len(b) = Len(q) - 1
    BY <1>1, <1>2
  <2>2. /\ a \o b \in Seq(S) /\ Len(a \o b) = Len(a) + Len(b)
        /\ \A k \in 1 .. Len(a) + Len(b) :
             (a \o b)[k] = IF k <= Len(a) THEN a[k] ELSE b[k - Len(a)]
    BY ONLY <1>1, <1>2, ConcatProperties
  <2> QED
    BY ONLY <1>1, <2>1, <2>2
<1>5. ASSUME NEW k \in 1 .. Len(q) - 1
      PROVE  (a \o b)[k] = IF k < i THEN q[k] ELSE q[k + 1]
  <2>1. CASE k < i
    BY <1>1, <1>4, <2>1
  <2>2. CASE ~(k < i)
    <3>1. k - (i - 1) \in 1 .. Len(q) - i /\ (k - (i - 1)) + i = k + 1
      BY <2>2
    <3>2. b[k - (i - 1)] = q[k + 1]
      BY <1>2, <3>1
    <3> QED
      BY <1>4, <2>2, <3>2
  <2> QED
    BY <2>1, <2>2
<1> QED
  BY <1>3, <1>4, <1>5

\* InsertAt, entry by entry.
LEMMA InsertAtIs ==
  ASSUME NEW S, NEW q \in Seq(S), NEW i \in 1 .. Len(q) + 1, NEW c \in S
  PROVE  /\ InsertAt(q, i, c) \in Seq(S)
         /\ Len(InsertAt(q, i, c)) = Len(q) + 1
         /\ \A k \in 1 .. Len(q) + 1 :
              InsertAt(q, i, c)[k] = IF k < i THEN q[k] ELSE IF k = i THEN c ELSE q[k - 1]
<1> DEFINE a == SubSeq(q, 1, i - 1)
           b == SubSeq(q, i, Len(q))
           ac == a \o <<c>>
<1>1. /\ a \in Seq(S) /\ Len(a) = i - 1
      /\ \A k \in 1 .. i - 1 : a[k] = q[k]
  BY SubSeqProperties
<1>2. /\ b \in Seq(S) /\ Len(b) = Len(q) + 1 - i
      /\ \A k \in 1 .. Len(q) + 1 - i : b[k] = q[k + i - 1]
  BY SubSeqProperties
<1>3. InsertAt(q, i, c) = ac \o b
  BY DEF InsertAt
<1>4. /\ ac \in Seq(S) /\ Len(ac) = i
      /\ \A k \in 1 .. i : ac[k] = IF k < i THEN q[k] ELSE c
  <2>1. <<c>> \in Seq(S) /\ Len(<<c>>) = 1 /\ <<c>>[1] = c
    OBVIOUS
  <2> HIDE DEF a
  <2>2. /\ ac \in Seq(S) /\ Len(ac) = i
        /\ \A k \in 1 .. i : ac[k] = IF k <= i - 1 THEN a[k] ELSE <<c>>[k - (i - 1)]
    BY <1>1, <2>1, ConcatProperties
  <2> QED
    BY <1>1, <2>1, <2>2
<1> HIDE DEF ac, b
<1>5. /\ ac \o b \in Seq(S) /\ Len(ac \o b) = Len(q) + 1
      /\ \A k \in 1 .. Len(q) + 1 : (ac \o b)[k] = IF k <= i THEN ac[k] ELSE b[k - i]
  BY <1>2, <1>4, ConcatProperties
<1>6. ASSUME NEW k \in 1 .. Len(q) + 1
      PROVE  (ac \o b)[k] = IF k < i THEN q[k] ELSE IF k = i THEN c ELSE q[k - 1]
  <2>1. CASE k <= i
    BY <1>4, <1>5, <2>1
  <2>2. CASE ~(k <= i)
    <3>1. k - i \in 1 .. Len(q) + 1 - i /\ (k - i) + i - 1 = k - 1
      BY <2>2
    <3>2. b[k - i] = q[k - 1]
      BY <1>2, <3>1
    <3> QED
      BY <1>5, <2>2, <3>2
  <2> QED
    BY <2>1, <2>2
<1> QED
  BY <1>3, <1>5, <1>6

\* Removing a callout from a sorted queue leaves the others, in their order.
LEMMA RemoveKeeps ==
  ASSUME NEW q \in Seq(Callouts), NEW t \in [Callouts -> Int], Sorted(q, t), NEW c
  PROVE  /\ callout_remove(q, c) \in Seq(Callouts)
         /\ Sorted(callout_remove(q, c), t)
         /\ ~In(callout_remove(q, c), c)
         /\ \A d \in Callouts : d # c => (In(callout_remove(q, c), d) <=> In(q, d))
<1>1. CASE ~In(q, c)
  BY <1>1 DEF callout_remove, In
<1>2. CASE In(q, c)
  <2> DEFINE i == CHOOSE j \in DOMAIN q : q[j] = c
             r == RemoveAt(q, i)
  <2>1. i \in 1 .. Len(q) /\ q[i] = c
    BY <1>2 DEF In
  <2>2. callout_remove(q, c) = r
    BY <1>2 DEF callout_remove, In
  <2> HIDE DEF i
  <2>3. /\ r \in Seq(Callouts) /\ Len(r) = Len(q) - 1
        /\ \A k \in 1 .. Len(q) - 1 : r[k] = IF k < i THEN q[k] ELSE q[k + 1]
    BY <2>1, RemoveAtIs
  <2> HIDE DEF r
  <2>4. DOMAIN r = 1 .. Len(q) - 1 /\ DOMAIN q = 1 .. Len(q) /\ Len(q) \in Nat
    BY <2>3
  <2>5. \A j, k \in 1 .. Len(q) : j < k => q[j] # q[k] /\ t[q[j]] <= t[q[k]]
    BY <2>4 DEF Sorted
  <2>6. \A k \in 1 .. Len(q) - 1 : \E j \in 1 .. Len(q) \ {i} :
          r[k] = q[j] /\ j = IF k < i THEN k ELSE k + 1
    BY SMTT(60), <2>1, <2>3, <2>4
  <2>7. Sorted(r, t)
    <3> SUFFICES ASSUME NEW j \in 1 .. Len(q) - 1, NEW k \in 1 .. Len(q) - 1, j < k
                 PROVE  r[j] # r[k] /\ t[r[j]] <= t[r[k]]
      BY <2>4 DEF Sorted
    <3>1. PICK m \in 1 .. Len(q), n \in 1 .. Len(q) : m < n /\ r[j] = q[m] /\ r[k] = q[n]
      <4> DEFINE m == IF j < i THEN j ELSE j + 1
                 n == IF k < i THEN k ELSE k + 1
      <4>1. m \in 1 .. Len(q) /\ n \in 1 .. Len(q) /\ m < n
        BY <2>1, <2>4
      <4>2. r[j] = q[m] /\ r[k] = q[n]
        BY <2>3
      <4> HIDE DEF m, n
      <4> QED
        BY <4>1, <4>2
    <3> QED
      BY <2>5, <3>1
  <2>8. ~In(r, c)
    <3> SUFFICES ASSUME NEW k \in 1 .. Len(q) - 1, r[k] = c PROVE FALSE
      BY <2>4 DEF In
    <3>1. PICK j \in 1 .. Len(q) \ {i} : r[k] = q[j]
      BY <2>6
    <3>2. j < i \/ i < j
      BY <2>1, <3>1
    <3> QED
      BY <2>1, <2>5, <3>1, <3>2
  <2>9. ASSUME NEW d \in Callouts, d # c PROVE In(r, d) <=> In(q, d)
    <3>1. ASSUME In(r, d) PROVE In(q, d)
      BY <2>4, <2>6, <3>1 DEF In
    <3>2. ASSUME In(q, d) PROVE In(r, d)
      <4>1. PICK j \in 1 .. Len(q) : q[j] = d
        BY <2>4, <3>2 DEF In
      <4>2. j # i
        BY <2>1, <2>9, <4>1
      <4>3. CASE j < i
        <5>1. j \in 1 .. Len(q) - 1 /\ r[j] = d
          BY SMTT(60), <2>1, <2>3, <2>4, <4>1, <4>3
        <5> QED
          BY <2>4, <5>1 DEF In
      <4>4. CASE i < j
        <5>1. j - 1 \in 1 .. Len(q) - 1 /\ ~(j - 1 < i) /\ (j - 1) + 1 = j
          BY <2>1, <4>4
        <5>2. r[j - 1] = d
          BY <2>3, <4>1, <5>1
        <5> QED
          BY <2>4, <5>1, <5>2 DEF In
      <4> QED
        BY <2>1, <4>2, <4>3, <4>4
    <3> QED
      BY <3>1, <3>2
  <2> QED
    BY <2>2, <2>3, <2>7, <2>8, <2>9
<1> QED
  BY <1>1, <1>2

\* A nonempty set of natural numbers has a least element.
LEMMA LeastOf ==
  ASSUME NEW S \in SUBSET Nat, S # {}
  PROVE  \E m \in S : \A k \in S : m <= k
<1> DEFINE R == OpToRel(<, Nat)
<1>1. IsWellFoundedOn(R, Nat)
  BY NatLessThanWellFounded
<1>2. \E x \in S : \A y \in S : ~(<<y, x>> \in R)
  <2> HIDE DEF R
  <2> QED
    BY <1>1, WFMin
<1>3. PICK m \in S : \A k \in S : ~(<<k, m>> \in R)
  BY <1>2
<1>4. \A k \in S : ~(k < m)
  BY <1>3 DEF OpToRel
<1>5. \A k \in S : k \in Nat /\ m \in Nat
  OBVIOUS
<1>6. \A k \in S : m <= k
  BY <1>4, <1>5
<1> QED
  BY <1>6

\* Inserting a callout that is not queued keeps the queue sorted.
LEMMA InsertKeeps ==
  ASSUME NEW q \in Seq(Callouts), NEW t \in [Callouts -> Int], Sorted(q, t),
         NEW c \in Callouts, ~In(q, c)
  PROVE  /\ callout_insert(q, c, t) \in Seq(Callouts)
         /\ callout_insert(q, c, t) # <<>>
         /\ Sorted(callout_insert(q, c, t), t)
         /\ In(callout_insert(q, c, t), c)
         /\ \A d \in Callouts : d # c => (In(callout_insert(q, c, t), d) <=> In(q, d))
<1> DEFINE later == {i \in DOMAIN q : t[c] < t[q[i]]}
           k == IF later = {} THEN Len(q) + 1
                ELSE CHOOSE i \in later : \A j \in later : i <= j
           r == InsertAt(q, k, c)
<1>0. DOMAIN q = 1 .. Len(q) /\ Len(q) \in Nat /\ \A i \in 1 .. Len(q) : q[i] \in Callouts
  OBVIOUS
<1>1. /\ k \in 1 .. Len(q) + 1
      /\ \A i \in 1 .. Len(q) : i < k => t[q[i]] <= t[c]
      /\ k <= Len(q) => t[c] < t[q[k]]
  <2>1. CASE later = {}
    <3>1. k = Len(q) + 1
      BY <2>1
    <3>2. \A i \in 1 .. Len(q) : ~(t[c] < t[q[i]])
      BY <1>0, <2>1
    <3>3. \A i \in 1 .. Len(q) : t[q[i]] \in Int /\ t[c] \in Int
      BY <1>0
    <3> HIDE DEF k, later
    <3> QED
      BY <1>0, <3>1, <3>2, <3>3
  <2>2. CASE later # {}
    <3>1. later \in SUBSET Nat
      BY <1>0
    <3>2. \E m \in later : \A j \in later : m <= j
      <4> HIDE DEF later
      <4> QED
        BY <2>2, <3>1, LeastOf
    <3>3. k \in later /\ \A j \in later : k <= j
      BY <2>2, <3>2
    <3>4. ASSUME NEW i \in 1 .. Len(q), i < k PROVE t[q[i]] <= t[c]
      <4>1. i \notin later
        <5> HIDE DEF k
        <5> QED
          BY <3>1, <3>3, <3>4
      <4>2. ~(t[c] < t[q[i]])
        BY <1>0, <4>1
      <4>3. t[q[i]] \in Int /\ t[c] \in Int
        BY <1>0
      <4> QED
        BY ONLY <4>2, <4>3
    <3>5. k \in 1 .. Len(q) /\ t[c] < t[q[k]]
      <4> HIDE DEF k
      <4> QED
        BY <1>0, <3>3
    <3> HIDE DEF k, later
    <3> QED
      BY <1>0, <3>4, <3>5
  <2> QED
    BY <2>1, <2>2
<1>2. callout_insert(q, c, t) = r
  BY DEF callout_insert
<1> HIDE DEF k
<1>3. /\ r \in Seq(Callouts) /\ Len(r) = Len(q) + 1
      /\ \A j \in 1 .. Len(q) + 1 : r[j] = IF j < k THEN q[j] ELSE IF j = k THEN c ELSE q[j - 1]
  BY <1>1, InsertAtIs
<1> HIDE DEF r, later
<1>4. DOMAIN r = 1 .. Len(q) + 1 /\ r # <<>>
  BY <1>0, <1>3
<1>5. \A i, j \in 1 .. Len(q) : i < j => q[i] # q[j] /\ t[q[i]] <= t[q[j]]
  BY <1>0 DEF Sorted
<1>6. \A i \in 1 .. Len(q) : q[i] # c /\ t[q[i]] \in Int /\ t[c] \in Int
  BY <1>0 DEF In
<1>7. \A i \in 1 .. Len(q) : k <= i => t[c] <= t[q[i]]
  <2> SUFFICES ASSUME NEW i \in 1 .. Len(q), k <= i PROVE t[c] <= t[q[i]]
    OBVIOUS
  <2>1. k \in 1 .. Len(q) /\ t[c] < t[q[k]]
    BY <1>0, <1>1
  <2>2. t[q[k]] <= t[q[i]]
    BY <1>5, <1>6, <2>1
  <2>3. t[q[k]] \in Int /\ t[q[i]] \in Int /\ t[c] \in Int
    BY <1>6, <2>1
  <2> QED
    BY ONLY <2>1, <2>2, <2>3
<1>8. Sorted(r, t)
  <2> SUFFICES ASSUME NEW i \in 1 .. Len(q) + 1, NEW j \in 1 .. Len(q) + 1, i < j
               PROVE  r[i] # r[j] /\ t[r[i]] <= t[r[j]]
    BY <1>4 DEF Sorted
  <2>1. CASE j < k
    <3>1. r[i] = q[i] /\ r[j] = q[j] /\ i \in 1 .. Len(q) /\ j \in 1 .. Len(q)
      BY <1>0, <1>1, <1>3, <2>1
    <3> QED
      BY <1>5, <3>1
  <2>2. CASE j = k
    <3>1. r[i] = q[i] /\ r[j] = c /\ i \in 1 .. Len(q) /\ i < k
      BY <1>0, <1>1, <1>3, <2>2
    <3> QED
      BY <1>1, <1>6, <3>1
  <2>3. CASE j > k /\ i = k
    <3>1. r[i] = c /\ r[j] = q[j - 1] /\ j - 1 \in 1 .. Len(q) /\ k <= j - 1
      BY <1>0, <1>1, <1>3, <2>3
    <3> QED
      BY <1>6, <1>7, <3>1
  <2>4. CASE j > k /\ i < k
    <3>1. r[i] = q[i] /\ r[j] = q[j - 1] /\ j - 1 \in 1 .. Len(q) /\ i \in 1 .. Len(q) /\ i < j - 1
      BY <1>0, <1>1, <1>3, <2>4
    <3> QED
      BY <1>5, <3>1
  <2>5. CASE j > k /\ i > k
    <3>1. /\ r[i] = q[i - 1] /\ r[j] = q[j - 1]
          /\ j - 1 \in 1 .. Len(q) /\ i - 1 \in 1 .. Len(q) /\ i - 1 < j - 1
      BY <1>0, <1>1, <1>3, <2>5
    <3> QED
      BY <1>5, <3>1
  <2> QED
    BY <1>1, <2>1, <2>2, <2>3, <2>4, <2>5
<1>9. In(r, c)
  <2>1. r[k] = c
    BY <1>1, <1>3
  <2> QED
    BY <1>1, <1>4, <2>1 DEF In
<1>10. ASSUME NEW d \in Callouts, d # c PROVE In(r, d) <=> In(q, d)
  <2>1. ASSUME In(r, d) PROVE In(q, d)
    <3>1. PICK j \in 1 .. Len(q) + 1 : r[j] = d
      BY <1>4, <2>1 DEF In
    <3>2. j # k
      BY <1>3, <1>10, <3>1
    <3>3. CASE j < k
      <4>1. q[j] = d /\ j \in 1 .. Len(q)
        BY <1>0, <1>1, <1>3, <3>1, <3>3
      <4> QED
        BY <1>0, <4>1 DEF In
    <3>4. CASE j > k
      <4>1. q[j - 1] = d /\ j - 1 \in 1 .. Len(q)
        BY <1>0, <1>1, <1>3, <3>1, <3>4
      <4> QED
        BY <1>0, <4>1 DEF In
    <3> QED
      BY <1>1, <3>2, <3>3, <3>4
  <2>2. ASSUME In(q, d) PROVE In(r, d)
    <3>1. PICK j \in 1 .. Len(q) : q[j] = d
      BY <1>0, <2>2 DEF In
    <3>2. CASE j < k
      <4>1. r[j] = d /\ j \in 1 .. Len(q) + 1
        BY <1>0, <1>3, <3>1, <3>2
      <4> QED
        BY <1>4, <4>1 DEF In
    <3>3. CASE ~(j < k)
      <4>1. j + 1 \in 1 .. Len(q) + 1 /\ ~(j + 1 < k) /\ j + 1 # k /\ (j + 1) - 1 = j
        BY <1>0, <1>1, <3>3
      <4>2. r[j + 1] = d
        BY <1>3, <3>1, <4>1
      <4> QED
        BY <1>4, <4>1, <4>2 DEF In
    <3> QED
      BY <3>2, <3>3
  <2> QED
    BY <2>1, <2>2
<1> QED
  BY <1>2, <1>3, <1>4, <1>8, <1>9, <1>10

-----------------------------------------------------------------------------
(* What the operations do to the state.                                    *)

\* Signalling the thread.
LEMMA SignalEffect ==
  ASSUME sig \in BOOLEAN, SignalThread
  PROVE  sig' \in BOOLEAN /\ (sig => sig') /\ (pc \in {"idle", "sleep"} => sig')
BY DEF SignalThread

\* callout_reset_sbt: the callout is queued once, at its place, and a thread
\* that waits for work is woken when there was none.
LEMMA ResetEffect ==
  ASSUME TypeOK, QueueSorted, WorkIsSeen, NEW c \in Callouts, NEW t \in 0 .. MaxTime,
         callout_reset_sbt(c, t)
  PROVE  /\ timeout' \in [Callouts -> 0 .. MaxTime]
         /\ flags' = [flags EXCEPT ![c] = {"ACTIVE", "PENDING"}]
         /\ queue' \in Seq(Callouts)
         /\ QueueSorted'
         /\ In(queue', c)
         /\ \A d \in Callouts : d # c => (In(queue', d) <=> In(queue, d))
         /\ work' \in BOOLEAN /\ sig' \in BOOLEAN
         /\ pc = "idle" => sig'
<1> DEFINE q == callout_remove(queue, c)
<1>1. /\ timeout' = [timeout EXCEPT ![c] = t]
      /\ flags' = [flags EXCEPT ![c] = {"ACTIVE", "PENDING"}]
      /\ queue' = callout_insert(q, c, timeout')
      /\ IF Head(queue') = c THEN work' = TRUE /\ SignalThread ELSE UNCHANGED <<work, sig>>
  BY DEF callout_reset_sbt
<1>2. /\ timeout \in [Callouts -> Int] /\ timeout' \in [Callouts -> Int]
      /\ timeout' \in [Callouts -> 0 .. MaxTime]
      /\ \A d \in Callouts : d # c => timeout'[d] = timeout[d]
  BY <1>1, MaxTimeAssumption DEF TypeOK
<1>3. queue \in Seq(Callouts) /\ Sorted(queue, timeout)
  BY DEF TypeOK, QueueSorted, Sorted
<1>4. /\ q \in Seq(Callouts) /\ Sorted(q, timeout) /\ ~In(q, c)
      /\ \A d \in Callouts : d # c => (In(q, d) <=> In(queue, d))
  BY <1>2, <1>3, RemoveKeeps
<1> HIDE DEF q
<1>5. Sorted(q, timeout')
  <2>1. \A i \in DOMAIN q : q[i] \in Callouts /\ q[i] # c
    BY <1>4 DEF In
  <2> QED
    BY <1>2, <1>4, <2>1 DEF Sorted
<1>6. /\ queue' \in Seq(Callouts) /\ queue' # <<>> /\ Sorted(queue', timeout')
      /\ In(queue', c)
      /\ \A d \in Callouts : d # c => (In(queue', d) <=> In(q, d))
  BY <1>1, <1>2, <1>4, <1>5, InsertKeeps
<1>7. QueueSorted'
  BY <1>6 DEF QueueSorted, Sorted
<1>8. work' \in BOOLEAN /\ sig' \in BOOLEAN /\ (pc = "idle" => sig')
  <2>1. CASE Head(queue') = c
    BY <1>1, <2>1, SignalEffect DEF TypeOK
  <2>2. CASE Head(queue') # c
    <3>1. Head(queue') \in Callouts /\ In(queue', Head(queue'))
      <4>1. 1 \in DOMAIN queue' /\ queue'[1] = Head(queue')
        BY <1>6
      <4> QED
        BY <1>6, <4>1 DEF In
    <3>2. In(queue, Head(queue'))
      BY <1>4, <1>6, <2>2, <3>1
    <3>3. queue # <<>>
      BY <3>2 DEF In
    <3>4. UNCHANGED <<work, sig>>
      BY <1>1, <2>2
    <3> QED
      BY <3>3, <3>4 DEF WorkIsSeen, TypeOK
  <2> QED
    BY <2>1, <2>2
<1> QED
  BY <1>1, <1>2, <1>4, <1>6, <1>7, <1>8

\* callout_remove on the queue of the service.
LEMMA UnlinkEffect ==
  ASSUME TypeOK, QueueSorted, NEW c, queue' = callout_remove(queue, c), timeout' = timeout
  PROVE  /\ queue' \in Seq(Callouts)
         /\ QueueSorted'
         /\ ~In(queue', c)
         /\ \A d \in Callouts : d # c => (In(queue', d) <=> In(queue, d))
         /\ queue' # <<>> => queue # <<>>
<1>1. queue \in Seq(Callouts) /\ Sorted(queue, timeout) /\ timeout \in [Callouts -> Int]
  BY MaxTimeAssumption DEF TypeOK, QueueSorted, Sorted
<1>2. /\ queue' \in Seq(Callouts) /\ Sorted(queue', timeout) /\ ~In(queue', c)
      /\ \A d \in Callouts : d # c => (In(queue', d) <=> In(queue, d))
  BY <1>1, RemoveKeeps
<1>3. QueueSorted'
  BY <1>2 DEF QueueSorted, Sorted
<1>4. queue = <<>> => queue' = <<>>
  BY DEF callout_remove
<1> QED
  BY <1>2, <1>3, <1>4

-----------------------------------------------------------------------------
(* The invariant.                                                          *)

\* Nothing is armed, queued or fired at the start.
LEMMA InitInv == Init => CalloutInv
<1> SUFFICES ASSUME Init PROVE CalloutInv
  OBVIOUS
<1> USE DEF Init
<1>1. TypeOK
  <2>1. now \in 0 .. MaxTime /\ deadline \in 0 .. MaxTime /\ timeout \in [Callouts -> 0 .. MaxTime]
    BY MaxTimeAssumption
  <2>2. queue \in Seq(Callouts)
    BY EmptySeq
  <2> QED
    BY <2>1, <2>2 DEF TypeOK
<1>2. QueueSorted /\ NoAbort /\ StoppedNeverFires /\ WorkIsSeen
  BY DEF QueueSorted, NoAbort, StoppedNeverFires, WorkIsSeen
<1>3. CurKnown /\ QueuedActive /\ ActiveArmed
  BY DEF CurKnown, QueuedActive, ActiveArmed, Queued
<1> QED
  BY <1>1, <1>2, <1>3 DEF CalloutInv

\* A device arms its callout.
LEMMA ArmInv ==
  ASSUME CalloutInv, NEW c \in Callouts, Arm(c)
  PROVE  CalloutInv'
<1> USE DEF CalloutInv
<1>1. /\ armed' = [armed EXCEPT ![c] = TRUE]
      /\ UNCHANGED <<now, pc, cur, deadline, client, fired>>
      /\ timeout' \in [Callouts -> 0 .. MaxTime]
      /\ flags' = [flags EXCEPT ![c] = {"ACTIVE", "PENDING"}]
      /\ queue' \in Seq(Callouts) /\ QueueSorted' /\ In(queue', c)
      /\ \A d \in Callouts : d # c => (In(queue', d) <=> In(queue, d))
      /\ work' \in BOOLEAN /\ sig' \in BOOLEAN
      /\ pc = "idle" => sig'
  <2>1. PICK t \in now + MinDelay .. MaxTime : callout_reset_sbt(c, t)
    BY DEF Arm
  <2>2. t \in 0 .. MaxTime
    BY MaxTimeAssumption, MinDelayAssumption DEF TypeOK
  <2> QED
    BY <2>1, <2>2, ResetEffect DEF Arm
<1>2. TypeOK'
  BY <1>1 DEF TypeOK
<1>3. QueueSorted'
  BY <1>1
<1>4. NoAbort'
  BY <1>1 DEF TypeOK, NoAbort
<1>5. StoppedNeverFires'
  BY <1>1 DEF TypeOK, StoppedNeverFires
<1>6. WorkIsSeen'
  BY <1>1 DEF TypeOK, WorkIsSeen, Queued, In
<1>7. CurKnown'
  BY <1>1 DEF TypeOK, CurKnown
<1>8. QueuedActive'
  BY <1>1 DEF TypeOK, QueuedActive, Queued, In
<1>9. ActiveArmed'
  BY <1>1 DEF TypeOK, ActiveArmed
<1> QED
  BY <1>2, <1>3, <1>4, <1>5, <1>6, <1>7, <1>8, <1>9

\* A device stops its callout.
LEMMA StopInv ==
  ASSUME CalloutInv, NEW c \in Callouts, Stop(c)
  PROVE  CalloutInv'
<1> USE DEF CalloutInv
<1>1. /\ flags' = [flags EXCEPT ![c] = {}] /\ armed' = [armed EXCEPT ![c] = FALSE]
      /\ UNCHANGED <<now, timeout, work, pc, cur, deadline, sig, client, fired>>
      /\ queue' \in Seq(Callouts) /\ QueueSorted' /\ ~In(queue', c)
      /\ \A d \in Callouts : d # c => (In(queue', d) <=> In(queue, d))
      /\ queue' # <<>> => queue # <<>>
  BY UnlinkEffect DEF Stop, StopLocked
<1>2. TypeOK'
  BY <1>1 DEF TypeOK
<1>3. QueueSorted'
  BY <1>1
<1>4. NoAbort'
  BY <1>1 DEF TypeOK, NoAbort
<1>5. StoppedNeverFires'
  BY <1>1 DEF TypeOK, StoppedNeverFires
<1>6. WorkIsSeen'
  BY <1>1 DEF TypeOK, WorkIsSeen, Queued, In
<1>7. CurKnown'
  BY <1>1 DEF TypeOK, CurKnown
<1>8. QueuedActive'
  BY <1>1 DEF TypeOK, QueuedActive, Queued, In
<1>9. ActiveArmed'
  BY <1>1 DEF TypeOK, ActiveArmed
<1> QED
  BY <1>2, <1>3, <1>4, <1>5, <1>6, <1>7, <1>8, <1>9

\* The wait of callout_drain returns.
LEMMA DrainReturnInv ==
  ASSUME CalloutInv, NEW c \in Callouts, DrainReturn(c)
  PROVE  CalloutInv'
<1> USE DEF CalloutInv
<1>1. /\ flags' = [flags EXCEPT ![c] = {}] /\ armed' = [armed EXCEPT ![c] = FALSE]
      /\ client' = [client EXCEPT ![c] = "down"]
      /\ UNCHANGED <<now, timeout, work, pc, cur, deadline, sig, fired>>
      /\ queue' \in Seq(Callouts) /\ QueueSorted' /\ ~In(queue', c)
      /\ \A d \in Callouts : d # c => (In(queue', d) <=> In(queue, d))
      /\ queue' # <<>> => queue # <<>>
  BY UnlinkEffect DEF DrainReturn, StopLocked
<1>2. TypeOK'
  BY <1>1 DEF TypeOK
<1>3. QueueSorted'
  BY <1>1
<1>4. NoAbort'
  BY <1>1 DEF TypeOK, NoAbort
<1>5. StoppedNeverFires'
  BY <1>1 DEF TypeOK, StoppedNeverFires
<1>6. WorkIsSeen'
  BY <1>1 DEF TypeOK, WorkIsSeen, Queued, In
<1>7. CurKnown'
  BY <1>1 DEF TypeOK, CurKnown
<1>8. QueuedActive'
  BY <1>1 DEF TypeOK, QueuedActive, Queued, In
<1>9. ActiveArmed'
  BY <1>1 DEF TypeOK, ActiveArmed
<1> QED
  BY <1>2, <1>3, <1>4, <1>5, <1>6, <1>7, <1>8, <1>9

\* callout_drain of a callout that is pending or in its handler.
LEMMA DrainWaitInv ==
  ASSUME CalloutInv, NEW c \in Callouts, Drain(c), MustWait(c)
  PROVE  CalloutInv'
<1> USE DEF CalloutInv
<1>1. /\ flags' = [flags EXCEPT ![c] = @ \cup {"WAITING"}]
      /\ work' = TRUE /\ sig' \in BOOLEAN /\ (sig => sig')
      /\ client' = [client EXCEPT ![c] = "draining"]
      /\ UNCHANGED <<now, timeout, queue, pc, cur, deadline, armed, fired>>
  BY SignalEffect DEF Drain, TypeOK
<1>2. TypeOK'
  BY <1>1 DEF TypeOK
<1>3. QueueSorted'
  BY <1>1 DEF QueueSorted
<1>4. NoAbort'
  BY <1>1 DEF TypeOK, NoAbort
<1>5. StoppedNeverFires'
  BY <1>1 DEF TypeOK, StoppedNeverFires
<1>6. WorkIsSeen'
  BY <1>1 DEF TypeOK, WorkIsSeen, Queued, In
<1>7. CurKnown'
  BY <1>1 DEF TypeOK, CurKnown
<1>8. QueuedActive'
  BY <1>1 DEF TypeOK, QueuedActive, Queued, In
<1>9. ActiveArmed'
  BY <1>1 DEF TypeOK, ActiveArmed
<1> QED
  BY <1>2, <1>3, <1>4, <1>5, <1>6, <1>7, <1>8, <1>9

\* callout_drain of any other callout.
LEMMA DrainDoneInv ==
  ASSUME CalloutInv, NEW c \in Callouts, Drain(c), ~MustWait(c)
  PROVE  CalloutInv'
<1> USE DEF CalloutInv
<1>1. /\ flags' = [flags EXCEPT ![c] = {}] /\ armed' = [armed EXCEPT ![c] = FALSE]
      /\ client' = [client EXCEPT ![c] = "down"]
      /\ UNCHANGED <<now, timeout, work, pc, cur, deadline, sig, fired>>
      /\ queue' \in Seq(Callouts) /\ QueueSorted' /\ ~In(queue', c)
      /\ \A d \in Callouts : d # c => (In(queue', d) <=> In(queue, d))
      /\ queue' # <<>> => queue # <<>>
  BY UnlinkEffect DEF Drain, StopLocked
<1>2. TypeOK'
  BY <1>1 DEF TypeOK
<1>3. QueueSorted'
  BY <1>1
<1>4. NoAbort'
  BY <1>1 DEF TypeOK, NoAbort
<1>5. StoppedNeverFires'
  BY <1>1 DEF TypeOK, StoppedNeverFires
<1>6. WorkIsSeen'
  BY <1>1 DEF TypeOK, WorkIsSeen, Queued, In
<1>7. CurKnown'
  BY <1>1 DEF TypeOK, CurKnown
<1>8. QueuedActive'
  BY <1>1 DEF TypeOK, QueuedActive, Queued, In
<1>9. ActiveArmed'
  BY <1>1 DEF TypeOK, ActiveArmed
<1> QED
  BY <1>2, <1>3, <1>4, <1>5, <1>6, <1>7, <1>8, <1>9

\* The head of the queue is active: the thread does not abort on it.
LEMMA TopInv ==
  ASSUME CalloutInv, Top
  PROVE  CalloutInv'
<1> USE DEF CalloutInv
<1>1. /\ UNCHANGED <<now, timeout, queue, sig, client, armed, fired>>
      /\ pc = "top" /\ pc' \in {"top", "idle", "sleep", "handler"}
      /\ pc' = "idle" => queue = <<>> /\ cur' = cur
      /\ pc' # "idle" => cur' \in Callouts
      /\ cur' \in Callouts \cup {NoCallout}
      /\ deadline' \in 0 .. MaxTime /\ work' \in BOOLEAN
      /\ \/ flags' = flags
         \/ /\ pc' = "handler" /\ flags' = [flags EXCEPT ![cur'] = @ \ {"PENDING"}]
  <2>1. CASE queue = <<>>
    BY <2>1 DEF Top, TypeOK
  <2>2. CASE queue # <<>>
    <3> DEFINE h == Head(queue)
    <3>1. h \in Callouts /\ Queued(h)
      <4>1. 1 \in DOMAIN queue /\ queue[1] = h
        BY <2>2 DEF TypeOK
      <4> QED
        BY <4>1 DEF Queued, TypeOK
    <3>2. "ACTIVE" \in flags[h]
      BY <3>1 DEF QueuedActive, Top
    <3>3. timeout[h] \in 0 .. MaxTime
      BY <3>1 DEF TypeOK
    <3> HIDE DEF h
    <3> QED
      BY <2>2, <3>1, <3>2, <3>3 DEF Top, Dispatch, TypeOK, h
  <2> QED
    BY <2>1, <2>2
<1>2. TypeOK'
  <2>1. flags' \in [Callouts -> SUBSET {"ACTIVE", "PENDING", "COMPLETED", "WAITING"}]
    BY ZenonT(60), <1>1 DEF TypeOK
  <2> QED
    BY <1>1, <2>1 DEF TypeOK
<1>3. QueueSorted'
  BY <1>1 DEF QueueSorted
<1>4. NoAbort'
  BY <1>1 DEF TypeOK, NoAbort
<1>5. StoppedNeverFires'
  BY <1>1 DEF TypeOK, StoppedNeverFires
<1>6. WorkIsSeen'
  BY SMTT(60), <1>1 DEF TypeOK, WorkIsSeen, Queued, In
<1>7. CurKnown'
  BY <1>1 DEF TypeOK, CurKnown
<1>8. QueuedActive'
  BY SMTT(60), <1>1 DEF TypeOK, QueuedActive, Queued, In
<1>9. ActiveArmed'
  BY ZenonT(60), <1>1 DEF TypeOK, ActiveArmed
<1> QED
  BY <1>2, <1>3, <1>4, <1>5, <1>6, <1>7, <1>8, <1>9

\* The thread is woken from its first wait, or asks itself to look again.
LEMMA WakeInv ==
  ASSUME CalloutInv, IdleWake \/ SpuriousWake
  PROVE  CalloutInv'
<1> USE DEF CalloutInv
<1>1. /\ UNCHANGED <<now, timeout, flags, queue, work, cur, deadline, client, armed, fired>>
      /\ sig' \in BOOLEAN /\ pc \in {"idle", "sleep"}
      /\ (pc' = "top" \/ (pc' = pc /\ sig'))
  BY DEF IdleWake, SpuriousWake
<1>2. TypeOK'
  BY <1>1 DEF TypeOK
<1>3. QueueSorted'
  BY <1>1 DEF QueueSorted
<1>4. NoAbort'
  BY <1>1 DEF TypeOK, NoAbort
<1>5. StoppedNeverFires'
  BY <1>1 DEF TypeOK, StoppedNeverFires
<1>6. WorkIsSeen'
  BY <1>1 DEF TypeOK, WorkIsSeen, Queued, In
<1>7. CurKnown'
  BY <1>1 DEF TypeOK, CurKnown
<1>8. QueuedActive'
  BY <1>1 DEF TypeOK, QueuedActive, Queued, In
<1>9. ActiveArmed'
  BY <1>1 DEF TypeOK, ActiveArmed
<1> QED
  BY <1>2, <1>3, <1>4, <1>5, <1>6, <1>7, <1>8, <1>9

\* The timed wait returns.
LEMMA SleepInv ==
  ASSUME CalloutInv, Timeout \/ SleepWake
  PROVE  CalloutInv'
<1> USE DEF CalloutInv
<1>1. /\ UNCHANGED <<now, timeout, queue, cur, client, armed, fired>>
      /\ pc = "sleep" /\ cur \in Callouts /\ pc' \in {"top", "sleep", "handler"}
      /\ sig' \in BOOLEAN /\ work' \in BOOLEAN /\ deadline' \in 0 .. MaxTime
      /\ \/ flags' = flags
         \/ pc' = "handler" /\ flags' = [flags EXCEPT ![cur] = @ \ {"PENDING"}]
  <2>1. pc = "sleep" /\ cur \in Callouts /\ timeout[cur] \in 0 .. MaxTime
    BY DEF Timeout, SleepWake, CurKnown, TypeOK
  <2>2. CASE Timeout
    BY <2>1, <2>2 DEF Timeout, Dispatch, TypeOK
  <2>3. CASE SleepWake
    BY <2>1, <2>3 DEF SleepWake, Dispatch, TypeOK
  <2> QED
    BY <2>2, <2>3
<1>2. TypeOK'
  <2>1. flags' \in [Callouts -> SUBSET {"ACTIVE", "PENDING", "COMPLETED", "WAITING"}]
    <3>1. CASE flags' = flags
      BY <3>1 DEF TypeOK
    <3>2. CASE flags' = [flags EXCEPT ![cur] = @ \ {"PENDING"}]
      BY <1>1, <3>2 DEF TypeOK
    <3> QED
      BY <1>1, <3>1, <3>2
  <2> QED
    BY <1>1, <2>1 DEF TypeOK
<1>3. QueueSorted'
  BY <1>1 DEF QueueSorted
<1>4. NoAbort'
  BY <1>1 DEF TypeOK, NoAbort
<1>5. StoppedNeverFires'
  BY <1>1 DEF TypeOK, StoppedNeverFires
<1>6. WorkIsSeen'
  BY SMTT(60), <1>1 DEF TypeOK, WorkIsSeen, Queued, In
<1>7. CurKnown'
  BY <1>1 DEF TypeOK, CurKnown
<1>8. QueuedActive'
  BY <1>1 DEF TypeOK, QueuedActive, Queued, In
<1>9. ActiveArmed'
  BY SMTT(60), <1>1 DEF TypeOK, ActiveArmed
<1> QED
  BY <1>2, <1>3, <1>4, <1>5, <1>6, <1>7, <1>8, <1>9

\* The handler finds its callout reset or stopped.
LEMMA HandlerNotInv ==
  ASSUME CalloutInv, Handler, ~MayFire(cur)
  PROVE  CalloutInv'
<1> USE DEF CalloutInv
<1>1. /\ UNCHANGED <<now, timeout, flags, queue, work, cur, deadline, sig, client, armed, fired>>
      /\ pc = "handler" /\ pc' = "after" /\ cur \in Callouts
  BY DEF Handler, CurKnown
<1>2. TypeOK'
  BY <1>1 DEF TypeOK
<1>3. QueueSorted'
  BY <1>1 DEF QueueSorted
<1>4. NoAbort'
  BY <1>1 DEF TypeOK, NoAbort
<1>5. StoppedNeverFires'
  BY <1>1 DEF TypeOK, StoppedNeverFires
<1>6. WorkIsSeen'
  BY <1>1 DEF TypeOK, WorkIsSeen, Queued, In
<1>7. CurKnown'
  BY <1>1 DEF TypeOK, CurKnown
<1>8. QueuedActive'
  BY <1>1 DEF TypeOK, QueuedActive, Queued, In
<1>9. ActiveArmed'
  BY <1>1 DEF TypeOK, ActiveArmed
<1> QED
  BY <1>2, <1>3, <1>4, <1>5, <1>6, <1>7, <1>8, <1>9

\* The handler fires a callout that has been armed, for the last time.
LEMMA HandlerFiresInv ==
  ASSUME CalloutInv, Handler, MayFire(cur), "ACTIVE" \notin flags'[cur]
  PROVE  CalloutInv'
<1> USE DEF CalloutInv
<1> DEFINE c == cur
<1>0. /\ c \in Callouts /\ pc = "handler"
      /\ fired' \in [Callouts -> {"never", "due", "early", "stopped"}]
      /\ fired'[c] # "stopped" /\ \A d \in Callouts : d # c => fired'[d] = fired[d]
  <2>1. c \in Callouts /\ pc = "handler"
    BY DEF Handler, CurKnown
  <2>2. armed[c]
    BY <2>1 DEF ActiveArmed, MayFire
  <2>3. FiredAs(c) \in {"due", "early"}
    BY <2>2 DEF FiredAs
  <2>4. fired' = [fired EXCEPT ![c] = FiredAs(c)]
    BY DEF Handler
  <2> HIDE DEF c
  <2> QED
    BY <2>1, <2>3, <2>4 DEF TypeOK
<1>1. /\ UNCHANGED <<now, timeout, queue, work, cur, deadline, sig, client>>
      /\ pc' = "after" /\ "PENDING" \notin flags[c]
      /\ flags' = [flags EXCEPT ![c] = @ \ {"ACTIVE"}] /\ armed' = [armed EXCEPT ![c] = FALSE]
  <2>1. ASSUME \E t \in now + MinDelay .. MaxTime : callout_reset_sbt(c, t)
        PROVE  FALSE
    BY <1>0, <2>1 DEF callout_reset_sbt, TypeOK
  <2> QED
    BY <1>0, <2>1 DEF Handler, MayFire
<1>2. TypeOK'
  BY <1>0, <1>1 DEF TypeOK
<1>3. QueueSorted'
  BY <1>1 DEF QueueSorted
<1>4. NoAbort'
  BY <1>1 DEF TypeOK, NoAbort
<1>5. StoppedNeverFires'
  BY <1>0, <1>1 DEF StoppedNeverFires
<1>6. WorkIsSeen'
  BY <1>1 DEF TypeOK, WorkIsSeen, Queued, In
<1>7. CurKnown'
  BY <1>0, <1>1 DEF CurKnown
<1>8. QueuedActive'
  BY <1>1 DEF TypeOK, QueuedActive, Queued, In
<1>9. ActiveArmed'
  BY <1>1 DEF TypeOK, ActiveArmed
<1> QED
  BY <1>2, <1>3, <1>4, <1>5, <1>6, <1>7, <1>8, <1>9

\* The handler of a periodic timer fires and arms the callout again.
LEMMA HandlerRearmsInv ==
  ASSUME CalloutInv, Handler, MayFire(cur), "ACTIVE" \in flags'[cur]
  PROVE  CalloutInv'
<1> USE DEF CalloutInv
<1> DEFINE c == cur
<1>0. /\ c \in Callouts /\ pc = "handler"
      /\ fired' \in [Callouts -> {"never", "due", "early", "stopped"}]
      /\ fired'[c] # "stopped" /\ \A d \in Callouts : d # c => fired'[d] = fired[d]
  <2>1. c \in Callouts /\ pc = "handler"
    BY DEF Handler, CurKnown
  <2>2. armed[c]
    BY <2>1 DEF ActiveArmed, MayFire
  <2>3. FiredAs(c) \in {"due", "early"}
    BY <2>2 DEF FiredAs
  <2>4. fired' = [fired EXCEPT ![c] = FiredAs(c)]
    BY DEF Handler
  <2> HIDE DEF c
  <2> QED
    BY <2>1, <2>3, <2>4 DEF TypeOK
<1>1. /\ UNCHANGED <<now, cur, deadline, client>>
      /\ pc' = "after" /\ armed' = [armed EXCEPT ![c] = TRUE]
      /\ timeout' \in [Callouts -> 0 .. MaxTime]
      /\ flags' = [flags EXCEPT ![c] = {"ACTIVE", "PENDING"}]
      /\ queue' \in Seq(Callouts) /\ QueueSorted' /\ In(queue', c)
      /\ \A d \in Callouts : d # c => (In(queue', d) <=> In(queue, d))
      /\ work' \in BOOLEAN /\ sig' \in BOOLEAN
  <2>1. flags' # [flags EXCEPT ![c] = @ \ {"ACTIVE"}]
    BY <1>0 DEF TypeOK
  <2>2. /\ UNCHANGED <<now, cur, deadline, client>> /\ pc' = "after"
        /\ armed' = [armed EXCEPT ![c] = TRUE]
        /\ \E t \in now + MinDelay .. MaxTime : callout_reset_sbt(c, t)
    BY <2>1 DEF Handler
  <2>3. PICK t \in now + MinDelay .. MaxTime : callout_reset_sbt(c, t)
    BY <2>2
  <2>4. t \in 0 .. MaxTime
    BY MaxTimeAssumption, MinDelayAssumption DEF TypeOK
  <2> HIDE DEF c
  <2> QED
    BY <1>0, <2>2, <2>3, <2>4, ResetEffect
<1>2. TypeOK'
  BY <1>0, <1>1 DEF TypeOK
<1>3. QueueSorted'
  BY <1>1
<1>4. NoAbort'
  BY <1>1 DEF TypeOK, NoAbort
<1>5. StoppedNeverFires'
  BY <1>0, <1>1 DEF StoppedNeverFires
<1>6. WorkIsSeen'
  BY <1>1 DEF TypeOK, WorkIsSeen, Queued, In
<1>7. CurKnown'
  BY <1>0, <1>1 DEF CurKnown
<1>8. QueuedActive'
  BY <1>1 DEF TypeOK, QueuedActive, Queued, In
<1>9. ActiveArmed'
  BY <1>1 DEF TypeOK, ActiveArmed
<1> QED
  BY <1>2, <1>3, <1>4, <1>5, <1>6, <1>7, <1>8, <1>9

\* The thread removes the callout it has called.
LEMMA AfterInv ==
  ASSUME CalloutInv, After
  PROVE  CalloutInv'
<1> USE DEF CalloutInv
<1>1. /\ UNCHANGED <<now, timeout, work, cur, deadline, sig, client, armed, fired>>
      /\ pc = "after" /\ pc' = "top" /\ cur \in Callouts
      /\ \/ /\ flags' = [flags EXCEPT ![cur] = @ \cup {"COMPLETED"}]
            /\ queue' \in Seq(Callouts) /\ QueueSorted' /\ ~In(queue', cur)
            /\ \A d \in Callouts : d # cur => (In(queue', d) <=> In(queue, d))
         \/ UNCHANGED <<flags, queue>> /\ (In(queue, cur) => "PENDING" \in flags[cur])
  BY UnlinkEffect DEF After, CurKnown, Queued, In
<1>2. TypeOK'
  BY ZenonT(60), <1>1 DEF TypeOK
<1>3. QueueSorted'
  BY <1>1 DEF QueueSorted
<1>4. NoAbort'
  BY <1>1 DEF TypeOK, NoAbort
<1>5. StoppedNeverFires'
  BY <1>1 DEF TypeOK, StoppedNeverFires
<1>6. WorkIsSeen'
  <2>1. \A d \in Callouts : d # cur => flags'[d] = flags[d] /\ (In(queue', d) <=> In(queue, d))
    BY <1>1 DEF TypeOK
  <2>2. "PENDING" \in flags'[cur] => In(queue', cur) \/ "COMPLETED" \in flags'[cur]
    BY <1>1 DEF TypeOK, WorkIsSeen, Queued, In
  <2>3. \A d \in Callouts : "PENDING" \in flags'[d] => In(queue', d) \/ "COMPLETED" \in flags'[d]
    BY <2>1, <2>2 DEF WorkIsSeen, Queued, In
  <2> QED
    BY <1>1, <2>3 DEF WorkIsSeen, Queued, In
<1>7. CurKnown'
  BY <1>1 DEF TypeOK, CurKnown
<1>8. QueuedActive'
  BY <1>1 DEF TypeOK, QueuedActive, Queued, In
<1>9. ActiveArmed'
  <2>1. \A d \in Callouts : "ACTIVE" \in flags'[d] => "ACTIVE" \in flags[d]
    <3>1. flags' = flags \/ flags' = [flags EXCEPT ![cur] = @ \cup {"COMPLETED"}]
      BY <1>1
    <3> QED
      BY SMTT(60), <3>1 DEF TypeOK
  <2> QED
    BY <1>1, <2>1 DEF ActiveArmed
<1> QED
  BY <1>2, <1>3, <1>4, <1>5, <1>6, <1>7, <1>8, <1>9

\* Time passes, or nothing happens.
LEMMA QuietInv ==
  ASSUME CalloutInv, Tick \/ UNCHANGED vars
  PROVE  CalloutInv'
<1> USE DEF CalloutInv
<1>1. /\ now' \in 0 .. MaxTime
      /\ UNCHANGED <<timeout, flags, queue, work, pc, cur, deadline, sig, client, armed, fired>>
  BY MaxTimeAssumption DEF Tick, vars, TypeOK
<1>2. TypeOK'
  BY <1>1 DEF TypeOK
<1>3. QueueSorted'
  BY <1>1 DEF QueueSorted
<1>4. NoAbort'
  BY <1>1 DEF TypeOK, NoAbort
<1>5. StoppedNeverFires'
  BY <1>1 DEF TypeOK, StoppedNeverFires
<1>6. WorkIsSeen'
  BY <1>1 DEF TypeOK, WorkIsSeen, Queued, In
<1>7. CurKnown'
  BY <1>1 DEF TypeOK, CurKnown
<1>8. QueuedActive'
  BY <1>1 DEF TypeOK, QueuedActive, Queued, In
<1>9. ActiveArmed'
  BY <1>1 DEF TypeOK, ActiveArmed
<1> QED
  BY <1>2, <1>3, <1>4, <1>5, <1>6, <1>7, <1>8, <1>9

\* Every step of the clients, of the thread and of time keeps the invariant.
LEMMA NextInv == CalloutInv /\ [Next]_vars => CalloutInv'
<1> SUFFICES ASSUME CalloutInv, [Next]_vars PROVE CalloutInv'
  OBVIOUS
<1>1. ASSUME NEW c \in Callouts, Arm(c) \/ Stop(c) \/ Drain(c) \/ DrainReturn(c)
      PROVE  CalloutInv'
  BY <1>1, ArmInv, StopInv, DrainWaitInv, DrainDoneInv, DrainReturnInv
<1>2. CASE Handler
  BY <1>2, HandlerNotInv, HandlerFiresInv, HandlerRearmsInv
<1>3. CASE ThreadStep
  BY <1>2, <1>3, TopInv, WakeInv, SleepInv, AfterInv DEF ThreadStep
<1> QED
  BY <1>1, <1>3, WakeInv, QuietInv DEF Next

\* The invariant of the callout service.
LEMMA Invariance == Spec => []CalloutInv
BY InitInv, NextInv, PTL DEF Spec

\* The timer service is type correct: timeouts are instants, the queue holds
\* callouts.
THEOREM TypeCorrect == Spec => []TypeOK
<1>1. CalloutInv => TypeOK
  BY DEF CalloutInv
<1> QED
  BY <1>1, Invariance, PTL

\* A callout that was stopped, or has fired, does not fire until it is armed
\* again, whenever the stop comes: the handlers' checks of the flags suffice.
THEOREM StoppedCalloutsDoNotFire == Spec => []StoppedNeverFires
<1>1. CalloutInv => StoppedNeverFires
  BY DEF CalloutInv
<1> QED
  BY <1>1, Invariance, PTL

\* The queue is sorted by timeout without duplicates, although devices re-arm
\* callouts that are linked, and the thread never finds a queued callout that
\* is neither active nor pending.
THEOREM QueueIsSound == Spec => []QueueSound
<1>1. CalloutInv => QueueSound
  BY DEF CalloutInv, QueueSound
<1> QED
  BY <1>1, Invariance, PTL

\* A pending callout is queued, and the thread does not wait for work without
\* a signal on its way while there is some.
THEOREM NoWorkIsMissed == Spec => []WorkIsSeen
<1>1. CalloutInv => WorkIsSeen
  BY DEF CalloutInv
<1> QED
  BY <1>1, Invariance, PTL
=============================================================================
