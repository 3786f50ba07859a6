---------------------------- MODULE VlapicProofs ----------------------------
(***************************************************************************)
(* Proofs about the local APIC: for every set of vectors, TPR values, LVT  *)
(* writes and application processors, none of its self-checks is reached,  *)
(* the PPR is current, interrupts are accepted by priority, a disabled     *)
(* APIC has no unmasked LVT entry, and an AP is started once.              *)
(*                                                                         *)
(* The argument is about the stack of vectors in service: its entry i has  *)
(* priority i at least (StackFits), since each vector is accepted above    *)
(* the PPR, which is at least the priority of the entry below it; there    *)
(* are 15 priorities, so the stack of 17 entries cannot overflow.          *)
(***************************************************************************)
EXTENDS Vlapic, SequenceTheorems, WellFoundedInduction, TLAPS

-----------------------------------------------------------------------------
(* Priorities.                                                             *)

\* The vectors the local APIC accepts have the priorities 1 to 15.
LEMMA LegalPrio ==
  ASSUME NEW v \in Legal
  PROVE  v \in 16 .. 255 /\ PRIO(v) \in 1 .. 15
BY VectorsAssumption DEF Legal, PRIO

\* Vectors of different priorities are ordered as their priorities.
LEMMA PrioOrder ==
  ASSUME NEW v \in Legal, NEW w \in Legal, PRIO(v) < PRIO(w)
  PROVE  v < w
<1>1. v \in 0 .. 255 /\ w \in 0 .. 255
  BY LegalPrio
<1> QED
  BY <1>1 DEF PRIO

\* A stack that fits holds legal vectors in ascending order.
LEMMA Ascending ==
  ASSUME NEW s \in Seq(Legal), NEW is, StackFits(s, is)
  PROVE  /\ \A i \in 1 .. Len(s) : s[i] \in Legal /\ s[i] \in 16 .. 255
         /\ \A i, j \in 1 .. Len(s) : i < j => s[i] < s[j] /\ s[i] # s[j]
         /\ \A i, j \in 1 .. Len(s) : i <= j => s[i] <= s[j]
<1>1. \A i \in 1 .. Len(s) : s[i] \in Legal
  OBVIOUS
<1>2. \A i, j \in 1 .. Len(s) : i < j => PRIO(s[i]) < PRIO(s[j])
  BY DEF StackFits
<1>3. ASSUME NEW i \in 1 .. Len(s) PROVE s[i] \in 16 .. 255
  BY <1>1, LegalPrio
<1>4. ASSUME NEW i \in 1 .. Len(s), NEW j \in 1 .. Len(s)
      PROVE  (i < j => s[i] < s[j] /\ s[i] # s[j]) /\ (i <= j => s[i] <= s[j])
  <2> DEFINE v == s[i]
             w == s[j]
  <2>1. v \in Legal /\ w \in Legal /\ (i < j => PRIO(v) < PRIO(w))
    BY <1>1, <1>2
  <2>2. v \in 16 .. 255 /\ w \in 16 .. 255 /\ (i = j => v = w)
    BY <1>3
  <2> HIDE DEF v, w
  <2>3. i < j => v < w
    BY <2>1, PrioOrder
  <2>4. (i < j => v < w /\ v # w) /\ (i <= j => v <= w)
    BY <2>2, <2>3
  <2> QED
    BY <2>4 DEF v, w
<1> QED
  BY <1>1, <1>3, <1>4

\* The highest vector of a set is the one no other exceeds.
LEMMA HighestIs ==
  ASSUME NEW S, \A w \in S : w \in 16 .. 255, NEW v \in S, \A w \in S : w <= v
  PROVE  Highest(S) = v
<1>1. ASSUME NEW u \in S, \A w \in S : w <= u PROVE u = v
  <2>1. u <= v /\ v <= u /\ u \in 16 .. 255 /\ v \in 16 .. 255
    BY <1>1
  <2> QED
    BY <2>1
<1> QED
  BY <1>1 DEF Highest

\* The highest vector of a set of legal vectors belongs to it.
LEMMA HighestIn ==
  ASSUME NEW S \in SUBSET Legal, S # {}
  PROVE  Highest(S) \in S
<1> DEFINE R == OpToRel(<, Nat)
           T == {255 - w : w \in S}
<1>1. \A w \in S : w \in 16 .. 255
  BY LegalPrio
<1>2. T \subseteq Nat /\ T # {}
  BY <1>1
<1>3. IsWellFoundedOn(R, Nat)
  BY NatLessThanWellFounded
<1>4. \E x \in T : \A y \in T : ~(<<y, x>> \in R)
  <2> HIDE DEF T, R
  <2> QED
    BY <1>2, <1>3, WFMin
<1>5. PICK x \in T : \A y \in T : ~(y < x)
  BY <1>2, <1>4 DEF OpToRel
<1>6. PICK v \in S : x = 255 - v
  BY <1>5
<1>7. \A w \in S : w <= v
  <2> SUFFICES ASSUME NEW w \in S PROVE w <= v
    OBVIOUS
  <2>1. ~(255 - w < 255 - v)
    BY <1>5, <1>6
  <2>2. w \in 16 .. 255 /\ v \in 16 .. 255
    BY <1>1
  <2> QED
    BY <2>1, <2>2
<1> QED
  BY <1>1, <1>7, HighestIs

\* The innermost vector in service, and its priority.
LEMMA TopType ==
  ASSUME NEW s \in Seq(Legal) PROVE Top(s) \in 0 .. 255
<1>1. CASE s = << >>
  BY <1>1 DEF Top
<1>2. CASE s # << >>
  <2>1. s[Len(s)] \in Legal
    BY <1>2
  <2>2. s[Len(s)] \in 16 .. 255
    BY <2>1, LegalPrio
  <2> QED
    BY <1>2, <2>2 DEF Top
<1> QED
  BY <1>1, <1>2

\* A register's priority is its upper four bits.
LEMMA PrioInt ==
  ASSUME NEW v \in 0 .. 255 PROVE PRIO(v) \in 0 .. 15
BY DEF PRIO

\* The priority of the PPR is the higher one of the TPR and of the innermost
\* interrupt in service.
LEMMA PprPrio ==
  ASSUME NEW t \in 0 .. 255, NEW s \in Seq(Legal)
  PROVE  /\ PprOf(t, s) \in 0 .. 255
         /\ PRIO(PprOf(t, s)) >= PRIO(t)
         /\ PRIO(PprOf(t, s)) >= PRIO(Top(s))
<1>1. Top(s) \in 0 .. 255
  BY TopType
<1>2. \A n \in 0 .. 255 : PRIO(n) \in 0 .. 15 /\ 16 * PRIO(n) \in 0 .. 255
                          /\ PRIO(16 * PRIO(n)) = PRIO(n)
  BY DEF PRIO
<1>3. PRIO(t) \in 0 .. 15 /\ PRIO(Top(s)) \in 0 .. 15
  BY <1>1, <1>2
<1>4. CASE PRIO(t) >= PRIO(Top(s))
  <2>1. PprOf(t, s) = t
    BY <1>4 DEF PprOf
  <2> QED
    BY <1>3, <1>4, <2>1
<1>5. CASE ~(PRIO(t) >= PRIO(Top(s)))
  <2>1. PprOf(t, s) = 16 * PRIO(Top(s))
    BY <1>5 DEF PprOf
  <2>2. PRIO(PprOf(t, s)) = PRIO(Top(s)) /\ PprOf(t, s) \in 0 .. 255
    <3>1. 16 * PRIO(Top(s)) \in 0 .. 255 /\ PRIO(16 * PRIO(Top(s))) = PRIO(Top(s))
      BY ONLY <1>1, <1>2, Zenon
    <3> QED
      BY ONLY <2>1, <3>1, Zenon
  <2> QED
    BY SMTT(60), <1>3, <1>5, <2>2
<1> QED
  BY <1>4, <1>5

\* The self-checks of vlapic_update_ppr succeed on a stack that fits.
LEMMA ChecksPass ==
  ASSUME NEW s \in Seq(Legal), NEW is, StackFits(s, is)
  PROVE  StackIncreasing(s) /\ IsrInSync(is, s)
<1>1. StackIncreasing(s)
  BY DEF StackFits, StackIncreasing
<1>3. \A i, j \in 1 .. Len(s) : i < j => s[i] < s[j]
  BY Ascending
<1>4. Len(s) \in 0 .. Len(s)
  OBVIOUS
<1>5. IsrInSync(is, s)
  BY <1>3, <1>4 DEF IsrInSync, StackFits
<1> QED
  BY <1>1, <1>5

\* A vector above the innermost one in service may be pushed, and there is
\* room for it.
LEMMA PushFits ==
  ASSUME NEW s \in Seq(Legal), NEW is, StackFits(s, is), NEW v \in Legal,
         PRIO(v) > PRIO(Top(s))
  PROVE  /\ Append(s, v) \in Seq(Legal)
         /\ StackFits(Append(s, v), is \cup {v})
         /\ Len(s) + 1 < ISRVEC_STK_SIZE
         /\ \A u \in is : PRIO(v) > PRIO(u)
<1> DEFINE n == Len(s)
           r == Append(s, v)
<1>1. r \in Seq(Legal) /\ Len(r) = n + 1 /\ n \in Nat
      /\ r[n + 1] = v /\ \A i \in 1 .. n : r[i] = s[i]
  OBVIOUS
<1>2. PRIO(v) \in 1 .. 15 /\ \A i \in 1 .. n : PRIO(s[i]) \in 1 .. 15
  BY LegalPrio
<1>3. \A i \in 1 .. n : PRIO(s[i]) < PRIO(v)
  <2> SUFFICES ASSUME NEW i \in 1 .. n PROVE PRIO(s[i]) < PRIO(v)
    OBVIOUS
  <2>1. Top(s) = s[n]
    BY DEF Top
  <2>2. i = n \/ PRIO(s[i]) < PRIO(s[n])
    BY DEF StackFits
  <2>3. n \in 1 .. n
    OBVIOUS
  <2> QED
    BY SMTT(60), <1>2, <2>1, <2>2, <2>3
<1>4. n < PRIO(v)
  <2>1. CASE n = 0
    BY <2>1, <1>2
  <2>2. CASE n # 0
    BY <2>2, <1>1, <1>2, <1>3 DEF StackFits
  <2> QED
    BY <2>1, <2>2
<1>5. StackFits(r, is \cup {v})
  <2>1. ASSUME NEW i \in 1 .. Len(r), NEW j \in 1 .. Len(r), i < j
        PROVE  PRIO(r[i]) < PRIO(r[j])
    <3>1. i \in 1 .. n /\ (j \in 1 .. n \/ j = n + 1)
      BY <1>1, <2>1
    <3> QED
      BY <1>1, <1>3, <2>1, <3>1 DEF StackFits
  <2>2. ASSUME NEW i \in 1 .. Len(r) PROVE PRIO(r[i]) >= i
    <3>1. i \in 1 .. n \/ i = n + 1
      BY <1>1
    <3> QED
      BY <1>1, <1>2, <1>4, <3>1 DEF StackFits
  <2>3. is \cup {v} = {r[i] : i \in 1 .. Len(r)}
    <3>1. 1 .. Len(r) = (1 .. n) \cup {n + 1}
      BY <1>1
    <3> HIDE DEF r
    <3>2. {r[i] : i \in 1 .. Len(r)} = {r[i] : i \in 1 .. n} \cup {v}
      BY <1>1, <3>1
    <3>3. {r[i] : i \in 1 .. n} = {s[i] : i \in 1 .. n}
      BY <1>1
    <3> QED
      BY <3>2, <3>3 DEF StackFits
  <2> QED
    BY <2>1, <2>2, <2>3 DEF StackFits
<1>6. \A u \in is : PRIO(v) > PRIO(u)
  BY <1>3, <1>2 DEF StackFits
<1> QED
  BY <1>1, <1>2, <1>4, <1>5, <1>6 DEF ISRVEC_STK_SIZE

\* The EOI removes the highest vector in service, which is the innermost one.
LEMMA PopFits ==
  ASSUME NEW s \in Seq(Legal), NEW is, StackFits(s, is), is # {}
  PROVE  /\ s # << >>
         /\ SubSeq(s, 1, Len(s) - 1) \in Seq(Legal)
         /\ StackFits(SubSeq(s, 1, Len(s) - 1), is \ {Highest(is)})
<1> DEFINE n == Len(s)
           r == SubSeq(s, 1, n - 1)
<1>1. n \in Nat /\ n >= 1 /\ n \in 1 .. n /\ \A i \in 1 .. n : s[i] \in Legal
  BY DEF StackFits
<1>2. r \in Seq(Legal) /\ Len(r) = n - 1 /\ \A i \in 1 .. n - 1 : r[i] = s[i]
  <2> HIDE DEF n
  <2>1. 1 \in Int /\ n - 1 \in Int /\ \A i \in 1 .. n - 1 : s[i] \in Legal
    BY <1>1
  <2>2. /\ r \in Seq(Legal)
        /\ Len(r) = IF 1 <= n - 1 THEN (n - 1) - 1 + 1 ELSE 0
        /\ \A i \in 1 .. (n - 1) - 1 + 1 : r[i] = s[1 + i - 1]
    BY <2>1, SubSeqProperties
  <2> QED
    BY <1>1, <2>2
<1>3. /\ \A i \in 1 .. n : s[i] \in 16 .. 255 /\ s[i] <= s[n]
      /\ \A i \in 1 .. n - 1 : s[i] # s[n]
  <2>1. /\ \A i \in 1 .. n : s[i] \in 16 .. 255
        /\ \A i, j \in 1 .. n : i < j => s[i] # s[j]
        /\ \A i, j \in 1 .. n : i <= j => s[i] <= s[j]
    BY Ascending
  <2> HIDE DEF n
  <2>2. ASSUME NEW i \in 1 .. n PROVE s[i] \in 16 .. 255 /\ s[i] <= s[n]
    <3>1. i <= n
      BY <1>1
    <3> QED
      BY <1>1, <2>1, <3>1
  <2>3. ASSUME NEW i \in 1 .. n - 1 PROVE s[i] # s[n]
    <3>1. i \in 1 .. n /\ i < n
      BY <1>1
    <3> QED
      BY <1>1, <2>1, <3>1
  <2> QED
    BY <2>2, <2>3
<1>4. Highest(is) = s[n]
  <2>1. s[n] \in is /\ \A w \in is : w <= s[n] /\ w \in 16 .. 255
    BY SMTT(60), <1>1, <1>3 DEF StackFits
  <2> QED
    BY <2>1, HighestIs
<1>5. StackFits(r, is \ {s[n]})
  <2>1. \A i \in 1 .. n - 1 : i \in 1 .. n
    BY <1>1
  <2>2. \A i, j \in 1 .. n - 1 : i < j => PRIO(r[i]) < PRIO(r[j])
    BY <1>2, <2>1 DEF StackFits
  <2>3. \A i \in 1 .. n - 1 : PRIO(r[i]) >= i
    BY <1>2, <2>1 DEF StackFits
  <2>4. is \ {s[n]} = {r[i] : i \in 1 .. n - 1}
    <3>1. is = {s[i] : i \in 1 .. n - 1} \cup {s[n]}
      <4>1. 1 .. n = (1 .. n - 1) \cup {n}
        BY <1>1
      <4>2. is = {s[i] : i \in 1 .. n}
        BY DEF StackFits
      <4> HIDE DEF n
      <4> QED
        BY <4>1, <4>2
    <3>2. {r[i] : i \in 1 .. n - 1} = {s[i] : i \in 1 .. n - 1}
      BY <1>2
    <3> DEFINE below == {s[i] : i \in 1 .. n - 1}
               top == s[n]
    <3>3. top \notin below
      BY <1>3
    <3>4. is = below \cup {top} /\ {r[i] : i \in 1 .. n - 1} = below
      BY <3>1, <3>2
    <3> HIDE DEF below, top
    <3>5. is \ {top} = below
      BY <3>3, <3>4
    <3> QED
      BY <3>4, <3>5 DEF top
  <2>5. Len(r) = n - 1
    BY <1>2
  <2> HIDE DEF n, r
  <2> QED
    BY <2>2, <2>3, <2>4, <2>5 DEF StackFits
<1> QED
  BY <1>1, <1>2, <1>4, <1>5

-----------------------------------------------------------------------------
(* The invariant, by the state the actions change together.                *)

PrioPart ==
  /\ tpr \in 0 .. 255 /\ ppr \in 0 .. 255
  /\ irr \subseteq Legal /\ isr \subseteq Legal
  /\ stk \in Seq(Legal)
  /\ sel \in Legal \cup {0}
  /\ StackInv /\ SelInv /\ PprCurrent /\ NoApicAbort

LvtPart ==
  /\ enabled \in BOOLEAN
  /\ lvt \in [Lvts -> LvtValues]
  /\ fire \in LvtValues
  /\ DisabledMasksLvts

PinPart ==
  /\ esr \subseteq {"SEND_ILLEGAL_VECTOR"} /\ esrp \subseteq {"SEND_ILLEGAL_VECTOR"}
  /\ nmi \in BOOLEAN /\ extint \in BOOLEAN

BootPart ==
  /\ boot \in [Aps -> {"INIT", "SIPI", "RUNNING"}]
  /\ spun \in [Aps -> Nat]
  /\ BootInv

\* The parts make up the inductive invariant.
LEMMA Parts == IInv <=> PrioPart /\ LvtPart /\ PinPart /\ BootPart
BY DEF IInv, TypeOK, PrioPart, LvtPart, PinPart, BootPart, NoApicAbort

\* The same of the next state.
LEMMA PartsNext == PrioPart' /\ LvtPart' /\ PinPart' /\ BootPart' => IInv'
BY DEF IInv, TypeOK, PrioPart, LvtPart, PinPart, BootPart, NoApicAbort

\* A step that at most adds legal vectors to the IRR keeps the priorities'
\* part: interrupts that arrive do not disturb the one being injected.
LEMMA PrioKept ==
  ASSUME PrioPart, irr \subseteq irr', irr' \subseteq Legal,
         UNCHANGED <<tpr, ppr, isr, stk, sel, abort>>
  PROVE  PrioPart'
BY DEF PrioPart, StackInv, SelInv, PprCurrent, NoApicAbort

\* A step that leaves the LVT, SVR and pending firing alone keeps their part.
LEMMA LvtKept ==
  ASSUME LvtPart, UNCHANGED <<enabled, lvt, fire>> PROVE LvtPart'
BY DEF LvtPart, DisabledMasksLvts

\* A step that leaves the boot states alone keeps their part.
LEMMA BootKept ==
  ASSUME BootPart, UNCHANGED <<boot, spun>> PROVE BootPart'
BY DEF BootPart, BootInv

\* A step that leaves the errors and the NMI and INTR pins alone keeps their part.
LEMMA PinKept ==
  ASSUME PinPart, UNCHANGED <<errs, nmi, extint>> PROVE PinPart'
BY DEF PinPart, errs

\* An interrupt from elsewhere adds at most one vector to the IRR, a legal one.
LEMMA RaisedLegal ==
  ASSUME irr \subseteq Legal, NEW v \in Vectors \cup {0}
  PROVE  irr \subseteq Raised(v) /\ Raised(v) \subseteq Legal
BY DEF Raised, Legal

\* vlapic_update_ppr on a stack that fits stores the value it computes.
LEMMA UpdatePpr ==
  ASSUME NEW t \in 0 .. 255, NEW s \in Seq(Legal), NEW is, StackFits(s, is),
         vlapic_update_ppr(t, is, s)
  PROVE  ppr' = PprOf(t, s) /\ abort' = abort /\ ppr' \in 0 .. 255
BY ChecksPass, PprPrio DEF vlapic_update_ppr

-----------------------------------------------------------------------------
(* The steps.                                                              *)

\* A TPR write recomputes the PPR on a stack that fits.
LEMMA SetTpr ==
  ASSUME IInv, NEW t \in Tprs, vlapic_set_tpr(t) PROVE IInv'
<1>1. PrioPart /\ LvtPart /\ PinPart /\ BootPart
  BY Parts
<1>2. t \in 0 .. 255 /\ stk \in Seq(Legal) /\ StackFits(stk, isr)
  BY <1>1, TprsAssumption DEF PrioPart, StackInv
<1>3. ppr' = PprOf(t, stk) /\ abort' = abort /\ ppr' \in 0 .. 255
  BY <1>2, UpdatePpr DEF vlapic_set_tpr
<1>4. PrioPart'
  BY <1>1, <1>2, <1>3 DEF vlapic_set_tpr, PrioPart, StackInv, SelInv,
     PprCurrent, NoApicAbort
<1>5. LvtPart' /\ PinPart' /\ BootPart'
  BY <1>1, LvtKept, PinKept, BootKept DEF vlapic_set_tpr
<1> QED
  BY <1>4, <1>5, PartsNext

\* The vector vlapic_pending_intr returns is legal, pending and above the PPR.
LEMMA PendingIntr ==
  ASSUME IInv, vlapic_pending_intr PROVE IInv'
<1>1. PrioPart /\ LvtPart /\ PinPart /\ BootPart
  BY Parts
<1>2. sel' \in irr /\ sel' \in Legal /\ PRIO(sel') > PRIO(ppr)
  BY <1>1, HighestIn DEF vlapic_pending_intr, PrioPart
<1>3. PrioPart'
  BY <1>1, <1>2 DEF vlapic_pending_intr, PrioPart, StackInv, SelInv,
     PprCurrent, NoApicAbort
<1>4. LvtPart' /\ PinPart' /\ BootPart'
  BY <1>1, LvtKept, PinKept, BootKept DEF vlapic_pending_intr
<1> QED
  BY <1>3, <1>4, PartsNext

\* The vector that is accepted was read together with a PPR that is still
\* current; it goes above everything in service.
LEMMA Accepted ==
  ASSUME IInv, vlapic_intr_accepted
  PROVE  /\ IInv'
         /\ isr' = isr \cup {sel}
         /\ PRIO(sel) > PRIO(tpr)
         /\ \A u \in isr : PRIO(sel) > PRIO(u)
<1>1. PrioPart /\ LvtPart /\ PinPart /\ BootPart
  BY Parts
<1>2. /\ tpr \in 0 .. 255 /\ stk \in Seq(Legal) /\ StackFits(stk, isr)
      /\ sel \in Legal /\ PRIO(sel) > PRIO(ppr) /\ ppr = PprOf(tpr, stk)
  BY <1>1 DEF vlapic_intr_accepted, PrioPart, StackInv, SelInv, PprCurrent
<1>3. PRIO(sel) > PRIO(tpr) /\ PRIO(sel) > PRIO(Top(stk))
  <2>1. PRIO(ppr) >= PRIO(tpr) /\ PRIO(ppr) >= PRIO(Top(stk)) /\ ppr \in 0 .. 255
    BY <1>2, PprPrio
  <2>2. PRIO(sel) \in 1 .. 15
    BY <1>2, LegalPrio
  <2>3. PRIO(ppr) \in 0 .. 15 /\ PRIO(tpr) \in 0 .. 15
    BY <1>2, <2>1, PrioInt
  <2>4. PRIO(Top(stk)) \in 0 .. 15
    BY <1>2, PrioInt, TopType
  <2> DEFINE ps == PRIO(sel)
             pp == PRIO(ppr)
             pt == PRIO(tpr)
             pi == PRIO(Top(stk))
  <2>5. /\ ps \in 1 .. 15 /\ pp \in 0 .. 15 /\ pt \in 0 .. 15 /\ pi \in 0 .. 15
        /\ ps > pp /\ pp >= pt /\ pp >= pi
    BY <1>2, <2>1, <2>2, <2>3, <2>4
  <2> HIDE DEF ps, pp, pt, pi
  <2>6. ps > pt /\ ps > pi
    BY <2>5
  <2> QED
    BY <2>6 DEF ps, pt, pi
<1>4. /\ Append(stk, sel) \in Seq(Legal)
      /\ StackFits(Append(stk, sel), isr \cup {sel})
      /\ Len(stk) + 1 < ISRVEC_STK_SIZE
      /\ \A u \in isr : PRIO(sel) > PRIO(u)
  BY <1>2, <1>3, PushFits
<1>5. /\ stk' = Append(stk, sel) /\ isr' = isr \cup {sel}
      /\ vlapic_update_ppr(tpr, isr \cup {sel}, Append(stk, sel))
  <2>1. ~(Len(stk) + 1 >= ISRVEC_STK_SIZE)
    BY <1>2, <1>4 DEF ISRVEC_STK_SIZE
  <2> QED
    BY <2>1 DEF vlapic_intr_accepted
<1>6. ppr' = PprOf(tpr, stk') /\ abort' = abort /\ ppr' \in 0 .. 255
  BY <1>2, <1>4, <1>5, UpdatePpr
<1>7. PrioPart'
  BY <1>1, <1>2, <1>4, <1>5, <1>6 DEF vlapic_intr_accepted, PrioPart,
     StackInv, SelInv, PprCurrent, NoApicAbort
<1>8. LvtPart' /\ PinPart' /\ BootPart'
  BY <1>1, LvtKept, PinKept, BootKept DEF vlapic_intr_accepted
<1> QED
  BY <1>3, <1>4, <1>5, <1>7, <1>8, PartsNext

\* An EOI pops the innermost vector and takes the same one out of the ISR.
LEMMA ProcessEoi ==
  ASSUME IInv, vlapic_process_eoi PROVE IInv' /\ isr' \subseteq isr
<1>1. PrioPart /\ LvtPart /\ PinPart /\ BootPart
  BY Parts
<1>2. /\ tpr \in 0 .. 255 /\ stk \in Seq(Legal) /\ StackFits(stk, isr)
      /\ isr # {} /\ isr \subseteq Legal
  BY <1>1 DEF vlapic_process_eoi, PrioPart, StackInv
<1> DEFINE r == SubSeq(stk, 1, Len(stk) - 1)
           is == isr \ {Highest(isr)}
<1>3. stk # << >> /\ r \in Seq(Legal) /\ StackFits(r, is)
  BY <1>2, PopFits
<1>4. stk' = r /\ isr' = is /\ vlapic_update_ppr(tpr, is, r)
  BY <1>3 DEF vlapic_process_eoi
<1> HIDE DEF r
<1>5. ppr' = PprOf(tpr, r) /\ abort' = abort /\ ppr' \in 0 .. 255
  BY <1>2, <1>3, <1>4, UpdatePpr
<1>6. PrioPart'
  BY <1>1, <1>2, <1>3, <1>4, <1>5 DEF vlapic_process_eoi, PrioPart,
     StackInv, SelInv, PprCurrent, NoApicAbort
<1>7. LvtPart' /\ PinPart' /\ BootPart'
  BY <1>1, LvtKept, PinKept, BootKept DEF vlapic_process_eoi
<1> QED
  BY <1>4, <1>6, <1>7, PartsNext

\* A vector that is not injected after all stays in the IRR.
LEMMA NotInjectedKept ==
  ASSUME IInv, NotInjected PROVE IInv'
<1>1. PrioPart /\ LvtPart /\ PinPart /\ BootPart
  BY Parts
<1>2. PrioPart'
  BY <1>1 DEF NotInjected, PrioPart, StackInv, SelInv, PprCurrent, NoApicAbort
<1>3. LvtPart' /\ PinPart' /\ BootPart'
  BY <1>1, LvtKept, PinKept, BootKept DEF NotInjected
<1> QED
  BY <1>2, <1>3, PartsNext

\* An interrupt from another thread arrives, at any time.
LEMMA SetIntr ==
  ASSUME IInv, NEW v \in Vectors, lapic_set_intr(v) PROVE IInv'
<1>1. PrioPart /\ LvtPart /\ PinPart /\ BootPart
  BY Parts
<1>2. irr \subseteq irr' /\ irr' \subseteq Legal
  BY <1>1, RaisedLegal DEF lapic_set_intr, PrioPart
<1>3. PrioPart' /\ LvtPart' /\ PinPart' /\ BootPart'
  BY <1>1, <1>2, PrioKept, LvtKept, PinKept, BootKept DEF lapic_set_intr
<1> QED
  BY <1>3, PartsNext

\* The LVT entries, whatever the order of SVR and LVT writes.
LEMMA LvtWrite ==
  ASSUME IInv, NEW l \in Lvts, NEW val \in LvtWrites,
         vlapic_lvt_write_handler(l, val)
  PROVE  IInv'
<1>1. PrioPart /\ LvtPart /\ PinPart /\ BootPart
  BY Parts
<1>2. LvtWritten(l, val) \in LvtValues /\ (~enabled => LvtWritten(l, val).m)
  <2>1. val \in LvtValues /\ enabled \in BOOLEAN
    BY <1>1, LvtWritesAssumption DEF LvtPart
  <2> QED
    BY <2>1 DEF LvtWritten, LvtValues, Modes
<1> DEFINE w == LvtWritten(l, val)
<1>3. w \in LvtValues /\ (~enabled => w.m)
  BY <1>2
<1>4. /\ lvt' = [lvt EXCEPT ![l] = w]
      /\ UNCHANGED <<enabled, prio, errs, fire, nmi, extint, boot, spun, abort>>
  BY DEF vlapic_lvt_write_handler
<1> HIDE DEF w
<1>5. LvtPart'
  BY <1>1, <1>3, <1>4 DEF LvtPart, DisabledMasksLvts
<1>6. PrioPart' /\ PinPart' /\ BootPart'
  BY <1>1, <1>4, PrioKept, PinKept, BootKept DEF prio, PrioPart
<1> QED
  BY <1>5, <1>6, PartsNext

\* The software enable bit and the masking of the LVT change together.
LEMMA SvrWrite ==
  ASSUME IInv, vlapic_svr_write_handler PROVE IInv'
<1>1. PrioPart /\ LvtPart /\ PinPart /\ BootPart
  BY Parts
<1>2. LvtPart'
  <2>1. \A l \in Lvts : [lvt[l] EXCEPT !.m = TRUE] \in LvtValues
                        /\ [lvt[l] EXCEPT !.m = TRUE].m
    BY <1>1 DEF LvtPart, LvtValues
  <2>2. lvt' \in [Lvts -> LvtValues]
    BY <1>1, <2>1 DEF vlapic_svr_write_handler, LvtPart
  <2>3. ~enabled' => \A l \in Lvts : lvt'[l].m
    BY <1>1, <2>1 DEF vlapic_svr_write_handler, LvtPart
  <2> QED
    BY <1>1, <2>2, <2>3 DEF vlapic_svr_write_handler, LvtPart, DisabledMasksLvts
<1>3. PrioPart' /\ PinPart' /\ BootPart'
  BY <1>1, PrioKept, PinKept, BootKept DEF vlapic_svr_write_handler, prio, PrioPart
<1> QED
  BY <1>2, <1>3, PartsNext

\* Recording an error touches the IRR and the pending errors only.
LEMMA SetError ==
  ASSUME PrioPart, LvtPart, PinPart, vlapic_set_error("SEND_ILLEGAL_VECTOR")
  PROVE  /\ irr \subseteq irr' /\ irr' \subseteq Legal
         /\ esrp' \subseteq {"SEND_ILLEGAL_VECTOR"}
<1>1. lvt["ERROR"].vec \in Vectors \cup {0}
  BY LvtsAssumption DEF LvtPart, LvtValues
<1>2. irr \subseteq Raised(lvt["ERROR"].vec) /\ Raised(lvt["ERROR"].vec) \subseteq Legal
  BY <1>1, RaisedLegal DEF PrioPart
<1> QED
  BY <1>2 DEF vlapic_set_error, PinPart, PrioPart

\* A thread reads an LVT entry, or drives a pin of a disabled APIC.
LEMMA TriggerLvt ==
  ASSUME IInv, NEW l \in Lvts, vlapic_trigger_lvt(l) PROVE IInv'
<1>1. PrioPart /\ LvtPart /\ PinPart /\ BootPart
  BY Parts
<1>2. NoLvt \in LvtValues
  BY DEF NoLvt, LvtValues, Modes
<1>3. LvtPart'
  BY <1>1, <1>2 DEF vlapic_trigger_lvt, LvtPart, DisabledMasksLvts
<1>4. PinPart'
  BY <1>1 DEF vlapic_trigger_lvt, PinPart, errs
<1>5. PrioPart' /\ BootPart'
  BY <1>1, PrioKept, BootKept DEF vlapic_trigger_lvt, prio, PrioPart
<1> QED
  BY <1>3, <1>4, <1>5, PartsNext

\* A thread uses the LVT value it has read, which may be old by now.
LEMMA FireLvt ==
  ASSUME IInv, vlapic_fire_lvt PROVE IInv'
<1>1. PrioPart /\ LvtPart /\ PinPart /\ BootPart
  BY Parts
<1>2. NoLvt \in LvtValues /\ fire.vec \in Vectors \cup {0}
  BY <1>1 DEF NoLvt, LvtValues, Modes, LvtPart
<1>3. irr \subseteq irr' /\ irr' \subseteq Legal /\ esrp' \subseteq {"SEND_ILLEGAL_VECTOR"}
  BY <1>1, <1>2, SetError, RaisedLegal DEF vlapic_fire_lvt, PrioPart, PinPart
<1>4. nmi' \in BOOLEAN /\ extint' \in BOOLEAN
  BY <1>1 DEF vlapic_fire_lvt, PinPart
<1>5. PinPart'
  BY <1>1, <1>3, <1>4 DEF vlapic_fire_lvt, PinPart
<1>6. LvtPart'
  BY <1>1, <1>2 DEF vlapic_fire_lvt, LvtPart, DisabledMasksLvts
<1>7. PrioPart' /\ BootPart'
  BY <1>1, <1>3, PrioKept, BootKept DEF vlapic_fire_lvt
<1> QED
  BY <1>5, <1>6, <1>7, PartsNext

\* The ESR write latches the pending errors.
LEMMA EsrWrite ==
  ASSUME IInv, vlapic_esr_write_handler PROVE IInv'
<1>1. PrioPart /\ LvtPart /\ PinPart /\ BootPart
  BY Parts
<1>2. PinPart'
  BY <1>1 DEF vlapic_esr_write_handler, PinPart
<1>3. PrioPart' /\ LvtPart' /\ BootPart'
  BY <1>1, PrioKept, LvtKept, BootKept DEF vlapic_esr_write_handler, prio, PrioPart
<1> QED
  BY <1>2, <1>3, PartsNext

\* The injection of an NMI or of an interrupt of the 8259.
LEMMA PinsCleared ==
  ASSUME IInv, vm_nmi_clear \/ vm_extint_clear PROVE IInv'
<1>1. PrioPart /\ LvtPart /\ PinPart /\ BootPart
  BY Parts
<1>2. PinPart'
  BY <1>1 DEF vm_nmi_clear, vm_extint_clear, PinPart, errs
<1>3. PrioPart' /\ LvtPart' /\ BootPart'
  BY <1>1, PrioKept, LvtKept, BootKept
     DEF vm_nmi_clear, vm_extint_clear, prio, PrioPart
<1> QED
  BY <1>2, <1>3, PartsNext

\* An IPI to the vcpu itself.
LEMMA SelfIpi ==
  ASSUME IInv, NEW m \in {"FIXED", "NMI"}, NEW v \in Vectors, IcrSelf(m, v)
  PROVE  IInv'
<1>1. PrioPart /\ LvtPart /\ PinPart /\ BootPart
  BY Parts
<1>2. irr \subseteq irr' /\ irr' \subseteq Legal /\ esrp' \subseteq {"SEND_ILLEGAL_VECTOR"}
  BY <1>1, SetError, RaisedLegal DEF IcrSelf, PrioPart, PinPart
<1>3. nmi' \in BOOLEAN
  BY <1>1 DEF IcrSelf, PinPart
<1>4. PinPart'
  BY <1>1, <1>2, <1>3 DEF IcrSelf, PinPart
<1>5. PrioPart' /\ LvtPart' /\ BootPart'
  BY <1>1, <1>2, PrioKept, LvtKept, BootKept DEF IcrSelf
<1> QED
  BY <1>4, <1>5, PartsNext

\* INIT and SIPI: the boot state of an AP only advances, and the step to
\* RUNNING is the one that starts it.
LEMMA StartAp ==
  ASSUME IInv, NEW a \in Aps, IcrInit(a) \/ IcrStartup(a) PROVE IInv'
<1>1. PrioPart /\ LvtPart /\ PinPart /\ BootPart
  BY Parts
<1>2. CASE IcrInit(a)
  <2>1. BootPart'
    BY <1>1, <1>2 DEF IcrInit, BootPart, BootInv
  <2>2. PrioPart' /\ LvtPart' /\ PinPart'
    BY <1>1, <1>2, PrioKept, LvtKept, PinKept DEF IcrInit, prio, PrioPart
  <2> QED
    BY <2>1, <2>2, PartsNext
<1>3. CASE IcrStartup(a)
  <2>1. BootPart'
    BY <1>1, <1>3 DEF IcrStartup, BootPart, BootInv
  <2>2. PrioPart' /\ LvtPart' /\ PinPart'
    BY <1>1, <1>3, PrioKept, LvtKept, PinKept DEF IcrStartup, prio, PrioPart
  <2> QED
    BY <2>1, <2>2, PartsNext
<1> QED
  BY <1>2, <1>3

\* The reset state satisfies the invariant.
LEMMA InitInv == Init => IInv
<1> SUFFICES ASSUME Init PROVE IInv
  OBVIOUS
<1>1. PprOf(0, << >>) = 0
  BY DEF PprOf, Top, PRIO
<1>2. << >> \in Seq(Legal) /\ StackFits(<< >>, {})
  BY DEF StackFits
<1>3. PrioPart
  BY <1>1, <1>2 DEF Init, PrioPart, StackInv, SelInv, PprCurrent, NoApicAbort
<1>4. NoLvt \in LvtValues /\ NoLvt.m
  BY DEF NoLvt, LvtValues, Modes
<1>5. LvtPart
  BY <1>4 DEF Init, LvtPart, DisabledMasksLvts
<1>6. PinPart
  BY DEF Init, PinPart
<1>7. \A a \in Aps : spun[a] = 0
  BY DEF Init
<1>8. BootPart
  BY <1>7 DEF Init, BootPart, BootInv
<1> QED
  BY <1>3, <1>5, <1>6, <1>8, Parts

\* So does a stuttering step.
LEMMA StutterInv ==
  ASSUME IInv, UNCHANGED vars PROVE IInv'
<1>1. PrioPart /\ LvtPart /\ PinPart /\ BootPart
  BY Parts
<1>2. PrioPart' /\ LvtPart' /\ PinPart' /\ BootPart'
  BY <1>1, PrioKept, LvtKept, PinKept, BootKept DEF vars, prio, PrioPart
<1> QED
  BY <1>2, PartsNext

\* Every step of the specification preserves the invariant.
LEMMA NextInv == IInv /\ [Next]_vars => IInv'
<1> SUFFICES ASSUME IInv, [Next]_vars PROVE IInv'
  OBVIOUS
<1>1. CASE GuestWrite
  BY <1>1, SetTpr, ProcessEoi, SvrWrite, LvtWrite, EsrWrite, SelfIpi, StartAp
     DEF GuestWrite
<1>2. CASE Inject
  BY <1>2, PendingIntr, Accepted, NotInjectedKept, PinsCleared DEF Inject
<1>3. CASE Others
  BY <1>3, SetIntr, TriggerLvt, FireLvt DEF Others
<1>4. CASE UNCHANGED vars
  BY <1>4, StutterInv
<1> QED
  BY <1>1, <1>2, <1>3, <1>4 DEF Next

\* Every behaviour of the local APIC satisfies the inductive invariant.
THEOREM Invariance == Spec => []IInv
BY InitInv, NextInv, PTL DEF Spec

-----------------------------------------------------------------------------
(* The theorems.                                                           *)

\* Type correctness: in particular a vector below 16 is never pending, in
\* service or chosen for injection.
THEOREM TypeCorrect == Spec => []TypeOK
<1>1. IInv => TypeOK
  BY DEF IInv
<1> QED
  BY <1>1, Invariance, PTL

\* No self-check of vlapic.c is reached: the ISR and its stack agree, nested
\* vectors increase in priority, and the stack does not overflow.
THEOREM SelfChecksHold == Spec => []NoApicAbort
<1>1. IInv => NoApicAbort
  BY DEF IInv
<1> QED
  BY <1>1, Invariance, PTL

\* The PPR is the one vlapic_update_ppr would compute.
THEOREM PprIsCurrent == Spec => []PprCurrent
<1>1. IInv => PprCurrent
  BY DEF IInv
<1> QED
  BY <1>1, Invariance, PTL

\* A disabled local APIC has every LVT entry masked.
THEOREM DisabledIsMasked == Spec => []DisabledMasksLvts
<1>1. IInv => DisabledMasksLvts
  BY DEF IInv
<1> QED
  BY <1>1, Invariance, PTL

\* An application processor is handed to userland once.
THEOREM StartedOnce == Spec => []SpinsUpOnce
<1>1. IInv => SpinsUpOnce
  BY DEF IInv, TypeOK, BootInv, SpinsUpOnce
<1> QED
  BY <1>1, Invariance, PTL

\* The ISR grows by accepted vectors only.
LEMMA OnlyAcceptAdds ==
  ASSUME IInv, [Next]_vars, ~vlapic_intr_accepted PROVE isr' \subseteq isr
<1>1. CASE GuestWrite
  BY <1>1, ProcessEoi
     DEF GuestWrite, vlapic_set_tpr, vlapic_svr_write_handler,
         vlapic_lvt_write_handler, vlapic_esr_write_handler, IcrSelf, IcrInit,
         IcrStartup, prio
<1>2. CASE Inject
  BY <1>2 DEF Inject, vlapic_pending_intr, NotInjected, vm_nmi_clear,
     vm_extint_clear, prio
<1>3. CASE Others
  BY <1>3 DEF Others, lapic_set_intr, vlapic_trigger_lvt, vlapic_fire_lvt, prio
<1>4. CASE UNCHANGED vars
  BY <1>4 DEF vars, prio
<1> QED
  BY <1>1, <1>2, <1>3, <1>4 DEF Next

\* A vector goes in service only above the TPR and everything in service.
THEOREM AcceptedByPriority == Spec => AcceptsByPriority
<1> DEFINE A == \A v \in isr' \ isr :
                   /\ PRIO(v) > PRIO(tpr)
                   /\ \A u \in isr : PRIO(v) > PRIO(u)
<1>1. IInv /\ [Next]_vars => A
  <2> SUFFICES ASSUME IInv, [Next]_vars PROVE A
    OBVIOUS
  <2>1. CASE vlapic_intr_accepted
    <3>1. isr' \ isr \subseteq {sel}
      BY <2>1, Accepted
    <3> QED
      BY <2>1, <3>1, Accepted
  <2>2. CASE ~vlapic_intr_accepted
    BY <2>2, OnlyAcceptAdds
  <2> QED
    BY <2>1, <2>2
<1>2. IInv /\ [Next]_vars => [A]_vars
  BY <1>1
<1> QED
  BY <1>2, Invariance, PTL DEF Spec, AcceptsByPriority
=============================================================================
