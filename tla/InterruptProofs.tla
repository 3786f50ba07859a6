-------------------------- MODULE InterruptProofs --------------------------
(***************************************************************************)
(* Proofs about the I/O APIC, event injection, the 8259s and the INTx      *)
(* lines of PCI devices.                                                   *)
(*                                                                         *)
(* I/O APIC, for every number of vcpus, every set of pins and vectors, all *)
(* destinations and every bound on the assertions:                         *)
(*                                                                         *)
(* - whatever the guest writes, a line that stays asserted is not          *)
(*   forgotten (AssertedNotForgotten is inductive with TypeOK);            *)
(* - for a guest that changes its entries while they are masked, a remote  *)
(*   IRR that is set will be cleared by an EOI: the vector is held by a    *)
(*   vcpu of the pin's destination (Held), whose trigger-mode register     *)
(*   says level (TmrCurrent), since an entry is unmasked only after the    *)
(*   rendezvous of its write has reached every vcpu it names (OneWriter,   *)
(*   WriteMasked, DestLive).                                               *)
(*                                                                         *)
(* Event injection: whatever the guest, the other threads and the          *)
(* processor do, no event is lost between its pending flag and its         *)
(* handler, no KASSERT on the way fails and every VM entry passes the      *)
(* processor's checks of the injected event.  The inductive invariant      *)
(* InjectInv says at which places of vmx_run the three holders of an event *)
(* (the VM-entry field, exitintinfo and the pending exception) can be in   *)
(* use together, that a held event stays deliverable (StillLegal), and     *)
(* what each part of vmx_inject_interrupts has seen to (NmiSeen,           *)
(* IntrSeen).                                                              *)
(*                                                                         *)
(* The 8259s, for every wiring and all modes: no eligible request waits    *)
(* for the next event, a raised interrupt has its ExtINT on the way, and   *)
(* service nests.  Every step but ICWs and polls ends in                   *)
(* vatpic_notify_intr, which re-evaluates both chips (NotifiedIs); PicInv  *)
(* adds that a chip not yet initialised has no requests (Unready) and that *)
(* what was reported to the vcpu may still go in service when it is        *)
(* accepted, after whatever the devices did in between (Reported).         *)
(*                                                                         *)
(* INTx, for every number of devices, slots, pins and PIRQs: each shared   *)
(* line is asserted by exactly the devices that want it (LinesMatch).      *)
(***************************************************************************)
EXTENDS Vioapic, Inject, Vatpic, PciIntx, FiniteSetTheorems, WellFoundedInduction, TLAPS

-----------------------------------------------------------------------------
(* Vcpus and destinations.                                                 *)

\* No vcpu is NoCpu, and vcpus are natural numbers.
LEMMA CpuNumbers ==
  ASSUME IoConstantsOK
  PROVE  NoCpu \notin Cpus /\ Cpus \subseteq Nat /\ 0 \in Cpus
BY DEF IoConstantsOK

\* A nonempty set of numbers, of vcpus say, has a least one.
LEMMA LeastNumber ==
  ASSUME NEW S \in SUBSET Nat, S # {}
  PROVE  \E m \in S : \A k \in S : m <= k
<1> DEFINE R == OpToRel(<, Nat)
<1>1. IsWellFoundedOn(R, Nat)
  BY NatLessThanWellFounded
<1>2. \E x \in S : \A y \in S : ~(<<y, x>> \in R)
  <2> HIDE DEF R
  <2> QED
    BY <1>1, WFMin
<1>3. PICK m \in S : \A k \in S : ~(<<k, m>> \in R)
  BY <1>2
<1>4. \A k \in S : ~(k < m)
  BY <1>3 DEF OpToRel
<1>5. \A k \in S : k \in Nat /\ m \in Nat
  OBVIOUS
<1>6. \A k \in S : m <= k
  BY <1>4, <1>5
<1> QED
  BY <1>6

\* The highest of some vectors is one of them.
LEMMA HighestIn ==
  ASSUME IoConstantsOK, NEW S \in SUBSET IoVectors, S # {}
  PROVE  Highest(S) \in S
<1> DEFINE T == {255 - w : w \in S}
<1>1. \A w \in S : w \in 16 .. 255
  BY DEF IoConstantsOK
<1>2. T \in SUBSET Nat /\ T # {}
  BY <1>1
<1>3. \E m \in T : \A k \in T : m <= k
  <2> HIDE DEF T
  <2> QED
    BY <1>2, LeastNumber
<1>4. PICK v \in S : \A k \in T : 255 - v <= k
  BY <1>3
<1>5. \A w \in S : w <= v
  <2> SUFFICES ASSUME NEW w \in S PROVE w <= v
    OBVIOUS
  <2>1. 255 - v <= 255 - w
    BY <1>4
  <2>2. w \in 16 .. 255 /\ v \in 16 .. 255
    BY <1>1
  <2> QED
    BY <2>1, <2>2
<1> QED
  BY <1>5 DEF Highest

\* A destination whose vcpus are active names at least one of them.
LEMMA DestNonempty ==
  ASSUME IoConstantsOK, NEW d, d.ids \subseteq active, d.ids # {}, d.ids \subseteq Cpus
  PROVE  vlapic_calcdest(d) \subseteq d.ids /\ vlapic_calcdest(d) # {}
<1>1. d.ids \in SUBSET Nat
  BY CpuNumbers
<1>2. PICK m \in d.ids : \A k \in d.ids : m <= k
  BY <1>1, LeastNumber
<1>3. d.ids \cap active = d.ids
  OBVIOUS
<1>4. m \in LowestId(d.ids) /\ LowestId(d.ids) \subseteq d.ids
  BY <1>2 DEF LowestId
<1> QED
  BY <1>3, <1>4 DEF vlapic_calcdest

\* The vcpus of an entry's destination.
LEMMA DestCpus ==
  ASSUME IoConstantsOK, NEW e \in Entries \cup {Entry0}
  PROVE  e.dest.ids \subseteq Cpus /\ vlapic_calcdest(e.dest) \subseteq Cpus
<1>1. e.dest.ids \subseteq Cpus
  BY CpuNumbers DEF Entries, Entry0, Dest0, IoConstantsOK
<1>2. vlapic_calcdest(e.dest) \subseteq e.dest.ids
  BY DEF vlapic_calcdest, LowestId
<1> QED
  BY <1>1, <1>2

-----------------------------------------------------------------------------
(* Sending.                                                                *)

\* What vioapic_send_intr does: IRRs only grow, by vectors of entries that
\* are not masked, and the remote IRR of a level pin is set.
LEMMA SendEffect ==
  ASSUME IoTypeOK, NEW r \in [Pins -> Entries \cup {Entry0}], NEW S \in SUBSET Pins,
         NEW rm \in SUBSET Pins, vioapic_send_intr(S, r, rm)
  PROVE  /\ ioirr' \in [Cpus -> SUBSET IoVectors]
         /\ rem' \in SUBSET Pins
         /\ rem' = rm \cup {p \in S : ~r[p].masked /\ r[p].level}
         /\ \A c \in Cpus : ioirr[c] \subseteq ioirr'[c]
         /\ \A p \in S : ~r[p].masked =>
              \A c \in Cpus : c \in vlapic_calcdest(r[p].dest) \cap ioenabled
                                => r[p].vec \in ioirr'[c]
<1> DEFINE U == {p \in S : ~r[p].masked}
           T(c) == {q \in U : c \in vlapic_calcdest(r[q].dest) \cap ioenabled}
<1>1. /\ rem' = rm \cup {p \in U : r[p].level}
      /\ ioirr' = [c \in Cpus |-> ioirr[c] \cup {r[p].vec : p \in T(c)}]
  BY DEF vioapic_send_intr, Deliver
<1>2. \A p \in U : p \in Pins /\ r[p] \in Entries
  BY DEF Entry0
<1>3. \A p \in U : r[p].vec \in IoVectors
  BY <1>2 DEF Entries
<1>4. ASSUME NEW c \in Cpus
      PROVE  /\ {r[p].vec : p \in T(c)} \subseteq IoVectors
             /\ ioirr'[c] = ioirr[c] \cup {r[p].vec : p \in T(c)}
  BY <1>1, <1>3
<1>5. ioirr' \in [Cpus -> SUBSET IoVectors]
  <2>1. \A c \in Cpus : ioirr[c] \cup {r[p].vec : p \in T(c)} \in SUBSET IoVectors
    BY <1>4 DEF IoTypeOK
  <2> QED
    BY <2>1, <1>1
<1>6. \A p \in S : ~r[p].masked =>
        \A c \in Cpus : c \in vlapic_calcdest(r[p].dest) \cap ioenabled
                          => r[p].vec \in ioirr'[c]
  BY <1>4
<1>7. rem' = rm \cup {p \in S : ~r[p].masked /\ r[p].level}
  BY <1>1
<1> QED
  BY <1>4, <1>5, <1>6, <1>7

\* A write of a pin's entry ends with sending the pin if it is asserted.
LEMMA SendIfAssertedEffect ==
  ASSUME IoTypeOK, NEW p \in Pins, rte' \in [Pins -> Entries \cup {Entry0}], SendIfAsserted(p)
  PROVE  /\ ioirr' \in [Cpus -> SUBSET IoVectors]
         /\ rem \subseteq rem' /\ rem' \subseteq rem \cup {p}
         /\ \A c \in Cpus : ioirr[c] \subseteq ioirr'[c]
         /\ (acnt[p] > 0 /\ ~rte'[p].masked /\ rte'[p].level) => p \in rem'
         /\ p \in rem' \ rem =>
              /\ rte'[p].level /\ ~rte'[p].masked
              /\ \A c \in Cpus : c \in vlapic_calcdest(rte'[p].dest) \cap ioenabled
                                   => rte'[p].vec \in ioirr'[c]
<1>1. CASE ~rte'[p].masked /\ p \notin rem /\ acnt[p] > 0
  <2>1. vioapic_send_intr({p}, rte', rem)
    BY <1>1 DEF SendIfAsserted
  <2>2. {p} \in SUBSET Pins /\ rem \in SUBSET Pins
    BY DEF IoTypeOK
  <2>3. /\ ioirr' \in [Cpus -> SUBSET IoVectors]
        /\ rem' = rem \cup {q \in {p} : ~rte'[q].masked /\ rte'[q].level}
        /\ \A c \in Cpus : ioirr[c] \subseteq ioirr'[c]
        /\ \A q \in {p} : ~rte'[q].masked =>
             \A c \in Cpus : c \in vlapic_calcdest(rte'[q].dest) \cap ioenabled
                               => rte'[q].vec \in ioirr'[c]
    BY <2>1, <2>2, SendEffect
  <2> QED
    BY <1>1, <2>3
<1>2. CASE ~(~rte'[p].masked /\ p \notin rem /\ acnt[p] > 0)
  <2>1. UNCHANGED <<rem, ioirr>>
    BY <1>2 DEF SendIfAsserted
  <2> QED
    BY <1>2, <2>1 DEF IoTypeOK
<1> QED
  BY <1>1, <1>2

\* An EOI: a pin that waits for the vector loses its remote IRR or is sent.
LEMMA EoiEffect ==
  ASSUME IoTypeOK, NEW v, vioapic_process_eoi(v)
  PROVE  /\ ioirr' \in [Cpus -> SUBSET IoVectors]
         /\ rem' \subseteq rem
         /\ \A c \in Cpus : ioirr[c] \subseteq ioirr'[c]
         /\ \A p \in rem : rte[p].vec # v => p \in rem'
         /\ \A p \in rem : (acnt[p] > 0 /\ ~rte[p].masked /\ rte[p].level) => p \in rem'
         /\ \A p \in rem' : rte[p].vec = v =>
              \A c \in Cpus : c \in vlapic_calcdest(rte[p].dest) \cap ioenabled => v \in ioirr'[c]
<1> DEFINE S == {p \in rem : rte[p].vec = v}
           A == {p \in S : acnt[p] > 0}
<1>1. vioapic_send_intr(A, rte, rem \ S)
  BY DEF vioapic_process_eoi
<1>2. /\ rte \in [Pins -> Entries \cup {Entry0}] /\ A \in SUBSET Pins
      /\ rem \ S \in SUBSET Pins
  BY DEF IoTypeOK
<1>3. /\ ioirr' \in [Cpus -> SUBSET IoVectors]
      /\ rem' = (rem \ S) \cup {p \in A : ~rte[p].masked /\ rte[p].level}
      /\ \A c \in Cpus : ioirr[c] \subseteq ioirr'[c]
      /\ \A p \in A : ~rte[p].masked =>
           \A c \in Cpus : c \in vlapic_calcdest(rte[p].dest) \cap ioenabled
                             => rte[p].vec \in ioirr'[c]
  <2> HIDE DEF S, A
  <2> QED
    BY <1>1, <1>2, SendEffect
<1>4. \A p \in rem' : rte[p].vec = v => p \in A /\ ~rte[p].masked
  BY <1>3
<1>5. \A p \in rem' : rte[p].vec = v =>
        \A c \in Cpus : c \in vlapic_calcdest(rte[p].dest) \cap ioenabled => v \in ioirr'[c]
  BY <1>3, <1>4
<1> QED
  BY <1>3, <1>5

-----------------------------------------------------------------------------
(* Any guest.                                                              *)

IoInv == IoTypeOK /\ AssertedNotForgotten

\* The I/O APIC after vioapic_init.
LEMMA InitIo ==
  ASSUME IoConstantsOK, IoInit
  PROVE  IoInv
<1>1. 0 \in Cpus
  BY CpuNumbers
<1> QED
  BY <1>1 DEF IoInit, IoInv, IoTypeOK, AssertedNotForgotten, IoConstantsOK, Entry0

\* Every step keeps the types and the remote IRR of asserted pins.
LEMMA NextIo ==
  ASSUME IoConstantsOK, IoInv, [IoNext]_iovars
  PROVE  IoInv'
<1> USE DEF IoInv
<1>0. Cpus \subseteq Nat /\ MaxAcnt \in Nat
  BY CpuNumbers DEF IoConstantsOK
<1>1. ASSUME NEW p \in Pins, vioapic_assert_irq(p) PROVE IoInv'
  <2>1. acnt' \in [Pins -> 0 .. MaxAcnt]
    BY <1>0, <1>1 DEF vioapic_assert_irq, IoTypeOK
  <2>2. CASE acnt[p] = 0
    <3>1. vioapic_send_intr({p}, rte, rem)
      BY <1>1, <2>2 DEF vioapic_assert_irq
    <3>2. rte \in [Pins -> Entries \cup {Entry0}] /\ {p} \in SUBSET Pins /\ rem \in SUBSET Pins
      BY DEF IoTypeOK
    <3>3. /\ ioirr' \in [Cpus -> SUBSET IoVectors] /\ rem' \in SUBSET Pins
          /\ rem' = rem \cup {q \in {p} : ~rte[q].masked /\ rte[q].level}
      BY <3>1, <3>2, SendEffect
    <3>4. IoTypeOK'
      BY <1>1, <2>1, <3>3 DEF IoTypeOK, vioapic_assert_irq, writes
    <3>5. AssertedNotForgotten'
      BY <1>1, <3>3 DEF IoTypeOK, AssertedNotForgotten, vioapic_assert_irq, writes
    <3> QED
      BY <3>4, <3>5
  <2>3. CASE acnt[p] # 0
    <3>1. UNCHANGED <<rem, ioirr>>
      BY <1>1, <2>3 DEF vioapic_assert_irq
    <3>2. IoTypeOK'
      BY <1>1, <2>1, <3>1 DEF IoTypeOK, vioapic_assert_irq, writes
    <3>3. AssertedNotForgotten'
      BY <1>1, <2>3, <3>1 DEF IoTypeOK, AssertedNotForgotten, vioapic_assert_irq, writes
    <3> QED
      BY <3>2, <3>3
  <2> QED
    BY <2>2, <2>3
<1>2. ASSUME NEW p \in Pins, vioapic_deassert_irq(p) PROVE IoInv'
  <2>1. acnt' \in [Pins -> 0 .. MaxAcnt] /\ \A q \in Pins : acnt'[q] > 0 => acnt[q] > 0
    BY <1>0, <1>2 DEF vioapic_deassert_irq, IoTypeOK
  <2>2. IoTypeOK'
    BY <1>2, <2>1 DEF IoTypeOK, vioapic_deassert_irq, writes, lapics
  <2>3. AssertedNotForgotten'
    BY <1>2, <2>1 DEF AssertedNotForgotten, vioapic_deassert_irq, writes, lapics
  <2> QED
    BY <2>2, <2>3
<1>3. ASSUME NEW p \in Pins, vioapic_pulse_irq(p) PROVE IoInv'
  <2>1. vioapic_send_intr({p}, rte, rem)
    BY <1>3 DEF vioapic_pulse_irq
  <2>2. rte \in [Pins -> Entries \cup {Entry0}] /\ {p} \in SUBSET Pins /\ rem \in SUBSET Pins
    BY DEF IoTypeOK
  <2>3. /\ ioirr' \in [Cpus -> SUBSET IoVectors] /\ rem' \in SUBSET Pins
        /\ rem' = rem \cup {q \in {p} : ~rte[q].masked /\ rte[q].level}
    BY <2>1, <2>2, SendEffect
  <2>4. IoTypeOK'
    BY <1>3, <2>3 DEF IoTypeOK, vioapic_pulse_irq, writes
  <2>5. AssertedNotForgotten'
    BY <1>3, <2>3 DEF AssertedNotForgotten, vioapic_pulse_irq, writes
  <2> QED
    BY <2>4, <2>5
<1>4. ASSUME NEW c \in Cpus, Accept(c) PROVE IoInv'
  <2>1. ioirr' \in [Cpus -> SUBSET IoVectors]
    BY <1>4 DEF Accept, IoTypeOK
  <2>2. ioisr' \in [Cpus -> SUBSET IoVectors]
    <3>1. Highest(ioirr[c]) \in IoVectors
      BY <1>4, HighestIn DEF Accept, IoTypeOK
    <3> QED
      BY <1>4, <3>1 DEF Accept, IoTypeOK
  <2>3. IoTypeOK'
    BY <1>4, <2>1, <2>2 DEF IoTypeOK, Accept, writes
  <2>4. AssertedNotForgotten'
    BY <1>4 DEF AssertedNotForgotten, Accept, writes
  <2> QED
    BY <2>3, <2>4
<1>5. ASSUME NEW c \in Cpus, Eoi(c) PROVE IoInv'
  <2> DEFINE v == Highest(ioisr[c])
  <2>1. ioisr' \in [Cpus -> SUBSET IoVectors]
    BY <1>5 DEF Eoi, IoTypeOK
  <2>2. /\ ioirr' \in [Cpus -> SUBSET IoVectors]
        /\ rem' \subseteq rem
        /\ \A p \in rem : (acnt[p] > 0 /\ ~rte[p].masked /\ rte[p].level) => p \in rem'
    <3>1. CASE v \in tmr[c]
      <4>1. vioapic_process_eoi(v)
        BY <1>5, <3>1 DEF Eoi
      <4> QED
        BY <4>1, EoiEffect
    <3>2. CASE v \notin tmr[c]
      BY <1>5, <3>2 DEF Eoi, IoTypeOK
    <3> QED
      BY <3>1, <3>2
  <2>3. IoTypeOK'
    BY <1>5, <2>1, <2>2 DEF IoTypeOK, Eoi, writes
  <2>4. AssertedNotForgotten'
    BY <1>5, <2>2 DEF AssertedNotForgotten, Eoi, writes
  <2> QED
    BY <2>3, <2>4
<1>6. ASSUME NEW c \in Cpus, SvrWrite(c) \/ Activate(c) PROVE IoInv'
  <2>1. IoTypeOK'
    BY <1>6 DEF IoTypeOK, SvrWrite, Activate, writes, lapics
  <2>2. AssertedNotForgotten'
    BY <1>6 DEF AssertedNotForgotten, SvrWrite, Activate, writes, lapics
  <2> QED
    BY <2>1, <2>2
<1>7. ASSUME NEW c \in Cpus, Rendezvous(c) PROVE IoInv'
  <2>1. IoTypeOK'
    BY <1>7 DEF IoTypeOK, Rendezvous, lapics
  <2>2. AssertedNotForgotten'
    BY <1>7 DEF IoTypeOK, AssertedNotForgotten, Rendezvous, lapics
  <2> QED
    BY <2>1, <2>2
<1>8. ASSUME NEW c \in Cpus, vioapic_update_tmr(c) PROVE IoInv'
  <2>1. TmrOf(c) \subseteq IoVectors
    <3>1. \A q \in Pins : rte[q].level => rte[q] \in Entries
      BY DEF IoTypeOK, Entry0
    <3>2. \A q \in Pins : rte[q].level => rte[q].vec \in IoVectors
      BY <3>1 DEF Entries
    <3> QED
      BY <3>2 DEF TmrOf
  <2>2. tmr' \in [Cpus -> SUBSET IoVectors]
    BY <1>8, <2>1 DEF vioapic_update_tmr, IoTypeOK
  <2>3. IoTypeOK'
    BY <1>8, <2>2 DEF IoTypeOK, vioapic_update_tmr
  <2>4. AssertedNotForgotten'
    BY <1>8 DEF AssertedNotForgotten, vioapic_update_tmr
  <2> QED
    BY <2>3, <2>4
<1>9. ASSUME NEW c \in Cpus, FinishWrite(c) PROVE IoInv'
  <2>1. CASE wpin[c] \in Pins
    <3> DEFINE p == wpin[c]
    <3>1. /\ ioirr' \in [Cpus -> SUBSET IoVectors]
          /\ rem \subseteq rem' /\ rem' \subseteq rem \cup {p}
          /\ (acnt[p] > 0 /\ ~rte'[p].masked /\ rte'[p].level) => p \in rem'
      BY <1>9, <2>1, SendIfAssertedEffect DEF FinishWrite, IoTypeOK
    <3>2. IoTypeOK'
      BY <1>9, <2>1, <3>1 DEF IoTypeOK, FinishWrite
    <3>3. AssertedNotForgotten'
      BY <1>9, <2>1, <3>1 DEF IoTypeOK, AssertedNotForgotten, FinishWrite
    <3> QED
      BY <3>2, <3>3
  <2> QED
    BY <1>9, <2>1 DEF FinishWrite, IoTypeOK
<1>10. ASSUME NEW c \in Cpus, NEW p \in Pins, NEW e \in Entries, WriteMask(c, p, e)
       PROVE  IoInv'
  <2>1. rte' \in [Pins -> Entries \cup {Entry0}] /\ rte' = [rte EXCEPT ![p] = e]
    BY <1>10 DEF WriteMask, IoTypeOK
  <2>2. /\ ioirr' \in [Cpus -> SUBSET IoVectors]
        /\ rem \subseteq rem' /\ rem' \subseteq rem \cup {p}
        /\ (acnt[p] > 0 /\ ~rte'[p].masked /\ rte'[p].level) => p \in rem'
    BY <1>10, <2>1, SendIfAssertedEffect DEF WriteMask
  <2>3. IoTypeOK'
    BY <1>10, <2>1, <2>2 DEF IoTypeOK, WriteMask, writes
  <2>4. AssertedNotForgotten'
    BY <1>10, <2>1, <2>2 DEF IoTypeOK, AssertedNotForgotten, WriteMask, writes
  <2> QED
    BY <2>3, <2>4
<1>11. ASSUME NEW c \in Cpus, NEW p \in Pins, NEW e \in Entries, WriteEntry(c, p, e)
       PROVE  IoInv'
  <2>1. IoTypeOK'
    BY <1>11 DEF IoTypeOK, WriteEntry, lapics
  <2>2. AssertedNotForgotten'
    <3>1. /\ wr[c] = "idle" /\ wr' = [wr EXCEPT ![c] = "post"]
          /\ wpin' = [wpin EXCEPT ![c] = p] /\ rte' = [rte EXCEPT ![p] = e]
          /\ UNCHANGED <<rem, acnt>>
      BY <1>11 DEF WriteEntry, Running
    <3> SUFFICES ASSUME NEW q \in Pins, acnt[q] > 0, ~rte'[q].masked, rte'[q].level,
                        \A d \in Cpus : wr'[d] # "idle" => wpin'[d] # q
                 PROVE  q \in rem
      BY <3>1 DEF AssertedNotForgotten
    <3>2. q # p
      BY <3>1 DEF IoTypeOK
    <3>3. rte[q] = rte'[q] /\ \A d \in Cpus : wr[d] # "idle" => wpin[d] # q
      BY <3>1, <3>2 DEF IoTypeOK
    <3> QED
      BY <3>3 DEF AssertedNotForgotten
  <2> QED
    BY <2>1, <2>2
<1>12. CASE UNCHANGED iovars
  BY <1>12 DEF iovars, lapics, writes, IoTypeOK, AssertedNotForgotten
<1> QED
  BY <1>1, <1>2, <1>3, <1>4, <1>5, <1>6, <1>7, <1>8, <1>9, <1>10, <1>11, <1>12 DEF IoNext

\* The values of the I/O APIC and of the local APICs' registers, for all
\* guests: no vector outside the legal range is ever delivered.
THEOREM IoTypeCorrect == IoConstantsOK => (IoSpec => []IoTypeOK)
<1> SUFFICES ASSUME IoConstantsOK PROVE IoSpec => []IoTypeOK
  OBVIOUS
<1>1. IoInit => IoInv
  BY InitIo
<1>2. IoInv /\ [IoNext]_iovars => IoInv'
  BY NextIo
<1>3. IoInv => IoTypeOK
  BY DEF IoInv
<1> QED
  BY <1>1, <1>2, <1>3, PTL DEF IoSpec

\* For every guest, an unmasked level-triggered pin that is asserted has its
\* remote IRR set, unless vioapic_write of its entry is in progress: the EOI
\* finds it and sends it again.
THEOREM AssertedIsNotForgotten == IoConstantsOK => (IoSpec => []AssertedNotForgotten)
<1> SUFFICES ASSUME IoConstantsOK PROVE IoSpec => []AssertedNotForgotten
  OBVIOUS
<1>1. IoInit => IoInv
  BY InitIo
<1>2. IoInv /\ [IoNext]_iovars => IoInv'
  BY NextIo
<1>3. IoInv => AssertedNotForgotten
  BY DEF IoInv
<1> QED
  BY <1>1, <1>2, <1>3, PTL DEF IoSpec

-----------------------------------------------------------------------------
(* A guest that changes its entries while they are masked.                 *)

MaskedGuest == guest = "masked" => MaskedInv

\* Entries, masks and vcpus of the initial state.
LEMMA InitMasked ==
  ASSUME IoConstantsOK, IoInit
  PROVE  MaskedGuest
<1>1. 0 \in Cpus /\ NoCpu \notin Cpus
  BY CpuNumbers
<1>2. ASSUME guest = "masked" PROVE MaskedInv
  <2>1. OneWriter /\ WriteMasked /\ DestLive /\ Held
    BY <1>1, <1>2 DEF IoInit, OneWriter, WriteMasked, DestLive, Held, Entry0, Dest0
  <2>2. TmrCurrent
    BY DEF IoInit, TmrCurrent, Entry0
  <2> QED
    BY <2>1, <2>2 DEF MaskedInv
<1> QED
  BY <1>2 DEF MaskedGuest

\* Destinations are live, so they do not change when a vcpu is activated.
LEMMA DestStable ==
  ASSUME DestLive, NEW p \in Pins, active \subseteq active', rte'[p] = rte[p]
  PROVE  vlapic_calcdest(rte[p].dest)' = vlapic_calcdest(rte[p].dest)
<1>1. rte[p].dest.ids \cap active = rte[p].dest.ids \cap active'
  BY DEF DestLive
<1> QED
  BY <1>1 DEF vlapic_calcdest, LowestId

\* A pin that is sent to live destinations is held by one of them.
LEMMA SentHeld ==
  ASSUME IoConstantsOK, IoTypeOK, DestLive, NEW p \in Pins,
         NEW d, d.ids \subseteq active, d.ids # {}, d.ids \subseteq Cpus, NEW v,
         \A c \in Cpus : c \in vlapic_calcdest(d) \cap ioenabled => v \in ioirr'[c]
  PROVE  \E c \in vlapic_calcdest(d) : v \in ioirr'[c]
<1>1. vlapic_calcdest(d) \subseteq d.ids /\ vlapic_calcdest(d) # {}
  BY DestNonempty
<1> QED
  BY <1>1 DEF DestLive

\* A step that only delivers, accepts or ends interrupts keeps the invariant
\* if the pins it sends are not masked and every remote IRR is held.
LEMMA DeliveryStep ==
  ASSUME IoConstantsOK, IoTypeOK, MaskedInv, rem' \subseteq Pins,
         UNCHANGED <<rte, active, ioenabled, tmr, writes>>,
         \A p \in rem' \ rem : ~rte[p].masked,
         \A p \in rem' :
           /\ rte[p].level
           /\ \E c \in vlapic_calcdest(rte[p].dest) : rte[p].vec \in ioirr'[c] \cup ioisr'[c]
  PROVE  MaskedInv'
<1>1. \A p \in Pins : vlapic_calcdest(rte[p].dest)' = vlapic_calcdest(rte[p].dest)
  BY DestStable DEF MaskedInv
<1>2. OneWriter'
  BY DEF MaskedInv, OneWriter, writes, NoCpu
<1>3. WriteMasked'
  BY DEF MaskedInv, WriteMasked, writes, IoTypeOK
<1>4. DestLive'
  BY DEF MaskedInv, DestLive
<1>5. TmrCurrent'
  BY <1>1 DEF MaskedInv, TmrCurrent, writes
<1>6. Held'
  BY <1>1 DEF Held
<1> QED
  BY <1>2, <1>3, <1>4, <1>5, <1>6 DEF MaskedInv

\* The first assertion and a pulse of a pin.
LEMMA SendMasked ==
  ASSUME IoConstantsOK, IoTypeOK, MaskedInv, NEW p \in Pins, vioapic_send_intr({p}, rte, rem),
         UNCHANGED <<rte, active, ioenabled, ioisr, tmr, writes>>
  PROVE  MaskedInv'
<1>1. rte \in [Pins -> Entries \cup {Entry0}] /\ {p} \in SUBSET Pins /\ rem \in SUBSET Pins
  BY DEF IoTypeOK
<1>2. /\ rem' \in SUBSET Pins
      /\ rem' = rem \cup {q \in {p} : ~rte[q].masked /\ rte[q].level}
      /\ \A c \in Cpus : ioirr[c] \subseteq ioirr'[c]
      /\ \A q \in {p} : ~rte[q].masked =>
           \A c \in Cpus : c \in vlapic_calcdest(rte[q].dest) \cap ioenabled
                             => rte[q].vec \in ioirr'[c]
  BY <1>1, SendEffect
<1>3. \A q \in Pins : rte[q].dest.ids \subseteq Cpus /\ vlapic_calcdest(rte[q].dest) \subseteq Cpus
  BY <1>1, DestCpus
<1>4. ASSUME NEW q \in rem'
      PROVE  /\ rte[q].level
             /\ \E c \in vlapic_calcdest(rte[q].dest) : rte[q].vec \in ioirr'[c] \cup ioisr'[c]
  <2>1. CASE q \in rem
    BY <1>1, <1>2, <1>3, <2>1 DEF MaskedInv, Held
  <2>2. CASE q \notin rem
    <3>1. q = p /\ rte[p].level /\ ~rte[p].masked
      BY <1>2, <2>2
    <3>2. \E c \in vlapic_calcdest(rte[p].dest) : rte[p].vec \in ioirr'[c]
      BY <1>2, <1>3, <3>1, SentHeld DEF MaskedInv, DestLive
    <3> QED
      BY <3>1, <3>2
  <2> QED
    BY <2>1, <2>2
<1>5. \A q \in rem' \ rem : ~rte[q].masked
  BY <1>2
<1> QED
  BY <1>2, <1>4, <1>5, DeliveryStep

\* An EOI of the vector of a pin with remote IRR reaches the I/O APIC when it
\* comes from a destination of the pin.
LEMMA EoiMasked ==
  ASSUME IoConstantsOK, IoTypeOK, MaskedInv, NEW c \in Cpus, Eoi(c)
  PROVE  MaskedInv'
<1> DEFINE v == Highest(ioisr[c])
<1>1. /\ UNCHANGED <<rte, active, ioenabled, tmr, writes>>
      /\ ioisr' = [ioisr EXCEPT ![c] = @ \ {v}]
      /\ IF v \in tmr[c] THEN vioapic_process_eoi(v) ELSE UNCHANGED <<rem, ioirr>>
  BY DEF Eoi
<1>2. /\ \A q \in Pins : rte[q].dest.ids \subseteq Cpus /\ vlapic_calcdest(rte[q].dest) \subseteq Cpus
      /\ rem \subseteq Pins
  BY DestCpus DEF IoTypeOK
<1>3. \A q \in rem : \A d \in vlapic_calcdest(rte[q].dest) : rte[q].vec \in tmr[d]
  <2> SUFFICES ASSUME NEW q \in rem, NEW d \in vlapic_calcdest(rte[q].dest)
               PROVE  rte[q].vec \in tmr[d]
    OBVIOUS
  <2>1. rte[q].level /\ q \in Pins
    BY <1>2 DEF MaskedInv, Held
  <2>2. \A a \in Cpus : wr[a] # "idle" => wpin[a] # q
    BY DEF MaskedInv, WriteMasked
  <2> QED
    BY <2>1, <2>2 DEF MaskedInv, TmrCurrent
<1>4. /\ rem' \subseteq rem
      /\ \A a \in Cpus : ioirr[a] \subseteq ioirr'[a]
      /\ \A q \in rem' : rte[q].vec = v /\ v \in tmr[c] =>
           \A a \in Cpus : a \in vlapic_calcdest(rte[q].dest) \cap ioenabled => v \in ioirr'[a]
  <2>1. CASE v \in tmr[c]
    <3>1. vioapic_process_eoi(v)
      BY <1>1, <2>1
    <3> HIDE DEF v
    <3> QED
      BY <3>1, EoiEffect
  <2>2. CASE v \notin tmr[c]
    BY <1>1, <2>2
  <2> QED
    BY <2>1, <2>2
<1>5. ASSUME NEW q \in rem'
      PROVE  /\ rte[q].level
             /\ \E a \in vlapic_calcdest(rte[q].dest) : rte[q].vec \in ioirr'[a] \cup ioisr'[a]
  <2>1. PICK a \in vlapic_calcdest(rte[q].dest) : rte[q].vec \in ioirr[a] \cup ioisr[a]
    BY <1>4 DEF MaskedInv, Held
  <2>2. a \in Cpus /\ q \in Pins /\ q \in rem /\ rte[q].level
    BY <1>2, <1>4 DEF MaskedInv, Held
  <2>3. CASE rte[q].vec = v /\ v \in tmr[c]
    <3>1. \A b \in Cpus : b \in vlapic_calcdest(rte[q].dest) \cap ioenabled => rte[q].vec \in ioirr'[b]
      BY <1>4, <2>3
    <3>2. a \in ioenabled
      BY <2>2 DEF MaskedInv, DestLive
    <3> QED
      BY <2>1, <2>2, <3>1, <3>2
  <2>4. CASE ~(rte[q].vec = v /\ v \in tmr[c])
    <3>1. a = c => rte[q].vec # v
      BY <1>3, <2>1, <2>2, <2>4
    <3>2. rte[q].vec \in ioisr[a] => rte[q].vec \in ioisr'[a]
      BY <1>1, <2>2, <3>1 DEF IoTypeOK
    <3> QED
      BY <1>4, <2>1, <2>2, <3>2
  <2> QED
    BY <2>3, <2>4
<1>6. rem' \subseteq Pins /\ \A q \in rem' \ rem : ~rte[q].masked
  BY <1>2, <1>4
<1> QED
  BY <1>1, <1>5, <1>6, DeliveryStep

\* A write of the mask alone happens when no other write is in progress.
LEMMA WriteMaskMasked ==
  ASSUME IoConstantsOK, IoTypeOK, MaskedInv, guest = "masked",
         NEW c \in Cpus, NEW p \in Pins, NEW e \in Entries, WriteMask(c, p, e)
  PROVE  MaskedInv'
<1>1. /\ rte' = [rte EXCEPT ![p] = e] /\ rte' \in [Pins -> Entries \cup {Entry0}]
      /\ UNCHANGED <<active, ioenabled, ioisr, tmr, writes>>
      /\ \A a \in Cpus : wr[a] = "idle"
  BY DEF WriteMask, Allowed, IoTypeOK
<1>2. \A q \in Pins : /\ rte'[q].dest = rte[q].dest /\ rte'[q].level = rte[q].level
                      /\ rte'[q].vec = rte[q].vec
  <2>1. e.dest = rte[p].dest /\ e.level = rte[p].level /\ e.vec = rte[p].vec
    BY DEF WriteMask, IoTypeOK, Entries, Entry0
  <2> QED
    BY <1>1, <2>1 DEF IoTypeOK
<1>3. \A q \in Pins : vlapic_calcdest(rte[q].dest)' = vlapic_calcdest(rte[q].dest)
  BY <1>1, <1>2 DEF vlapic_calcdest, LowestId
<1>4. \A q \in Pins : rte[q].dest.ids \subseteq Cpus /\ vlapic_calcdest(rte[q].dest) \subseteq Cpus
  BY DestCpus DEF IoTypeOK
<1>5. /\ rem \subseteq rem' /\ rem' \subseteq rem \cup {p}
      /\ \A a \in Cpus : ioirr[a] \subseteq ioirr'[a]
      /\ p \in rem' \ rem =>
           /\ rte'[p].level
           /\ \A a \in Cpus : a \in vlapic_calcdest(rte'[p].dest) \cap ioenabled
                                => rte'[p].vec \in ioirr'[a]
  <2>1. SendIfAsserted(p)
    BY DEF WriteMask
  <2> QED
    BY <1>1, <2>1, SendIfAssertedEffect
<1>6. OneWriter' /\ WriteMasked' /\ DestLive'
  BY <1>1, <1>2 DEF MaskedInv, OneWriter, WriteMasked, DestLive, writes, NoCpu
<1>7. TmrCurrent'
  BY <1>1, <1>2, <1>3 DEF MaskedInv, TmrCurrent, writes
<1>8. Held'
  <2> SUFFICES ASSUME NEW q \in rem'
               PROVE  /\ rte[q].level
                      /\ \E a \in vlapic_calcdest(rte[q].dest) :
                           rte[q].vec \in ioirr'[a] \cup ioisr'[a]
    <3>1. rem' \subseteq Pins
      BY <1>5 DEF IoTypeOK
    <3> QED
      BY <1>2, <1>3, <3>1 DEF Held
  <2>1. CASE q \in rem
    BY <1>1, <1>4, <1>5, <2>1 DEF MaskedInv, Held, IoTypeOK
  <2>2. CASE q \notin rem
    <3>1. q = p /\ rte[p].level
      BY <1>2, <1>5, <2>2
    <3>2. \A a \in Cpus : a \in vlapic_calcdest(rte[p].dest) \cap ioenabled => rte[p].vec \in ioirr'[a]
      BY <1>2, <1>5, <2>2
    <3>3. \E a \in vlapic_calcdest(rte[p].dest) : rte[p].vec \in ioirr'[a]
      BY <1>4, <3>2, SentHeld DEF MaskedInv, DestLive
    <3> QED
      BY <3>1, <3>3
  <2> QED
    BY <2>1, <2>2
<1> QED
  BY <1>6, <1>7, <1>8 DEF MaskedInv

\* A write of the other fields leaves the entry masked, to be finished after
\* the rendezvous.
LEMMA WriteEntryMasked ==
  ASSUME IoConstantsOK, IoTypeOK, MaskedInv, guest = "masked",
         NEW c \in Cpus, NEW p \in Pins, NEW e \in Entries, WriteEntry(c, p, e)
  PROVE  MaskedInv'
<1>1. /\ rte' = [rte EXCEPT ![p] = e]
      /\ wr' = [wr EXCEPT ![c] = "post"] /\ wpin' = [wpin EXCEPT ![c] = p]
      /\ UNCHANGED <<rem, active, ioenabled, ioirr, ioisr, tmr, rdvby, todo>>
  BY DEF WriteEntry, lapics
<1>2. /\ \A a \in Cpus : wr[a] = "idle"
      /\ e.masked /\ p \notin rem
      /\ e.dest.ids \subseteq active /\ e.dest.ids # {}
  BY DEF WriteEntry, Allowed
<1>3. \A q \in Pins \ {p} : rte'[q] = rte[q]
  BY <1>1 DEF IoTypeOK
<1>4. rte'[p] = e /\ wr'[c] = "post" /\ wpin'[c] = p /\ \A a \in Cpus \ {c} : wr'[a] = "idle"
  BY <1>1, <1>2 DEF IoTypeOK
<1>5. \A q \in Pins \ {p} : vlapic_calcdest(rte[q].dest)' = vlapic_calcdest(rte[q].dest)
  BY <1>1, <1>3, DestStable DEF MaskedInv
<1>6. OneWriter'
  BY <1>1, <1>2, <1>4 DEF MaskedInv, OneWriter, NoCpu
<1>7. WriteMasked'
  BY <1>1, <1>2, <1>4 DEF WriteMasked
<1>8. DestLive'
  BY <1>1, <1>2, <1>3, <1>4 DEF MaskedInv, DestLive
<1>9. TmrCurrent'
  <2>1. \A q \in Pins \ {p} : rte[q].level =>
          \A d \in vlapic_calcdest(rte[q].dest) : rte[q].vec \in tmr[d]
    BY <1>2 DEF MaskedInv, TmrCurrent
  <2> QED
    BY <1>1, <1>3, <1>4, <1>5, <2>1 DEF TmrCurrent
<1>10. Held'
  BY <1>1, <1>2, <1>3, <1>5 DEF MaskedInv, Held, IoTypeOK
<1> QED
  BY <1>6, <1>7, <1>8, <1>9, <1>10 DEF MaskedInv

\* The rendezvous and its handler, the end of the write, and a new vcpu.
LEMMA RendezvousMasked ==
  ASSUME IoConstantsOK, IoTypeOK, MaskedInv, NEW c \in Cpus,
         Rendezvous(c) \/ vioapic_update_tmr(c) \/ FinishWrite(c) \/ Activate(c)
  PROVE  MaskedInv'
<1>1. \A q \in Pins : rte[q].dest.ids \subseteq Cpus /\ vlapic_calcdest(rte[q].dest) \subseteq Cpus
  BY DestCpus DEF IoTypeOK
<1>2. rte' = rte /\ active \subseteq active' /\ UNCHANGED <<ioenabled, ioisr>>
  BY DEF Rendezvous, vioapic_update_tmr, FinishWrite, Activate, lapics
<1>3. \A q \in Pins : vlapic_calcdest(rte[q].dest)' = vlapic_calcdest(rte[q].dest)
  BY <1>2, DestStable DEF MaskedInv
<1>4. DestLive'
  BY <1>2 DEF MaskedInv, DestLive
<1>5. NoCpu \notin Cpus /\ NoCpu' = NoCpu
  BY CpuNumbers DEF NoCpu
<1>6. CASE Rendezvous(c)
  <2>1. /\ wr[c] = "post" /\ rdvby' = c /\ todo' = active /\ wr' = [wr EXCEPT ![c] = "wait"]
        /\ UNCHANGED <<rem, ioirr, tmr, wpin>>
    BY <1>6 DEF Rendezvous, lapics
  <2>2. \A a \in Cpus \ {c} : wr[a] = "idle" /\ wr'[a] = "idle"
    BY <2>1 DEF MaskedInv, OneWriter, IoTypeOK
  <2>3. wr'[c] = "wait"
    BY <2>1 DEF IoTypeOK
  <2>4. OneWriter'
    BY <1>5, <2>1, <2>2, <2>3 DEF OneWriter
  <2>5. WriteMasked'
    BY <1>2, <2>1, <2>2 DEF MaskedInv, WriteMasked
  <2>6. \A q \in Pins : vlapic_calcdest(rte[q].dest) \subseteq active
    BY <1>1, DestNonempty DEF MaskedInv, DestLive
  <2>7. TmrCurrent'
    BY <1>2, <1>3, <2>1, <2>2, <2>3, <2>6 DEF MaskedInv, TmrCurrent
  <2>8. Held'
    BY <1>2, <1>3, <2>1 DEF MaskedInv, Held, IoTypeOK
  <2> QED
    BY <1>4, <2>4, <2>5, <2>7, <2>8 DEF MaskedInv
<1>7. CASE vioapic_update_tmr(c)
  <2>1. /\ c \in todo /\ tmr' = [tmr EXCEPT ![c] = TmrOf(c)] /\ todo' = todo \ {c}
        /\ rdvby' = IF todo = {c} THEN NoCpu ELSE rdvby
        /\ UNCHANGED <<rem, ioirr, wr, wpin>>
    BY <1>7 DEF vioapic_update_tmr
  <2>2. OneWriter'
    BY <1>5, <2>1 DEF MaskedInv, OneWriter
  <2>3. WriteMasked'
    BY <1>2, <2>1 DEF MaskedInv, WriteMasked
  <2>4. TmrCurrent'
    <3>1. \A q \in Pins : rte[q].level /\ c \in vlapic_calcdest(rte[q].dest)
                            => rte[q].vec \in TmrOf(c)
      BY DEF TmrOf
    <3>2. tmr'[c] = TmrOf(c) /\ \A d \in Cpus \ {c} : tmr'[d] = tmr[d]
      BY <2>1 DEF IoTypeOK
    <3> SUFFICES ASSUME NEW q \in Pins, rte[q].level, NEW d \in vlapic_calcdest(rte[q].dest),
                        rte[q].vec \notin tmr'[d]
                 PROVE  \E a \in Cpus : wpin[a] = q /\ (wr[a] = "post" \/ (wr[a] = "wait" /\ d \in todo'))
      BY <1>2, <1>3, <2>1 DEF TmrCurrent
    <3>3. d # c /\ d \in Cpus
      BY <1>1, <3>1, <3>2
    <3>4. rte[q].vec \notin tmr[d] /\ (d \in todo => d \in todo')
      BY <2>1, <3>2, <3>3
    <3> QED
      BY <3>4 DEF MaskedInv, TmrCurrent
  <2>5. Held'
    BY <1>2, <1>3, <2>1 DEF MaskedInv, Held, IoTypeOK
  <2> QED
    BY <1>4, <2>2, <2>3, <2>4, <2>5 DEF MaskedInv
<1>8. CASE FinishWrite(c)
  <2>1. /\ wr[c] = "wait" /\ rdvby # c /\ wr' = [wr EXCEPT ![c] = "idle"]
        /\ wpin' = [wpin EXCEPT ![c] = 0] /\ UNCHANGED <<tmr, rdvby, todo>>
        /\ SendIfAsserted(wpin[c])
    BY <1>8 DEF FinishWrite
  <2>2. UNCHANGED <<rem, ioirr>>
    BY <1>2, <2>1 DEF MaskedInv, WriteMasked, SendIfAsserted
  <2>3. rdvby = NoCpu /\ todo = {} /\ \A a \in Cpus : wr'[a] = "idle"
    BY <2>1 DEF MaskedInv, OneWriter, IoTypeOK
  <2>4. OneWriter' /\ WriteMasked'
    BY <1>5, <2>1, <2>3 DEF OneWriter, WriteMasked
  <2>5. \A a \in Cpus : wr[a] # "post"
    BY <2>1 DEF MaskedInv, OneWriter
  <2>6. TmrCurrent'
    BY <1>2, <1>3, <2>1, <2>3, <2>5 DEF MaskedInv, TmrCurrent
  <2>7. Held'
    BY <1>2, <1>3, <2>2 DEF MaskedInv, Held, IoTypeOK
  <2> QED
    BY <1>4, <2>4, <2>6, <2>7 DEF MaskedInv
<1>9. CASE Activate(c)
  <2>1. UNCHANGED <<rem, ioirr, tmr, wr, wpin, rdvby, todo>>
    BY <1>9 DEF Activate, lapics, writes
  <2>2. OneWriter' /\ WriteMasked'
    BY <1>2, <1>5, <2>1 DEF MaskedInv, OneWriter, WriteMasked
  <2>3. TmrCurrent'
    BY <1>2, <1>3, <2>1 DEF MaskedInv, TmrCurrent
  <2>4. Held'
    BY <1>2, <1>3, <2>1 DEF MaskedInv, Held, IoTypeOK
  <2> QED
    BY <1>4, <2>2, <2>3, <2>4 DEF MaskedInv
<1> QED
  BY <1>6, <1>7, <1>8, <1>9

\* Every step of a guest that keeps to the discipline keeps the invariant.
LEMMA NextMasked ==
  ASSUME IoConstantsOK, IoTypeOK, MaskedGuest, [IoNext]_iovars
  PROVE  MaskedGuest'
<1> SUFFICES ASSUME guest' = "masked" PROVE MaskedInv'
  BY DEF MaskedGuest
<1>1. guest = "masked"
  BY DEF IoNext, iovars, vioapic_assert_irq, vioapic_deassert_irq, vioapic_pulse_irq, Accept, Eoi,
         SvrWrite, Activate, Rendezvous, vioapic_update_tmr, FinishWrite, WriteMask, WriteEntry
<1>2. MaskedInv
  BY <1>1 DEF MaskedGuest
<1>3. /\ rem \subseteq Pins
      /\ \A q \in rem : /\ rte[q].level
                        /\ vlapic_calcdest(rte[q].dest) \subseteq Cpus
                        /\ \E a \in vlapic_calcdest(rte[q].dest) : rte[q].vec \in ioirr[a] \cup ioisr[a]
  BY <1>2, DestCpus DEF IoTypeOK, MaskedInv, Held
<1>4. ASSUME NEW p \in Pins, vioapic_assert_irq(p) PROVE MaskedInv'
  <2>1. CASE acnt[p] = 0
    BY <1>2, <1>4, <2>1, SendMasked DEF vioapic_assert_irq
  <2>2. CASE acnt[p] # 0
    <3>1. UNCHANGED <<rte, rem, ioirr, active, ioenabled, ioisr, tmr, writes>>
      BY <1>4, <2>2 DEF vioapic_assert_irq
    <3> QED
      BY <1>2, <1>3, <3>1, DeliveryStep
  <2> QED
    BY <2>1, <2>2
<1>5. ASSUME NEW p \in Pins, vioapic_deassert_irq(p) PROVE MaskedInv'
  <2>1. UNCHANGED <<rte, rem, ioirr, active, ioenabled, ioisr, tmr, writes>>
    BY <1>5 DEF vioapic_deassert_irq, lapics
  <2> QED
    BY <1>2, <1>3, <2>1, DeliveryStep
<1>6. ASSUME NEW p \in Pins, vioapic_pulse_irq(p) PROVE MaskedInv'
  BY <1>2, <1>6, SendMasked DEF vioapic_pulse_irq
<1>7. ASSUME NEW c \in Cpus, Accept(c) PROVE MaskedInv'
  <2> DEFINE h == Highest(ioirr[c])
  <2>1. /\ UNCHANGED <<rte, rem, active, ioenabled, tmr, writes>>
        /\ ioirr' = [ioirr EXCEPT ![c] = @ \ {h}] /\ ioisr' = [ioisr EXCEPT ![c] = @ \cup {h}]
    BY <1>7 DEF Accept
  <2>2. \A a \in Cpus : ioirr[a] \cup ioisr[a] \subseteq ioirr'[a] \cup ioisr'[a]
    <3> HIDE DEF h
    <3> QED
      BY <2>1 DEF IoTypeOK
  <2>3. \A q \in rem : \E a \in vlapic_calcdest(rte[q].dest) : rte[q].vec \in ioirr'[a] \cup ioisr'[a]
    BY <1>3, <2>2
  <2> QED
    BY <1>2, <1>3, <2>1, <2>3, DeliveryStep
<1>8. ASSUME NEW c \in Cpus, Eoi(c) PROVE MaskedInv'
  BY <1>2, <1>8, EoiMasked
<1>9. ASSUME NEW c \in Cpus, SvrWrite(c) PROVE MaskedInv'
  BY <1>1, <1>9 DEF SvrWrite
<1>10. ASSUME NEW c \in Cpus,
              Activate(c) \/ Rendezvous(c) \/ vioapic_update_tmr(c) \/ FinishWrite(c)
       PROVE  MaskedInv'
  BY <1>2, <1>10, RendezvousMasked
<1>11. ASSUME NEW c \in Cpus, NEW p \in Pins, NEW e \in Entries, WriteMask(c, p, e)
       PROVE  MaskedInv'
  BY <1>1, <1>2, <1>11, WriteMaskMasked
<1>12. ASSUME NEW c \in Cpus, NEW p \in Pins, NEW e \in Entries, WriteEntry(c, p, e)
       PROVE  MaskedInv'
  BY <1>1, <1>2, <1>12, WriteEntryMasked
<1>13. CASE UNCHANGED iovars
  <2>1. UNCHANGED <<rte, rem, ioirr, active, ioenabled, ioisr, tmr, writes>>
    BY <1>13 DEF iovars, lapics
  <2> QED
    BY <1>2, <1>3, <2>1, DeliveryStep
<1> QED
  BY <1>4, <1>5, <1>6, <1>7, <1>8, <1>9, <1>10, <1>11, <1>12, <1>13 DEF IoNext

\* For a guest that changes its entries while they are masked, a remote IRR
\* that is set belongs to a vector which an active vcpu has pending or in
\* service, and whose end that vcpu passes on to the I/O APIC.
THEOREM RemoteIrrHasEoi == IoConstantsOK => (IoSpec => []RemIrrHasEoi)
<1> SUFFICES ASSUME IoConstantsOK PROVE IoSpec => []RemIrrHasEoi
  OBVIOUS
<1>1. IoInit => IoInv /\ MaskedGuest
  BY InitIo, InitMasked
<1>2. IoInv /\ MaskedGuest /\ [IoNext]_iovars => IoInv' /\ MaskedGuest'
  BY NextIo, NextMasked DEF IoInv
<1>3. ASSUME IoInv, MaskedGuest PROVE RemIrrHasEoi
  <2> SUFFICES ASSUME guest = "masked", NEW p \in rem
               PROVE  \E c \in active : rte[p].vec \in (ioirr[c] \cup ioisr[c]) \cap tmr[c]
    BY DEF RemIrrHasEoi
  <2>1. PICK c \in vlapic_calcdest(rte[p].dest) : rte[p].vec \in ioirr[c] \cup ioisr[c]
    BY <1>3 DEF MaskedGuest, MaskedInv, Held
  <2>2. p \in Pins /\ rte[p] \in Entries \cup {Entry0}
    BY <1>3 DEF IoInv, IoTypeOK
  <2>3. rte[p].dest.ids \subseteq Cpus
    BY <2>2, DestCpus
  <2>4. vlapic_calcdest(rte[p].dest) \subseteq active
    BY <1>3, <2>2, <2>3, DestNonempty DEF MaskedGuest, MaskedInv, DestLive
  <2>5. rte[p].vec \in tmr[c]
    BY <1>3, <2>1, <2>2 DEF MaskedGuest, MaskedInv, Held, WriteMasked, TmrCurrent
  <2> QED
    BY <2>1, <2>4, <2>5
<1> QED
  BY <1>1, <1>2, <1>3, PTL DEF IoSpec

-----------------------------------------------------------------------------
(* Event injection.                                                        *)


\* The reset state satisfies the invariant.
LEMMA InitInject == InjectInit => InjectInv
BY DEF InjectInit, InjectInv, InjectTypeOK, NoInjectAbort, EventKept, PendingAtInfo, EntryConsumed,
       StillLegal, NmiSeen, IntrSeen, Events, Exceptions

\* The two halves of TypeOK: the fields that hold a name, and the flags.
Fields ==
  /\ pc \in {"info", "nmi", "intr", "check", "entering", "guest", "suspended"}
  /\ entry \in Events \cup {"none"} /\ exitintinfo \in Events \cup {"none"}
  /\ exc \in Exceptions \cup {"none"}
  /\ shadow \in {"none", "sti", "movss"}
  /\ owed \subseteq Events

Flags ==
  /\ nmi_pending \in BOOLEAN /\ ext \in BOOLEAN /\ intr \in BOOLEAN
  /\ nmiwin \in BOOLEAN /\ intwin \in BOOLEAN
  /\ nmib \in BOOLEAN /\ iflag \in BOOLEAN
  /\ moved \in BOOLEAN /\ kick \in BOOLEAN /\ post \in BOOLEAN /\ susp \in BOOLEAN

USE DEF pend, win, gstate

\* Every step of every thread, of the processor and of the guest keeps it.
LEMMA NextInject == InjectInv /\ [InjectNext]_injectvars => InjectInv'
<1> SUFFICES ASSUME InjectInv, [InjectNext]_injectvars PROVE InjectInv'
  OBVIOUS
<1> USE DEF InjectInv, InjectTypeOK, NoInjectAbort, EventKept, PendingAtInfo, EntryConsumed,
            StillLegal, NmiSeen, IntrSeen, Events, Exceptions
<1>1. CASE Post
  <2>1. InjectTypeOK'
    <3>1. Fields'
      BY <1>1 DEF Post, Fields
    <3>2. Flags'
      BY Zenon, <1>1 DEF Post, Flags
    <3> QED
      BY ONLY <3>1, <3>2 DEF InjectTypeOK, Fields, Flags
  <2>2. NoInjectAbort'
    BY <1>1 DEF Post
  <2>3. EventKept'
    BY <1>1 DEF Post
  <2>4. PendingAtInfo'
    BY <1>1 DEF Post
  <2>5. EntryConsumed'
    BY <1>1 DEF Post
  <2>6. StillLegal'
    BY <1>1 DEF Post
  <2>7. NmiSeen'
    BY <1>1 DEF Post
  <2>8. IntrSeen'
    BY <1>1 DEF Post
  <2> QED
    BY <2>1, <2>2, <2>3, <2>4, <2>5, <2>6, <2>7, <2>8
<1>2. CASE Notify
  <2>1. InjectTypeOK'
    <3>1. Fields'
      BY <1>2 DEF Notify, Fields
    <3>2. Flags'
      BY ZenonT(60), <1>2 DEF Notify, Flags
    <3> QED
      BY ONLY <3>1, <3>2 DEF InjectTypeOK, Fields, Flags
  <2>2. NoInjectAbort'
    BY <1>2 DEF Notify
  <2>3. EventKept'
    BY <1>2 DEF Notify
  <2>4. PendingAtInfo'
    BY <1>2 DEF Notify
  <2>5. EntryConsumed'
    BY <1>2 DEF Notify
  <2>6. StillLegal'
    BY <1>2 DEF Notify
  <2>7. NmiSeen'
    BY <1>2 DEF Notify
  <2>8. IntrSeen'
    BY <1>2 DEF Notify
  <2> QED
    BY <2>1, <2>2, <2>3, <2>4, <2>5, <2>6, <2>7, <2>8
<1>3. CASE InjectInfo
  <2>1. InjectTypeOK'
    <3>1. Fields'
      BY <1>3 DEF InjectInfo, vm_entry_intinfo, nested_fault, Fields
    <3>2. Flags'
      BY Zenon, <1>3 DEF InjectInfo, vm_entry_intinfo, nested_fault, Flags
    <3> QED
      BY ONLY <3>1, <3>2 DEF InjectTypeOK, Fields, Flags
  <2>2. NoInjectAbort'
    BY <1>3 DEF InjectInfo, vm_entry_intinfo, nested_fault
  <2>3. EventKept'
    BY <1>3 DEF InjectInfo, vm_entry_intinfo, nested_fault
  <2>4. PendingAtInfo'
    BY <1>3 DEF InjectInfo, vm_entry_intinfo, nested_fault
  <2>5. EntryConsumed'
    BY <1>3 DEF InjectInfo, vm_entry_intinfo, nested_fault
  <2>6. StillLegal'
    BY <1>3 DEF InjectInfo, vm_entry_intinfo, nested_fault
  <2>7. NmiSeen'
    BY <1>3 DEF InjectInfo, vm_entry_intinfo, nested_fault
  <2>8. IntrSeen'
    BY <1>3 DEF InjectInfo, vm_entry_intinfo, nested_fault
  <2> QED
    BY <2>1, <2>2, <2>3, <2>4, <2>5, <2>6, <2>7, <2>8
<1>4. CASE InjectNmi
  <2>1. InjectTypeOK'
    <3>1. Fields'
      BY <1>4 DEF InjectNmi, vmx_inject_nmi, Fields
    <3>2. Flags'
      BY ZenonT(60), <1>4 DEF InjectNmi, vmx_inject_nmi, Flags
    <3> QED
      BY ONLY <3>1, <3>2 DEF InjectTypeOK, Fields, Flags
  <2>2. NoInjectAbort'
    BY <1>4 DEF InjectNmi, vmx_inject_nmi
  <2>3. EventKept'
    BY <1>4 DEF InjectNmi, vmx_inject_nmi
  <2>4. PendingAtInfo'
    BY <1>4 DEF InjectNmi, vmx_inject_nmi
  <2>5. EntryConsumed'
    BY <1>4 DEF InjectNmi, vmx_inject_nmi
  <2>6. StillLegal'
    BY <1>4 DEF InjectNmi, vmx_inject_nmi
  <2>7. NmiSeen'
    BY <1>4 DEF InjectNmi, vmx_inject_nmi
  <2>8. IntrSeen'
    BY <1>4 DEF InjectNmi, vmx_inject_nmi
  <2> QED
    BY <2>1, <2>2, <2>3, <2>4, <2>5, <2>6, <2>7, <2>8
<1>5. CASE InjectIntr
  <2>1. InjectTypeOK'
    <3>1. Fields'
      BY <1>5 DEF InjectIntr, Fields
    <3>2. Flags'
      BY ZenonT(60), <1>5 DEF InjectIntr, Flags
    <3> QED
      BY ONLY <3>1, <3>2 DEF InjectTypeOK, Fields, Flags
  <2>2. NoInjectAbort'
    BY <1>5 DEF InjectIntr
  <2>3. EventKept'
    BY <1>5 DEF InjectIntr
  <2>4. PendingAtInfo'
    BY <1>5 DEF InjectIntr
  <2>5. EntryConsumed'
    BY <1>5 DEF InjectIntr
  <2>6. StillLegal'
    BY <1>5 DEF InjectIntr
  <2>7. NmiSeen'
    BY <1>5 DEF InjectIntr
  <2>8. IntrSeen'
    BY <1>5 DEF InjectIntr
  <2> QED
    BY <2>1, <2>2, <2>3, <2>4, <2>5, <2>6, <2>7, <2>8
<1>6. CASE CheckCookies
  BY <1>6 DEF CheckCookies
<1>7. CASE DeliverEvent
  BY ZenonT(60), <1>7 DEF DeliverEvent
<1>8. CASE Instruction
  BY ZenonT(60), <1>8 DEF Instruction, Executes
<1>9. CASE ExitExtIntr
  BY ZenonT(60), <1>9 DEF ExitExtIntr
<1>10. CASE ExitIntWindow
  BY ZenonT(60), <1>10 DEF ExitIntWindow
<1>11. CASE ExitNmiWindow
  BY <1>11 DEF ExitNmiWindow, NmiWindowOpen, vmx_inject_nmi
<1>12. CASE ExitEmulated
  BY ZenonT(60), <1>12 DEF ExitEmulated, Executes, vm_inject_exception
<1>13. CASE ExitException
  BY ZenonT(60), <1>13 DEF ExitException, Executes, vm_inject_exception
<1>14. ASSUME NEW ts \in BOOLEAN, ExitVectoring(ts) PROVE InjectInv'
  <2>1. InjectTypeOK'
    <3>1. Fields'
      BY <1>14 DEF ExitVectoring, NmiBlockingAfter, vm_inject_exception, Fields
    <3>2. Flags'
      BY Zenon, <1>14 DEF ExitVectoring, NmiBlockingAfter, vm_inject_exception, Flags
    <3> QED
      BY ONLY <3>1, <3>2 DEF InjectTypeOK, Fields, Flags
  <2>2. NoInjectAbort'
    BY <1>14 DEF ExitVectoring, NmiBlockingAfter, vm_inject_exception
  <2>3. EventKept'
    BY <1>14 DEF ExitVectoring, NmiBlockingAfter, vm_inject_exception
  <2>4. PendingAtInfo'
    BY <1>14 DEF ExitVectoring, NmiBlockingAfter, vm_inject_exception
  <2>5. EntryConsumed'
    BY <1>14 DEF ExitVectoring, NmiBlockingAfter, vm_inject_exception
  <2>6. StillLegal'
    BY <1>14 DEF ExitVectoring, NmiBlockingAfter, vm_inject_exception
  <2>7. NmiSeen'
    BY <1>14 DEF ExitVectoring, NmiBlockingAfter, vm_inject_exception
  <2>8. IntrSeen'
    BY <1>14 DEF ExitVectoring, NmiBlockingAfter, vm_inject_exception
  <2> QED
    BY <2>1, <2>2, <2>3, <2>4, <2>5, <2>6, <2>7, <2>8
<1>15. CASE UNCHANGED injectvars
  BY <1>15 DEF injectvars
<1> QED
  BY <1>1, <1>2, <1>3, <1>4, <1>5, <1>6, <1>7, <1>8, <1>9, <1>10, <1>11, <1>12, <1>13,
     <1>14, <1>15 DEF InjectNext

\* The invariant holds in every state.
THEOREM InjectInvariance == InjectSpec => []InjectInv
BY InitInject, NextInject, PTL DEF InjectSpec

\* Event injection is type correct: every field holds one of its values.
THEOREM InjectTypeCorrect == InjectSpec => []InjectTypeOK
<1>1. InjectInv => InjectTypeOK
  BY DEF InjectInv
<1> QED
  BY <1>1, InjectInvariance, PTL

\* A pending NMI or interrupt has its window exit armed or a host interrupt on
\* the way whenever the guest is entered, and an event that was accepted stays
\* in the VMCS or in exitintinfo until it is delivered or superseded.
THEOREM NoEventIsLost == InjectSpec => []NoEventLost
<1>1. InjectInv => NoEventLost
  BY DEF InjectInv, NoEventLost, NothingForgotten, EventKept, NmiSeen, IntrSeen
<1> QED
  BY <1>1, InjectInvariance, PTL

\* No KASSERT of vmx_inject_interrupts, vmx_inject_nmi and vm_inject_exception
\* fails, and VM entry accepts every event that is injected.
THEOREM EntriesAreLegal == InjectSpec => []EntryLegal
<1>1. InjectInv => EntryLegal
  BY DEF InjectInv, EntryLegal, NoInjectAbort, EntryIsLegal, StillLegal
<1> QED
  BY <1>1, InjectInvariance, PTL

-----------------------------------------------------------------------------
(* The 8259s.                                                              *)

\* The pin that is visited first is one of the set.
LEMMA FirstIn ==
  ASSUME NEW S \in SUBSET (0 .. 7), NEW low \in 0 .. 7
  PROVE  First(S, low) = -1 \/ First(S, low) \in S
  <1>1. CASE S = {}
    BY <1>1 DEF First
  <1>2. CASE S # {}
    <2> DEFINE T == {Rank(p, low) : p \in S}
    <2>1. \A p \in S : Rank(p, low) \in Nat
      BY DEF Rank
    <2>2. T \in SUBSET Nat /\ T # {}
      BY <1>2, <2>1
    <2>3. \E m \in T : \A n \in T : m <= n
      <3> HIDE DEF T
      <3> QED BY <2>2, LeastNumber
    <2>4. \E p \in S : \A q \in S : Rank(p, low) <= Rank(q, low)
      BY <2>3
    <2> HIDE DEF T
    <2>5. First(S, low) \in S
      BY <1>2, <2>4 DEF First
    <2> QED BY <2>5
  <1> QED BY <1>1, <1>2

\* The pins that are eligible at a chip.
EligiblePins(a) ==
  {p \in a.req \ a.msk :
     \A q \in (IF a.smm THEN {} ELSE IF a.sfn THEN a.srv \ {2} ELSE a.srv) :
       Rank(p, a.low) < Rank(q, a.low)}

\* The pin vatpic_get_highest_irrpin returns is requested and may go in service.
LEMMA HighestIs ==
  ASSUME NEW a \in Chip
  PROVE  LET p == vatpic_get_highest_irrpin(a)
         IN p = -1 \/ (p \in a.req /\ p \in 0 .. 7 /\ Above(a, p))
  <1> DEFINE p == vatpic_get_highest_irrpin(a)
  <1>1. p = First(EligiblePins(a), a.low)
    BY DEF vatpic_get_highest_irrpin, EligiblePins
  <1>2. EligiblePins(a) \in SUBSET (0 .. 7) /\ a.low \in 0 .. 7 /\ EligiblePins(a) \subseteq a.req
    BY DEF Chip, EligiblePins
  <1>3. p = -1 \/ p \in EligiblePins(a)
    BY <1>1, <1>2, FirstIn
  <1>4. p \in EligiblePins(a) => Above(a, p)
    <2> HIDE DEF p
    <2> QED BY DEF EligiblePins, Above
  <1> HIDE DEF p
  <1>5. p = -1 \/ (p \in a.req /\ p \in 0 .. 7 /\ Above(a, p))
    BY <1>2, <1>3, <1>4
  <1> QED BY <1>5 DEF p

\* Two chips that differ in the request register and the raised interrupt.
Like(a, b) ==
  /\ b.icw = a.icw /\ b.ready = a.ready /\ b.srv = a.srv /\ b.msk = a.msk /\ b.low = a.low
  /\ b.rotate = a.rotate /\ b.smm = a.smm /\ b.sfn = a.sfn /\ b.aeoi = a.aeoi /\ b.poll = a.poll

\* Eligibility does not depend on the raised interrupt.
LEMMA EligibleLike ==
  ASSUME NEW a, NEW b, Like(a, b), b.req = a.req
  PROVE  Eligible(b) <=> Eligible(a)
  BY DEF Eligible, Like, vatpic_get_highest_irrpin

\* A chip without requests has nothing eligible.
LEMMA NoRequest ==
  ASSUME NEW a, a.req = {}
  PROVE  ~Eligible(a)
  BY DEF Eligible, vatpic_get_highest_irrpin, First

\* What may go in service does not depend on requests.
LEMMA AboveLike ==
  ASSUME NEW a, NEW b, Like(a, b), NEW p
  PROVE  Above(a, p) => Above(b, p)
  BY DEF Above, Like

\* Cascaded: the slave first.
LEMMA CascadedIs ==
  ASSUME NEW A \in [Chips -> Chip]
  PROVE  /\ Cascaded(A) \in [Chips -> Chip]
         /\ \A k \in Chips : Like(A[k], Cascaded(A)[k])
         /\ Cascaded(A)[0].raised = A[0].raised /\ Cascaded(A)[1].req = A[1].req
         /\ Cascaded(A)[1].raised <=> A[1].raised \/ Eligible(A[1])
         /\ A[0].req \subseteq Cascaded(A)[0].req
         /\ Cascaded(A)[1].raised /\ ~A[1].raised => 2 \in Cascaded(A)[0].req
         /\ ~Eligible(A[1]) => Cascaded(A) = A
  <1>0. A[0] \in Chip /\ A[1] \in Chip /\ 0 \in Chips /\ 1 \in Chips /\ A[1].raised \in BOOLEAN
    BY DEF Chips, Chip
  <1>1. CASE ~A[1].raised /\ Eligible(A[1])
    <2> DEFINE a == [A[0] EXCEPT !.req = A[0].req \cup {2}]
               b == [A[1] EXCEPT !.raised = TRUE]
               B == [A EXCEPT ![1] = b, ![0] = a]
    <2>1. Cascaded(A) = B
      BY <1>0, <1>1 DEF Cascaded, Chips
    <2>2. a \in Chip /\ Like(A[0], a) /\ a.raised = A[0].raised /\ a.req = A[0].req \cup {2}
      BY <1>0 DEF Chip, Like
    <2>3. b \in Chip /\ Like(A[1], b) /\ b.raised = TRUE /\ b.req = A[1].req
      BY <1>0 DEF Chip, Like
    <2> HIDE DEF a, b
    <2>4. B \in [Chips -> Chip] /\ B[0] = a /\ B[1] = b
      BY <1>0, <2>2, <2>3 DEF Chips
    <2> HIDE DEF B
    <2>5. \A k \in Chips : Like(A[k], B[k])
      BY <2>2, <2>3, <2>4 DEF Chips
    <2> QED BY <1>1, <2>1, <2>2, <2>3, <2>4, <2>5
  <1>2. CASE ~(~A[1].raised /\ Eligible(A[1]))
    <2>1. Cascaded(A) = A
      BY <1>2 DEF Cascaded
    <2>2. \A k \in Chips : Like(A[k], A[k])
      BY DEF Like
    <2> QED BY <1>0, <1>2, <2>1, <2>2
  <1> QED BY <1>1, <1>2

\* vatpic_notify_intr leaves no eligible request that is not raised.
LEMMA NotifiedIs ==
  ASSUME NEW A \in [Chips -> Chip]
  PROVE  /\ Notified(A) \in [Chips -> Chip]
         /\ \A k \in Chips : Like(A[k], Notified(A)[k])
         /\ \A k \in Chips : Eligible(Notified(A)[k]) => Notified(A)[k].raised
         /\ A[0].raised => Notified(A)[0].raised
         /\ (A[1].raised => 2 \in A[0].req) => (Notified(A)[1].raised => 2 \in Notified(A)[0].req)
         /\ Unready(A) => Unready(Notified(A))
  <1> DEFINE C == Cascaded(A)
             c == C[0]
             r == c.raised \/ Eligible(c)
             b == [c EXCEPT !.raised = r]
             B == [C EXCEPT ![0] = b]
  <1>0. A[0] \in Chip /\ A[1] \in Chip /\ 0 \in Chips /\ 1 \in Chips
    BY DEF Chips
  <1>1. /\ C \in [Chips -> Chip] /\ \A k \in Chips : Like(A[k], C[k])
        /\ C[0].raised = A[0].raised /\ C[1].req = A[1].req
        /\ C[1].raised <=> A[1].raised \/ Eligible(A[1])
        /\ A[0].req \subseteq C[0].req
        /\ C[1].raised /\ ~A[1].raised => 2 \in C[0].req
        /\ ~Eligible(A[1]) => C = A
    BY CascadedIs
  <1>2. Notified(A) = B
    <2> HIDE DEF C
    <2>1. [C EXCEPT ![0].raised = @ \/ Eligible(C[0])] = [C EXCEPT ![0] = [C[0] EXCEPT !.raised = C[0].raised \/ Eligible(C[0])]]
      BY <1>0, <1>1
    <2>2. Notified(A) = [C EXCEPT ![0].raised = @ \/ Eligible(C[0])]
      BY DEF Notified, C
    <2> QED BY <2>1, <2>2
  <1> HIDE DEF C
  <1>3. c \in Chip /\ r \in BOOLEAN
    BY <1>0, <1>1 DEF Eligible, Chip
  <1> HIDE DEF c, r
  <1>4. b \in Chip /\ Like(c, b) /\ b.req = c.req /\ b.raised = r
    BY <1>3 DEF Chip, Like
  <1> HIDE DEF b
  <1>5. B \in [Chips -> Chip] /\ B[0] = b /\ B[1] = C[1]
    BY <1>0, <1>1, <1>4 DEF Chips
  <1> HIDE DEF B
  <1>6. Like(A[0], b) /\ Like(A[1], C[1])
    BY <1>0, <1>1, <1>4 DEF Like, c
  <1>7. \A k \in Chips : Like(A[k], B[k])
    BY <1>5, <1>6 DEF Chips
  <1>8. Eligible(b) <=> Eligible(c)
    BY <1>4, EligibleLike
  <1>9. Eligible(C[1]) <=> Eligible(A[1])
    BY <1>1, <1>6, EligibleLike
  <1>10. Eligible(b) => b.raised
    BY <1>4, <1>8 DEF r
  <1>11. Eligible(C[1]) => C[1].raised
    BY <1>1, <1>9
  <1>12. \A k \in Chips : Eligible(B[k]) => B[k].raised
    BY <1>5, <1>10, <1>11 DEF Chips
  <1>13. A[0].raised => B[0].raised
    BY <1>1, <1>4, <1>5 DEF r, c
  <1>14. (A[1].raised => 2 \in A[0].req) => (B[1].raised => 2 \in B[0].req)
    BY <1>1, <1>4, <1>5 DEF c
  <1>15. ASSUME Unready(A) PROVE Unready(B)
    <2>1. ~A[1].ready => ~Eligible(A[1]) /\ A[1].req = {} /\ ~A[1].raised
      BY <1>15, NoRequest DEF Unready, Chips
    <2>2. ~A[0].ready => ~A[1].ready /\ A[0].req = {} /\ ~A[0].raised
      BY <1>15 DEF Unready, Chips
    <2>3. ~A[1].ready => B[1].req = {} /\ ~B[1].raised
      BY <1>1, <1>5, <2>1
    <2>4. ~A[0].ready => c = A[0] /\ c.req = {} /\ ~c.raised
      BY <1>1, <2>1, <2>2 DEF c
    <2>5. ~A[0].ready => B[0].req = {} /\ ~B[0].raised
      BY <1>4, <1>5, <2>4, NoRequest DEF r
    <2>6. B[0].ready = A[0].ready /\ B[1].ready = A[1].ready /\ B[1].icw = A[1].icw
      BY <1>5, <1>6 DEF Like
    <2> QED BY <1>15, <2>3, <2>5, <2>6 DEF Unready, Chips
  <1> QED BY <1>2, <1>5, <1>7, <1>12, <1>13, <1>14, <1>15

\* Chips that differ in requests and raised interrupts only: transitivity.
LEMMA LikeTwice ==
  ASSUME NEW a, NEW b, NEW c, Like(a, b), Like(b, c)
  PROVE  Like(a, c)
  BY DEF Like

\* A wired line is a pin of a chip, and not the cascade.
LEMMA LineFacts ==
  ASSUME NEW l \in Lines
  PROVE  l[1] \in Chips /\ l[2] \in 0 .. 7 /\ (l[1] = 0 => l[2] # 2)
  BY PicConstants DEF Chips

\* vatpic_set_pinstate changes one request, and never that of the cascade.
LEMMA PinState ==
  ASSUME NEW A \in [Chips -> Chip], NEW l \in Lines, NEW old, NEW new
  PROVE  /\ vatpic_set_pinstate(A, l, old, new) \in [Chips -> Chip]
         /\ \A k \in Chips : /\ Like(A[k], vatpic_set_pinstate(A, l, old, new)[k])
                             /\ vatpic_set_pinstate(A, l, old, new)[k].raised = A[k].raised
         /\ 2 \in A[0].req => 2 \in vatpic_set_pinstate(A, l, old, new)[0].req
         /\ A[l[1]].ready /\ Unready(A) => Unready(vatpic_set_pinstate(A, l, old, new))
  <1> DEFINE B == vatpic_set_pinstate(A, l, old, new)
             k == l[1]
             p == l[2]
             a == A[k]
  <1>0. k \in Chips /\ p \in 0 .. 7 /\ (k = 0 => p # 2) /\ a \in Chip
    BY LineFacts
  <1>1. \E r : B = [A EXCEPT ![k].req = r] /\ r \in {a.req, a.req \cup {p}, a.req \ {p}}
    BY <1>0 DEF vatpic_set_pinstate
  <1>2. PICK r : B = [A EXCEPT ![k].req = r] /\ r \in {a.req, a.req \cup {p}, a.req \ {p}}
    BY <1>1
  <1> DEFINE b == [a EXCEPT !.req = r]
  <1> HIDE DEF B, k, p
  <1>3. B = [A EXCEPT ![k] = b]
    BY <1>0, <1>2
  <1>4. r \in SUBSET (0 .. 7)
    BY <1>0, <1>2 DEF Chip
  <1> HIDE DEF a
  <1>5. b \in Chip /\ Like(a, b) /\ b.raised = a.raised /\ b.req = r
    BY <1>0, <1>4 DEF Chip, Like
  <1> HIDE DEF b
  <1>6. B \in [Chips -> Chip] /\ B[k] = b /\ \A j \in Chips : j # k => B[j] = A[j]
    BY <1>0, <1>3, <1>5
  <1>7. \A j \in Chips : Like(A[j], B[j]) /\ B[j].raised = A[j].raised
    BY <1>5, <1>6 DEF Like, a
  <1>8. 2 \in A[0].req => 2 \in B[0].req
    BY <1>0, <1>2, <1>5, <1>6 DEF Chips, a
  <1>9. A[k].ready /\ Unready(A) => Unready(B)
    <2> SUFFICES ASSUME A[k].ready, Unready(A) PROVE Unready(B)
      OBVIOUS
    <2>1. ASSUME NEW j \in Chips, ~B[j].ready PROVE B[j].req = {} /\ ~B[j].raised
      <3>1. ~A[j].ready /\ j # k
        BY <1>7, <2>1 DEF Like
      <3> QED BY <1>6, <3>1 DEF Unready
    <2>2. B[1].icw = A[1].icw /\ B[1].ready = A[1].ready /\ B[0].ready = A[0].ready
      BY <1>7 DEF Like, Chips
    <2> QED BY <2>1, <2>2 DEF Unready
  <1> QED BY <1>6, <1>7, <1>8, <1>9 DEF B, k

\* A step that ends with vatpic_notify_intr on chips A.
LEMMA NotifyStep ==
  ASSUME PicInv, NEW A \in [Chips -> Chip], atpic' = Notified(A),
         pextint' = (pextint \/ (atpic'[0].raised /\ ~atpic[0].raised)),
         atpic[0].raised => A[0].raised,
         \A k \in Chips : A[k].srv \subseteq atpic[k].srv,
         ~strayed => Unready(A) /\ (A[1].raised => 2 \in A[0].req),
         pvec = NoLine \/ \A k \in Chips : Like(atpic[k], A[k]),
         pvec' = pvec, strayed' = strayed,
         pacnt' \in [Lines -> Int], pdev' \in [Lines -> Nat], elc' \in SUBSET Lines
  PROVE  PicInv' /\ Nested
  <1> DEFINE B == Notified(A)
  <1>1. /\ B \in [Chips -> Chip]
        /\ \A k \in Chips : Like(A[k], B[k])
        /\ \A k \in Chips : Eligible(B[k]) => B[k].raised
        /\ A[0].raised => B[0].raised
        /\ (A[1].raised => 2 \in A[0].req) => (B[1].raised => 2 \in B[0].req)
        /\ Unready(A) => Unready(B)
    BY NotifiedIs
  <1>2. atpic' = B
    OBVIOUS
  <1> HIDE DEF B
  <1>3. PicTypeOK'
    <2>1. pextint' \in BOOLEAN
      OBVIOUS
    <2> QED BY <1>1, <1>2, <2>1 DEF PicInv, PicTypeOK
  <1>4. EligibleRaised'
    BY <1>1, <1>2 DEF EligibleRaised
  <1>5. RaisedHasExtint'
    <2>1. B[0].raised \in BOOLEAN /\ atpic[0].raised \in BOOLEAN
      BY <1>1 DEF PicInv, PicTypeOK, Chip, Chips
    <2> QED BY <1>1, <1>2, <2>1 DEF PicInv, PicTypeOK, RaisedHasExtint
  <1>6. ~strayed' => Unready(atpic')
    BY <1>1, <1>2
  <1>7. Reported'
    <2> SUFFICES ASSUME pvec # NoLine
                 PROVE  /\ pvec[1] = 0 => pvec[2] # 2
                        /\ Above(atpic'[pvec[1]], pvec[2])
                        /\ pvec[1] = 1 => Above(atpic'[0], 2)
      BY DEF Reported
    <2>1. pvec[1] \in Chips /\ 0 \in Chips
      BY DEF PicInv, PicTypeOK, Chips
    <2>2. \A k \in Chips : Like(atpic[k], B[k])
      BY <1>1, LikeTwice
    <2>3. \A k \in Chips : \A p : Above(atpic[k], p) => Above(B[k], p)
      BY <2>2, AboveLike
    <2> QED BY <1>2, <2>1, <2>3 DEF PicInv, Reported
  <1>8. Nested
    <2>1. \A k \in Chips : atpic'[k].srv \ atpic[k].srv = {}
      BY <1>1, <1>2 DEF Like
    <2> QED BY <2>1 DEF Nested
  <1>9. (~strayed => Unready(atpic))'
    BY <1>6
  <1> QED BY <1>3, <1>4, <1>5, <1>7, <1>8, <1>9 DEF PicInv

\* A device changes a line.
LEMMA IrqStep ==
  ASSUME PicInv, NEW l \in Lines, NEW d \in {-1, 1}, vatpic_set_irqstate(l, d),
         pdev' \in [Lines -> Nat], UNCHANGED <<elc, pvec, strayed>>
  PROVE  PicInv' /\ Nested
  <1>t. atpic \in [Chips -> Chip] /\ pacnt \in [Lines -> Int] /\ elc \in SUBSET Lines
    BY DEF PicInv, PicTypeOK
  <1>1. CASE atpic[l[1]].ready
    <2> DEFINE A == vatpic_set_pinstate(atpic, l, pacnt[l], pacnt[l] + d)
    <2>1. pacnt' = [pacnt EXCEPT ![l] = @ + d] /\ vatpic_notify_intr(A)
      BY <1>1 DEF vatpic_set_irqstate
    <2>2. /\ A \in [Chips -> Chip]
          /\ \A k \in Chips : Like(atpic[k], A[k]) /\ A[k].raised = atpic[k].raised
          /\ 2 \in atpic[0].req => 2 \in A[0].req
          /\ atpic[l[1]].ready /\ Unready(atpic) => Unready(A)
      BY <1>t, PinState
    <2> HIDE DEF A
    <2>3. A[0].raised = atpic[0].raised /\ A[1].raised = atpic[1].raised
      BY <2>2 DEF Chips
    <2>4. atpic' = Notified(A) /\ pextint' = (pextint \/ (atpic'[0].raised /\ ~atpic[0].raised))
      BY <2>1, <2>3 DEF vatpic_notify_intr
    <2>5. ~strayed => Unready(A) /\ (A[1].raised => 2 \in A[0].req)
      BY <1>1, <2>2, <2>3 DEF PicInv, EligibleRaised
    <2>6. \A k \in Chips : A[k].srv \subseteq atpic[k].srv
      BY <2>2 DEF Like
    <2>7. pacnt' \in [Lines -> Int]
      BY <1>t, <2>1
    <2> QED BY <1>t, <2>2, <2>3, <2>4, <2>5, <2>6, <2>7, NotifyStep
  <1>2. CASE ~atpic[l[1]].ready
    <2>1. UNCHANGED <<atpic, pacnt, pextint, elc, pvec, strayed>>
      BY <1>2 DEF vatpic_set_irqstate
    <2>2. PicInv'
      BY <2>1 DEF PicInv, PicTypeOK, EligibleRaised, RaisedHasExtint, Reported
    <2>3. Nested
      BY <2>1 DEF Nested
    <2> QED BY <2>2, <2>3
  <1> QED BY <1>1, <1>2

\* vatpic_assert_irq and vatpic_deassert_irq.
LEMMA AssertStep ==
  ASSUME PicInv, NEW l \in Lines, vatpic_assert_irq(l) \/ vatpic_deassert_irq(l)
  PROVE  PicInv' /\ Nested
  <1>1. pdev \in [Lines -> Nat]
    BY DEF PicInv, PicTypeOK
  <1>2. CASE vatpic_assert_irq(l)
    <2>1. pdev' \in [Lines -> Nat]
      BY <1>1, <1>2 DEF vatpic_assert_irq
    <2> QED BY <1>2, <2>1, IrqStep DEF vatpic_assert_irq
  <1>3. CASE vatpic_deassert_irq(l)
    <2>1. pdev' \in [Lines -> Nat]
      BY <1>1, <1>3 DEF vatpic_deassert_irq
    <2> QED BY <1>3, <2>1, IrqStep DEF vatpic_deassert_irq
  <1> QED BY <1>2, <1>3

\* vatpic_pulse_irq: two changes of the line, each notified.
LEMMA PulseStep ==
  ASSUME PicInv, NEW l \in Lines, vatpic_pulse_irq(l)
  PROVE  PicInv' /\ Nested
  <1>t. /\ atpic \in [Chips -> Chip] /\ pacnt \in [Lines -> Int] /\ elc \in SUBSET Lines
        /\ pdev \in [Lines -> Nat] /\ l[1] \in Chips
    BY LineFacts DEF PicInv, PicTypeOK
  <1> DEFINE n == pacnt[l]
             A == vatpic_set_pinstate(atpic, l, n, n + 1)
             U == Notified(A)
             B == vatpic_set_pinstate(U, l, n + 1, n)
  <1>1. /\ A \in [Chips -> Chip]
        /\ \A k \in Chips : Like(atpic[k], A[k]) /\ A[k].raised = atpic[k].raised
        /\ 2 \in atpic[0].req => 2 \in A[0].req
        /\ atpic[l[1]].ready /\ Unready(atpic) => Unready(A)
    BY <1>t, PinState
  <1> HIDE DEF A
  <1>2. /\ U \in [Chips -> Chip]
        /\ \A k \in Chips : Like(A[k], U[k])
        /\ A[0].raised => U[0].raised
        /\ (A[1].raised => 2 \in A[0].req) => (U[1].raised => 2 \in U[0].req)
        /\ Unready(A) => Unready(U)
    BY <1>1, NotifiedIs
  <1> HIDE DEF U
  <1>3. /\ B \in [Chips -> Chip]
        /\ \A k \in Chips : Like(U[k], B[k]) /\ B[k].raised = U[k].raised
        /\ 2 \in U[0].req => 2 \in B[0].req
        /\ U[l[1]].ready /\ Unready(U) => Unready(B)
    BY <1>2, PinState
  <1>4. /\ atpic[l[1]].ready /\ atpic' = Notified(B) /\ UNCHANGED <<pacnt, elc, pvec, pdev, strayed>>
        /\ pextint' = (pextint \/ (atpic'[0].raised /\ ~atpic[0].raised))
    BY DEF vatpic_pulse_irq, B, U, A
  <1> HIDE DEF B
  <1>5. \A k \in Chips : Like(atpic[k], B[k])
    BY <1>1, <1>2, <1>3, LikeTwice
  <1>6. U[l[1]].ready
    BY <1>t, <1>1, <1>2, <1>4 DEF Like
  <1>7. atpic[0].raised => B[0].raised
    BY <1>1, <1>2, <1>3 DEF Chips
  <1>8. ~strayed => Unready(B) /\ (B[1].raised => 2 \in B[0].req)
    <2>1. ~strayed => Unready(atpic) /\ (atpic[1].raised => 2 \in atpic[0].req)
      BY DEF PicInv, EligibleRaised
    <2>2. ~strayed => Unready(A) /\ (A[1].raised => 2 \in A[0].req)
      BY <1>1, <1>4, <2>1 DEF Chips
    <2>3. ~strayed => Unready(U) /\ (U[1].raised => 2 \in U[0].req)
      BY <1>2, <2>2
    <2> QED BY <1>3, <1>6, <2>3 DEF Chips
  <1>9. \A k \in Chips : B[k].srv \subseteq atpic[k].srv
    BY <1>5 DEF Like
  <1> QED BY <1>t, <1>3, <1>4, <1>5, <1>7, <1>8, <1>9, NotifyStep

\* The edge/level control register moves no request.
LEMMA ElcStep ==
  ASSUME PicInv, NEW l \in Lines, vatpic_elc_handler(l)
  PROVE  PicInv' /\ Nested
  <1>1. PicInv'
    <2>1. elc' \subseteq Lines /\ UNCHANGED <<atpic, pacnt, pextint, pvec, pdev, strayed>>
      BY DEF vatpic_elc_handler, PicInv, PicTypeOK
    <2> QED BY <2>1 DEF PicInv, PicTypeOK, EligibleRaised, RaisedHasExtint, Reported
  <1>2. Nested
    BY DEF vatpic_elc_handler, Nested
  <1> QED BY <1>1, <1>2

\* One chip is changed.
LEMMA OneChip ==
  ASSUME NEW A \in [Chips -> Chip], NEW k \in Chips, NEW a \in Chip
  PROVE  /\ [A EXCEPT ![k] = a] \in [Chips -> Chip] /\ [A EXCEPT ![k] = a][k] = a
         /\ \A j \in Chips : j # k => [A EXCEPT ![k] = a][j] = A[j]
  OBVIOUS

\* A step of the guest that changes one chip and notifies.
LEMMA GuestNotify ==
  ASSUME PicInv, NEW k \in Chips, NEW a \in Chip, vatpic_notify_intr([atpic EXCEPT ![k] = a]),
         pvec = NoLine, UNCHANGED <<pacnt, elc, pvec, pdev, strayed>>,
         a.req = atpic[k].req, a.raised = atpic[k].raised, a.srv \subseteq atpic[k].srv, a.ready,
         atpic[k].ready \/ atpic[k].icw # 0
  PROVE  PicInv' /\ Nested
  <1> DEFINE A == [atpic EXCEPT ![k] = a]
  <1>t. atpic \in [Chips -> Chip] /\ pacnt \in [Lines -> Int] /\ elc \in SUBSET Lines /\ pdev \in [Lines -> Nat]
    BY DEF PicInv, PicTypeOK
  <1>1. A \in [Chips -> Chip] /\ A[k] = a /\ \A j \in Chips : j # k => A[j] = atpic[j]
    BY <1>t, OneChip
  <1>n. vatpic_notify_intr(A)
    OBVIOUS
  <1> HIDE DEF A
  <1>2. \A j \in Chips : A[j].req = atpic[j].req /\ A[j].raised = atpic[j].raised /\ A[j].srv \subseteq atpic[j].srv
    BY <1>1
  <1>3. atpic' = Notified(A) /\ pextint' = (pextint \/ (atpic'[0].raised /\ ~atpic[0].raised))
    BY <1>n, <1>2 DEF vatpic_notify_intr, Chips
  <1>4. ASSUME ~strayed PROVE Unready(A) /\ (A[1].raised => 2 \in A[0].req)
    <2>1. Unready(atpic) /\ (atpic[1].raised => 2 \in atpic[0].req)
      BY <1>4 DEF PicInv, EligibleRaised
    <2>2. A[1].raised => 2 \in A[0].req
      BY <1>2, <2>1 DEF Chips
    <2>3. \A j \in Chips : ~A[j].ready => A[j].req = {} /\ ~A[j].raised
      BY <1>1, <2>1 DEF Unready
    <2>4. A[1].icw # 0 \/ A[1].ready => A[0].ready
      BY <1>1, <2>1 DEF Unready, Chips
    <2> QED BY <2>2, <2>3, <2>4 DEF Unready
  <1>5. atpic[0].raised => A[0].raised
    BY <1>2 DEF Chips
  <1>6. A \in [Chips -> Chip] /\ \A j \in Chips : A[j].srv \subseteq atpic[j].srv
    BY <1>1, <1>2
  <1> QED BY <1>t, <1>3, <1>4, <1>5, <1>6, NotifyStep

\* A step of the guest that changes one chip and does not notify: the chip is
\* not ready, or has been polled.
LEMMA GuestQuiet ==
  ASSUME PicInv, NEW k \in Chips, NEW a \in Chip, atpic' = [atpic EXCEPT ![k] = a],
         pvec = NoLine, UNCHANGED <<pacnt, elc, pextint, pvec, pdev>>, strayed' \in BOOLEAN,
         strayed => strayed',
         ~strayed' => /\ ~atpic[k].ready /\ ~a.ready
                      /\ a.req \in {{}, atpic[k].req} /\ a.raised = atpic[k].raised
                      /\ k = 1 => a.icw = 0 \/ atpic[0].ready,
         \A p \in a.srv \ atpic[k].srv : Above(atpic[k], p)
  PROVE  PicInv' /\ Nested
  <1> DEFINE A == [atpic EXCEPT ![k] = a]
  <1>t. atpic \in [Chips -> Chip]
    BY DEF PicInv, PicTypeOK
  <1>1. A \in [Chips -> Chip] /\ A[k] = a /\ \A j \in Chips : j # k => A[j] = atpic[j]
    BY <1>t, OneChip
  <1>2. atpic' = A
    OBVIOUS
  <1> HIDE DEF A
  <1>3. PicTypeOK'
    BY <1>1, <1>2 DEF PicInv, PicTypeOK
  <1>4. ASSUME ~strayed' PROVE EligibleRaised' /\ RaisedHasExtint' /\ Unready(A)
    <2>1. ~strayed /\ Unready(atpic) /\ (atpic[1].raised => 2 \in atpic[0].req) /\ (atpic[0].raised <=> pextint)
      BY <1>4 DEF PicInv, EligibleRaised, RaisedHasExtint, PicTypeOK
    <2>2. ~a.ready /\ a.req = {} /\ ~a.raised /\ atpic[k].req = {} /\ ~atpic[k].raised /\ ~atpic[k].ready
      BY <1>4, <2>1 DEF Unready
    <2>3. \A j \in Chips : A[j].req = atpic[j].req /\ (A[j].raised <=> atpic[j].raised)
      BY <1>1, <2>2
    <2>4. \A j \in Chips : A[j].ready /\ Eligible(A[j]) => A[j].raised
      <3> SUFFICES ASSUME NEW j \in Chips, A[j].ready, Eligible(A[j]) PROVE A[j].raised
        OBVIOUS
      <3>1. j # k /\ A[j] = atpic[j]
        BY <1>1, <2>2
      <3> QED BY <2>1, <3>1 DEF PicInv, EligibleRaised
    <2>5. EligibleRaised'
      BY <1>2, <2>1, <2>3, <2>4 DEF EligibleRaised, Chips
    <2>6. RaisedHasExtint'
      BY <1>2, <2>1, <2>3 DEF RaisedHasExtint, Chips
    <2>7. \A j \in Chips : ~A[j].ready => A[j].req = {} /\ ~A[j].raised
      BY <1>1, <2>1, <2>2 DEF Unready
    <2>8. A[1].icw # 0 \/ A[1].ready => A[0].ready
      <3>1. CASE k = 1
        BY <1>1, <1>4, <2>2, <3>1 DEF Chips
      <3>2. CASE k = 0
        BY <1>1, <2>1, <2>2, <3>2 DEF Chips, Unready
      <3> QED BY <3>1, <3>2 DEF Chips
    <2> QED BY <2>5, <2>6, <2>7, <2>8 DEF Unready
  <1>5. EligibleRaised' /\ RaisedHasExtint'
    BY <1>4 DEF EligibleRaised, RaisedHasExtint
  <1>6. (~strayed => Unready(atpic))'
    BY <1>2, <1>4
  <1>7. Reported'
    BY DEF Reported
  <1>8. Nested
    BY <1>1, <1>2 DEF Nested, Above
  <1> QED BY <1>3, <1>5, <1>6, <1>7, <1>8 DEF PicInv

\* ICW1: of a chip not yet initialised, or the guest has strayed.
LEMMA Icw1Step ==
  ASSUME PicInv, NEW k \in Chips, vatpic_icw1(k)
  PROVE  PicInv' /\ Nested
  <1>t. atpic \in [Chips -> Chip] /\ atpic[k] \in Chip /\ strayed \in BOOLEAN
    BY DEF PicInv, PicTypeOK
  <1> DEFINE a == [atpic[k] EXCEPT !.ready = FALSE, !.icw = 2, !.req = {}, !.msk = {},
                                   !.low = 7, !.poll = FALSE, !.smm = FALSE]
  <1>1. atpic' = [atpic EXCEPT ![k] = a]
    BY <1>t DEF vatpic_icw1
  <1>2. a \in Chip /\ a.req = {} /\ a.raised = atpic[k].raised /\ a.srv = atpic[k].srv /\ ~a.ready
    <2> DEFINE b == atpic[k]
    <2>1. b \in Chip
      BY <1>t
    <2> HIDE DEF b
    <2> DEFINE c == [b EXCEPT !.ready = FALSE, !.icw = 2, !.req = {}, !.msk = {}]
               d == [c EXCEPT !.low = 7, !.poll = FALSE, !.smm = FALSE]
    <2>2. c \in Chip /\ c.req = {} /\ c.raised = b.raised /\ c.srv = b.srv /\ c.ready = FALSE
      BY <2>1 DEF Chip
    <2>3. a = d
      BY DEF b
    <2> HIDE DEF a, c
    <2>c. c \in Chip
      BY <2>2
    <2>4. 7 \in 0 .. 7
      OBVIOUS
    <2>5. d \in Chip
      BY <2>c, <2>4 DEF Chip
    <2>6. d.req = c.req /\ d.srv = c.srv
      BY <2>c DEF Chip
    <2>7. d.raised = c.raised
      BY <2>c DEF Chip
    <2>8. d.ready = c.ready
      BY <2>c DEF Chip
    <2> QED BY <2>2, <2>3, <2>5, <2>6, <2>7, <2>8 DEF b
  <1> HIDE DEF a
  <1>3. /\ pvec = NoLine /\ UNCHANGED <<pacnt, elc, pextint, pvec, pdev>>
        /\ strayed' = (strayed \/ Again(k))
    BY DEF vatpic_icw1
  <1>4. ~strayed' => ~atpic[k].ready /\ (k = 1 => atpic[0].ready)
    BY <1>3 DEF Again
  <1>5. strayed' \in BOOLEAN /\ (strayed => strayed')
    BY <1>3 
  <1> QED BY <1>1, <1>2, <1>3, <1>4, <1>5, GuestQuiet

\* ICW2 and ICW3.
LEMMA Icw23Step ==
  ASSUME PicInv, NEW k \in Chips, vatpic_icw23(k)
  PROVE  PicInv' /\ Nested
  <1>t. atpic \in [Chips -> Chip] /\ atpic[k] \in Chip /\ strayed \in BOOLEAN
    BY DEF PicInv, PicTypeOK
  <1> DEFINE n == atpic[k].icw + 1
             a == [atpic[k] EXCEPT !.icw = n]
             A == [atpic EXCEPT ![k] = a]
  <1>1. n \in {0, 2, 3, 4} /\ atpic' = A
    BY <1>t DEF vatpic_icw23
  <1> HIDE DEF n
  <1>2. /\ a \in Chip /\ a.req = atpic[k].req /\ a.raised = atpic[k].raised /\ a.srv = atpic[k].srv
        /\ a.ready = atpic[k].ready /\ Like([a EXCEPT !.icw = atpic[k].icw], atpic[k])
        /\ a.msk = atpic[k].msk /\ a.smm = atpic[k].smm /\ a.sfn = atpic[k].sfn /\ a.low = atpic[k].low
    BY <1>t, <1>1 DEF Chip, Like
  <1>3. A \in [Chips -> Chip] /\ A[k] = a /\ \A j \in Chips : j # k => A[j] = atpic[j]
    BY <1>t, <1>2, OneChip
  <1>4. /\ pvec = NoLine /\ UNCHANGED <<pacnt, elc, pextint, pvec, pdev, strayed>> /\ atpic[k].icw # 0
    BY DEF vatpic_icw23
  <1> HIDE DEF a, A
  <1>5. Eligible(a) <=> Eligible(atpic[k])
    BY <1>2 DEF Eligible, vatpic_get_highest_irrpin
  <1>6. \A j \in Chips : /\ A[j].req = atpic[j].req /\ A[j].raised = atpic[j].raised
                         /\ A[j].srv = atpic[j].srv /\ A[j].ready = atpic[j].ready
                         /\ Eligible(A[j]) <=> Eligible(atpic[j])
    BY <1>2, <1>3, <1>5
  <1>7. PicTypeOK'
    BY <1>1, <1>3, <1>4 DEF PicInv, PicTypeOK
  <1>8. EligibleRaised' /\ RaisedHasExtint'
    BY <1>1, <1>4, <1>6 DEF PicInv, EligibleRaised, RaisedHasExtint, Chips
  <1>9. (~strayed => Unready(atpic))'
    <2>1. A[1].icw # 0 => atpic[1].icw # 0
      BY <1>3, <1>4 DEF Chips
    <2>2. Unready(atpic) => Unready(A)
      BY <1>6, <2>1 DEF Unready, Chips
    <2> QED BY <1>1, <1>4, <2>2 DEF PicInv
  <1>10. Reported' /\ Nested
    BY <1>1, <1>4, <1>6 DEF Reported, Nested
  <1> QED BY <1>7, <1>8, <1>9, <1>10 DEF PicInv

\* ICW4 makes the chip ready and notifies.
LEMMA Icw4Step ==
  ASSUME PicInv, NEW k \in Chips, NEW auto \in BOOLEAN, NEW nested \in BOOLEAN,
         vatpic_icw4(k, auto, nested)
  PROVE  PicInv' /\ Nested
  <1>t. atpic \in [Chips -> Chip] /\ atpic[k] \in Chip /\ strayed \in BOOLEAN
    BY DEF PicInv, PicTypeOK
  <1> DEFINE e == atpic[k].aeoi \/ auto
             n == atpic[k].sfn \/ (nested /\ k = 0)
             a == [atpic[k] EXCEPT !.icw = 0, !.ready = TRUE, !.aeoi = e, !.sfn = n]
  <1>1. vatpic_notify_intr([atpic EXCEPT ![k] = a])
    BY DEF vatpic_icw4
  <1>2. e \in BOOLEAN /\ n \in BOOLEAN
    BY <1>t DEF Chip
  <1> HIDE DEF e, n
  <1>3. a \in Chip /\ a.req = atpic[k].req /\ a.raised = atpic[k].raised /\ a.srv \subseteq atpic[k].srv /\ a.ready
    BY <1>t, <1>2 DEF Chip
  <1> HIDE DEF a
  <1>4. pvec = NoLine /\ UNCHANGED <<pacnt, elc, pvec, pdev, strayed>> /\ atpic[k].icw # 0
    BY DEF vatpic_icw4
  <1> QED BY <1>1, <1>3, <1>4, GuestNotify

\* The masks the guest writes.
LEMMA MaskType ==
  ASSUME NEW k \in Chips, NEW S \in Masks(k)
  PROVE  S \in SUBSET (0 .. 7)
  <1>1. {l[2] : l \in {x \in Lines : x[1] = k}} \subseteq 0 .. 7
    BY LineFacts
  <1> QED BY <1>1 DEF Masks

\* OCW1 notifies if the chip is ready.
LEMMA Ocw1Step ==
  ASSUME PicInv, NEW k \in Chips, NEW S \in Masks(k), vatpic_ocw1(k, S)
  PROVE  PicInv' /\ Nested
  <1>t. atpic \in [Chips -> Chip] /\ atpic[k] \in Chip /\ strayed \in BOOLEAN /\ S \in SUBSET (0 .. 7)
    BY MaskType DEF PicInv, PicTypeOK
  <1> DEFINE a == [atpic[k] EXCEPT !.msk = S]
             A == [atpic EXCEPT ![k] = a]
  <1>1. a \in Chip /\ a.req = atpic[k].req /\ a.raised = atpic[k].raised /\ a.srv = atpic[k].srv
        /\ a.ready = atpic[k].ready /\ a.icw = atpic[k].icw
    BY <1>t DEF Chip
  <1>2. A[k] = a
    BY <1>t
  <1>3. /\ pvec = NoLine /\ UNCHANGED <<pacnt, elc, pvec, pdev, strayed>> /\ atpic[k].icw = 0
        /\ IF A[k].ready THEN vatpic_notify_intr(A) ELSE atpic' = A /\ UNCHANGED pextint
    BY <1>t DEF vatpic_ocw1
  <1> HIDE DEF a
  <1>4. CASE atpic[k].ready
    BY <1>1, <1>2, <1>3, <1>4, GuestNotify
  <1>5. CASE ~atpic[k].ready
    <2>1. atpic' = A /\ UNCHANGED pextint
      BY <1>1, <1>2, <1>3, <1>5
    <2> QED BY <1>t, <1>1, <1>3, <1>5, <2>1, GuestQuiet
  <1> QED BY <1>4, <1>5

\* OCW2: EOIs and rotations notify.
LEMMA Ocw2Step ==
  ASSUME PicInv, NEW k \in Chips, NEW eoi \in BOOLEAN, NEW rot \in BOOLEAN,
         NEW named \in {-1} \cup atpic[k].srv, vatpic_ocw2(k, eoi, named, rot)
  PROVE  PicInv' /\ Nested
  <1>t. atpic \in [Chips -> Chip] /\ atpic[k] \in Chip /\ strayed \in BOOLEAN
    BY DEF PicInv, PicTypeOK
  <1> DEFINE p == IF eoi /\ named = -1 THEN vatpic_get_highest_isrpin(atpic[k]) ELSE named
             s == IF eoi THEN atpic[k].srv \ {p} ELSE atpic[k].srv
             w == IF rot /\ p # -1 THEN p ELSE atpic[k].low
             a == [atpic[k] EXCEPT !.rotate = rot, !.srv = s, !.low = w]
  <1>1. vatpic_notify_intr([atpic EXCEPT ![k] = a])
    BY DEF vatpic_ocw2
  <1>2. p = -1 \/ p \in 0 .. 7
    <2>1. named = -1 \/ named \in 0 .. 7
      BY <1>t DEF Chip
    <2>2. vatpic_get_highest_isrpin(atpic[k]) = -1 \/ vatpic_get_highest_isrpin(atpic[k]) \in 0 .. 7
      <3> DEFINE S == IF atpic[k].smm THEN atpic[k].srv \ atpic[k].msk ELSE atpic[k].srv
      <3>1. S \in SUBSET (0 .. 7) /\ atpic[k].low \in 0 .. 7
        BY <1>t DEF Chip
      <3>2. vatpic_get_highest_isrpin(atpic[k]) = First(S, atpic[k].low)
        BY DEF vatpic_get_highest_isrpin
      <3> HIDE DEF S
      <3> QED BY <3>1, <3>2, FirstIn
    <2> QED BY <2>1, <2>2
  <1> HIDE DEF p
  <1>3. s \in SUBSET (0 .. 7) /\ w \in 0 .. 7 /\ s \subseteq atpic[k].srv
    BY <1>t, <1>2 DEF Chip
  <1> HIDE DEF s, w
  <1>4. a \in Chip /\ a.req = atpic[k].req /\ a.raised = atpic[k].raised /\ a.srv \subseteq atpic[k].srv /\ a.ready = atpic[k].ready
    BY <1>t, <1>3 DEF Chip
  <1> HIDE DEF a
  <1>5. pvec = NoLine /\ UNCHANGED <<pacnt, elc, pvec, pdev, strayed>> /\ atpic[k].ready
    BY DEF vatpic_ocw2
  <1> QED BY <1>1, <1>4, <1>5, GuestNotify

\* OCW3: special mask mode and the poll command notify.
LEMMA Ocw3Step ==
  ASSUME PicInv, NEW k \in Chips, NEW what \in {"SMM", "POLL"}, vatpic_ocw3(k, what)
  PROVE  PicInv' /\ Nested
  <1>t. atpic \in [Chips -> Chip] /\ atpic[k] \in Chip /\ strayed \in BOOLEAN
    BY DEF PicInv, PicTypeOK
  <1> DEFINE a == IF what = "SMM" THEN [atpic[k] EXCEPT !.smm = ~atpic[k].smm]
                  ELSE [atpic[k] EXCEPT !.poll = TRUE]
  <1>1. vatpic_notify_intr([atpic EXCEPT ![k] = a])
    BY DEF vatpic_ocw3
  <1>2. a \in Chip /\ a.req = atpic[k].req /\ a.raised = atpic[k].raised /\ a.srv = atpic[k].srv /\ a.ready = atpic[k].ready
    BY <1>t DEF Chip
  <1> HIDE DEF a
  <1>3. pvec = NoLine /\ UNCHANGED <<pacnt, elc, pvec, pdev, strayed>> /\ atpic[k].ready
    BY DEF vatpic_ocw3
  <1> QED BY <1>1, <1>2, <1>3, GuestNotify

\* The chips B are A with pin p of chip k accepted: the pin goes in service, and
\* of the requests only its own may go.
Accepts(A, B, k, p) ==
  /\ B \in [Chips -> Chip]
  /\ \A j \in Chips : j # k => B[j] = A[j]
  /\ B[k].raised = FALSE /\ B[k].ready = A[k].ready /\ B[k].icw = A[k].icw
  /\ B[k].req \subseteq A[k].req /\ A[k].req \ {p} \subseteq B[k].req
  /\ B[k].srv \subseteq A[k].srv \cup {p}

\* vatpic_pin_accepted accepts the pin.
LEMMA AcceptedIs ==
  ASSUME NEW A \in [Chips -> Chip], NEW k \in Chips, NEW p \in 0 .. 7
  PROVE  Accepts(A, vatpic_pin_accepted(A, k, p), k, p)
  <1> DEFINE a == A[k]
             held == <<k, p>> \in Lines /\ pacnt[<<k, p>>] # 0
             r == IF held THEN a.req ELSE a.req \ {p}
             s == IF a.aeoi THEN a.srv ELSE a.srv \cup {p}
             w == IF a.aeoi /\ a.rotate THEN p ELSE a.low
             b == [a EXCEPT !.raised = FALSE, !.req = r, !.srv = s, !.low = w]
             B == [A EXCEPT ![k] = b]
  <1>1. vatpic_pin_accepted(A, k, p) = B
    BY DEF vatpic_pin_accepted
  <1>2. a \in Chip
    OBVIOUS
  <1> HIDE DEF a, held
  <1>3. r \in SUBSET (0 .. 7) /\ r \subseteq a.req /\ a.req \ {p} \subseteq r
    BY <1>2 DEF Chip
  <1>4. s \in SUBSET (0 .. 7) /\ s \subseteq a.srv \cup {p}
    BY <1>2 DEF Chip
  <1>5. w \in 0 .. 7
    BY <1>2 DEF Chip
  <1> HIDE DEF r, s, w
  <1>6. b \in Chip
    BY <1>2, <1>3, <1>4, <1>5 DEF Chip
  <1>7. b.raised = FALSE /\ b.req = r /\ b.srv = s
    BY <1>2 DEF Chip
  <1>8. b.ready = a.ready
    BY <1>2 DEF Chip
  <1>9. b.icw = a.icw
    BY <1>2 DEF Chip
  <1> HIDE DEF b
  <1>10. B \in [Chips -> Chip] /\ B[k] = b /\ \A j \in Chips : j # k => B[j] = A[j]
    BY <1>6, OneChip
  <1> HIDE DEF B
  <1> QED BY <1>1, <1>3, <1>4, <1>7, <1>8, <1>9, <1>10 DEF a, Accepts

\* A poll reads the highest eligible pin and puts it in service.
LEMMA PollStep ==
  ASSUME PicInv, NEW k \in Chips, PollRead(k)
  PROVE  PicInv' /\ Nested
  <1> DEFINE p == vatpic_get_highest_irrpin(atpic[k])
             b == [atpic[k] EXCEPT !.poll = FALSE]
             A == [atpic EXCEPT ![k] = b]
             B == IF p = -1 THEN A ELSE vatpic_pin_accepted(A, k, p)
  <1>t. atpic \in [Chips -> Chip] /\ atpic[k] \in Chip
    BY DEF PicInv, PicTypeOK
  <1>1. p = -1 \/ (p \in 0 .. 7 /\ Above(atpic[k], p))
    BY <1>t, HighestIs
  <1>2. /\ atpic' = B /\ pvec = NoLine /\ strayed' = TRUE
        /\ UNCHANGED <<pacnt, elc, pextint, pvec, pdev>>
    <2>1. [atpic EXCEPT ![k].poll = FALSE] = A
      BY <1>t
    <2> QED BY <2>1 DEF PollRead
  <1> HIDE DEF p
  <1>3. b \in Chip /\ b.srv = atpic[k].srv
    BY <1>t DEF Chip
  <1> HIDE DEF b
  <1>4. A \in [Chips -> Chip] /\ A[k] = b /\ \A j \in Chips : j # k => A[j] = atpic[j]
    BY <1>t, <1>3, OneChip
  <1> HIDE DEF A
  <1>5. /\ B \in [Chips -> Chip] /\ \A j \in Chips : j # k => B[j] = atpic[j]
        /\ \A q \in B[k].srv \ atpic[k].srv : Above(atpic[k], q)
    <2>1. CASE p = -1
      BY <1>3, <1>4, <2>1
    <2>2. CASE p # -1
      <3>1. p \in 0 .. 7 /\ B = vatpic_pin_accepted(A, k, p)
        BY <1>1, <2>2
      <3>2. /\ B \in [Chips -> Chip] /\ \A j \in Chips : j # k => B[j] = A[j]
            /\ B[k].srv \subseteq A[k].srv \cup {p}
        BY ZenonT(60), <1>4, <3>1, AcceptedIs DEF Accepts
      <3> HIDE DEF B
      <3> QED BY <1>1, <1>3, <1>4, <2>2, <3>2
    <2> QED BY <2>1, <2>2
  <1> HIDE DEF B
  <1>6. PicTypeOK'
    BY <1>2, <1>5 DEF PicInv, PicTypeOK
  <1>7. EligibleRaised' /\ RaisedHasExtint'
    BY <1>2 DEF EligibleRaised, RaisedHasExtint
  <1>8. (~strayed => Unready(atpic))'
    BY <1>2
  <1>9. Reported'
    BY <1>2 DEF Reported
  <1>10. Nested
    BY <1>2, <1>5 DEF Nested, Above
  <1> QED BY <1>6, <1>7, <1>8, <1>9, <1>10 DEF PicInv

\* What vatpic_pending_intr reports may go in service.
LEMMA PendingStep ==
  ASSUME PicInv, vatpic_pending_intr
  PROVE  PicInv' /\ Nested
  <1> DEFINE m == vatpic_get_highest_irrpin(atpic[0])
             k == IF m = 2 THEN 1 ELSE 0
             p == vatpic_get_highest_irrpin(atpic[k])
             v == IF p = -1 THEN 7 ELSE p
  <1>t. atpic \in [Chips -> Chip] /\ atpic[0] \in Chip /\ k \in Chips /\ atpic[k] \in Chip
    BY DEF PicInv, PicTypeOK, Chips
  <1>1. m = -1 \/ (m \in 0 .. 7 /\ Above(atpic[0], m))
    BY <1>t, HighestIs
  <1>2. p = -1 \/ (p \in 0 .. 7 /\ Above(atpic[k], p))
    BY <1>t, HighestIs
  <1>3. pvec' = <<k, v>> /\ UNCHANGED <<atpic, pacnt, elc, pextint, pdev, strayed>>
    BY DEF vatpic_pending_intr
  <1>4. (k = 1 => m = 2) /\ (k = 0 => p = m /\ m # 2)
    BY <1>t DEF Chips
  <1> HIDE DEF m, k, p
  <1>5. v \in 0 .. 7 /\ Above(atpic[k], v)
    BY <1>2 DEF Above
  <1>6. k = 0 => v # 2
    BY <1>4
  <1>7. k = 1 => Above(atpic[0], 2)
    BY <1>1, <1>4
  <1> HIDE DEF v
  <1>8. PicTypeOK'
    BY <1>t, <1>3, <1>5 DEF PicInv, PicTypeOK
  <1>9. EligibleRaised' /\ RaisedHasExtint' /\ (~strayed => Unready(atpic))'
    BY <1>3 DEF PicInv, EligibleRaised, RaisedHasExtint
  <1>10. Reported'
    BY <1>3, <1>5, <1>6, <1>7 DEF Reported
  <1>11. Nested
    BY <1>3 DEF Nested
  <1> QED BY <1>8, <1>9, <1>10, <1>11 DEF PicInv

\* The acceptance: of the line reported, and of the cascade if it is the
\* slave's, whatever the devices did since.
LEMMA AcceptStep ==
  ASSUME PicInv, vatpic_intr_accepted
  PROVE  PicInv' /\ Nested
  <1> DEFINE k == pvec[1]
             p == pvec[2]
             A == vatpic_pin_accepted(atpic, k, p)
             B == IF k = 1 THEN vatpic_pin_accepted(A, 0, 2) ELSE A
             C == Notified(B)
  <1>t. atpic \in [Chips -> Chip] /\ 0 \in Chips /\ 1 \in Chips /\ 2 \in 0 .. 7
    BY DEF PicInv, PicTypeOK, Chips
  <1>1. /\ pvec # NoLine /\ atpic' = C /\ pextint' = atpic'[0].raised /\ pvec' = NoLine
        /\ UNCHANGED <<pacnt, elc, pdev, strayed>>
    BY DEF vatpic_intr_accepted
  <1>2. k \in Chips /\ p \in 0 .. 7
    BY <1>1 DEF PicInv, PicTypeOK
  <1>3. (k = 0 => p # 2) /\ Above(atpic[k], p) /\ (k = 1 => Above(atpic[0], 2))
    BY <1>1 DEF PicInv, Reported
  <1> HIDE DEF k, p
  <1>a. Accepts(atpic, A, k, p)
    BY <1>t, <1>2, AcceptedIs
  <1> HIDE DEF A
  <1>4. /\ A \in [Chips -> Chip] /\ \A j \in Chips : j # k => A[j] = atpic[j]
        /\ A[k].raised = FALSE /\ A[k].ready = atpic[k].ready /\ A[k].icw = atpic[k].icw
        /\ A[k].req \subseteq atpic[k].req /\ atpic[k].req \ {p} \subseteq A[k].req
        /\ A[k].srv \subseteq atpic[k].srv \cup {p}
    BY <1>a DEF Accepts
  <1>5. /\ B \in [Chips -> Chip]
        /\ \A j \in Chips : /\ B[j].raised \in {FALSE, atpic[j].raised} /\ B[j].ready = atpic[j].ready
                            /\ B[j].icw = atpic[j].icw /\ B[j].req \subseteq atpic[j].req
                            /\ \A q \in B[j].srv \ atpic[j].srv : Above(atpic[j], q)
        /\ k = 1 => B[1].raised = FALSE
        /\ k = 0 => B[1].raised = atpic[1].raised /\ (2 \in atpic[0].req => 2 \in B[0].req)
    <2>1. CASE k = 0
      <3>1. B = A
        BY <2>1
      <3> HIDE DEF B
      <3>2. A[1] = atpic[1] /\ (2 \in atpic[0].req => 2 \in A[0].req)
        BY <1>t, <1>3, <1>4, <2>1
      <3>3. \A j \in Chips : /\ A[j].raised \in {FALSE, atpic[j].raised} /\ A[j].ready = atpic[j].ready
                            /\ A[j].icw = atpic[j].icw /\ A[j].req \subseteq atpic[j].req
        BY <1>4
      <3>4. \A j \in Chips : \A q \in A[j].srv \ atpic[j].srv : Above(atpic[j], q)
        BY <1>3, <1>4
      <3> QED BY <1>4, <2>1, <3>1, <3>2, <3>3, <3>4
    <2>2. CASE k = 1
      <3>1. B = vatpic_pin_accepted(A, 0, 2)
        BY <2>2
      <3>a. Accepts(A, B, 0, 2)
        BY <1>t, <1>4, <3>1, AcceptedIs
      <3> HIDE DEF B
      <3>2. /\ B \in [Chips -> Chip] /\ \A j \in Chips : j # 0 => B[j] = A[j]
            /\ B[0].raised = FALSE /\ B[0].ready = A[0].ready /\ B[0].icw = A[0].icw
            /\ B[0].req \subseteq A[0].req
            /\ B[0].srv \subseteq A[0].srv \cup {2}
        BY <3>a DEF Accepts
      <3>3. A[0] = atpic[0] /\ B[1] = A[1]
        BY <1>t, <1>4, <2>2, <3>2
      <3>4. /\ B[0].raised = FALSE /\ B[0].ready = atpic[0].ready /\ B[0].icw = atpic[0].icw
            /\ B[0].req \subseteq atpic[0].req
            /\ \A q \in B[0].srv \ atpic[0].srv : Above(atpic[0], q)
        BY <1>3, <2>2, <3>2, <3>3
      <3>5. /\ B[1].raised = FALSE /\ B[1].ready = atpic[1].ready /\ B[1].icw = atpic[1].icw
            /\ B[1].req \subseteq atpic[1].req
            /\ \A q \in B[1].srv \ atpic[1].srv : Above(atpic[1], q)
        BY <1>3, <1>4, <2>2, <3>3
      <3>6. ASSUME NEW j \in Chips
            PROVE  /\ B[j].raised \in {FALSE, atpic[j].raised} /\ B[j].ready = atpic[j].ready
                   /\ B[j].icw = atpic[j].icw /\ B[j].req \subseteq atpic[j].req
                   /\ \A q \in B[j].srv \ atpic[j].srv : Above(atpic[j], q)
        <4>1. CASE j = 0
          BY <3>4, <4>1
        <4>2. CASE j = 1
          BY <3>5, <4>2
        <4> QED BY <4>1, <4>2 DEF Chips
      <3>7. k # 0
        BY <2>2
      <3>8. B \in [Chips -> Chip] /\ B[1].raised = FALSE
        BY <3>2, <3>5
      <3> QED BY <3>6, <3>7, <3>8, Zenon
    <2> QED BY <1>2, <2>1, <2>2 DEF Chips
  <1> HIDE DEF B
  <1>6. /\ C \in [Chips -> Chip]
        /\ \A j \in Chips : Like(B[j], C[j])
        /\ \A j \in Chips : Eligible(C[j]) => C[j].raised
        /\ (B[1].raised => 2 \in B[0].req) => (C[1].raised => 2 \in C[0].req)
        /\ Unready(B) => Unready(C)
    BY <1>5, NotifiedIs
  <1> HIDE DEF C
  <1>7. PicTypeOK'
    <2>1. C[0].raised \in BOOLEAN
      BY <1>t, <1>6 DEF Chip
    <2>2. pextint' \in BOOLEAN
      BY <1>1, <2>1
    <2> QED BY <1>1, <1>6, <2>2 DEF PicInv, PicTypeOK
  <1>8. ASSUME ~strayed PROVE Unready(B) /\ (B[1].raised => 2 \in B[0].req)
    <2>1. Unready(atpic) /\ (atpic[1].raised => 2 \in atpic[0].req)
      BY <1>8 DEF PicInv, EligibleRaised
    <2>2. B[1].raised => 2 \in B[0].req
      BY <1>2, <1>5, <2>1 DEF Chips
    <2>3. \A j \in Chips : ~B[j].ready => B[j].req = {} /\ ~B[j].raised
      BY <1>5, <2>1 DEF Unready
    <2>4. B[1].icw # 0 \/ B[1].ready => B[0].ready
      BY <1>t, <1>5, <2>1 DEF Unready
    <2> QED BY <2>2, <2>3, <2>4 DEF Unready
  <1>9. EligibleRaised'
    BY <1>1, <1>6, <1>8 DEF EligibleRaised
  <1>10. RaisedHasExtint'
    <2>1. pextint' \in BOOLEAN /\ (atpic'[0].raised <=> pextint')
      BY <1>1, <1>7 DEF PicTypeOK
    <2> QED BY <2>1 DEF RaisedHasExtint
  <1>11. (~strayed => Unready(atpic))'
    BY <1>1, <1>6, <1>8
  <1>12. Reported'
    BY <1>1 DEF Reported
  <1>13. Nested
    <2>1. \A j \in Chips : \A q \in atpic'[j].srv \ atpic[j].srv : Above(atpic[j], q)
      BY <1>1, <1>5, <1>6 DEF Like
    <2> QED BY <2>1 DEF Nested, Above
  <1> QED BY <1>7, <1>9, <1>10, <1>11, <1>12, <1>13 DEF PicInv

\* vatpic_init establishes the invariant.
LEMMA PicInitially ==
  PicInit => PicInv
  <1> SUFFICES ASSUME PicInit PROVE PicInv
    OBVIOUS
  <1> DEFINE a == [icw |-> 0, ready |-> FALSE, req |-> {}, srv |-> {}, msk |-> {},
                   low |-> 0, rotate |-> FALSE, smm |-> FALSE, sfn |-> FALSE,
                   aeoi |-> FALSE, poll |-> FALSE, raised |-> FALSE]
  <1>1. /\ atpic = [k \in Chips |-> a] /\ pacnt = [l \in Lines |-> 0] /\ pdev = [l \in Lines |-> 0]
        /\ elc = {} /\ pextint = FALSE /\ pvec = NoLine /\ strayed = FALSE
    BY DEF PicInit
  <1>2. a \in Chip /\ a.ready = FALSE /\ a.req = {} /\ a.raised = FALSE /\ a.icw = 0
    BY DEF Chip
  <1> HIDE DEF a
  <1>3. atpic \in [Chips -> Chip] /\ \A k \in Chips : atpic[k] = a
    BY <1>1, <1>2
  <1>4. PicTypeOK
    <2>1. pacnt \in [Lines -> Int] /\ pdev \in [Lines -> Nat]
      BY <1>1
    <2>2. pextint \in BOOLEAN /\ strayed \in BOOLEAN
      BY <1>1
    <2>3. pvec \in (Chips \X (0 .. 7)) \cup {NoLine} /\ elc \subseteq Lines
      BY <1>1
    <2> QED BY <1>3, <2>1, <2>2, <2>3 DEF PicTypeOK
  <1>5. Unready(atpic)
    BY <1>2, <1>3 DEF Unready, Chips
  <1>6. atpic[0] = a /\ atpic[1] = a
    BY <1>3 DEF Chips
  <1>7. EligibleRaised /\ RaisedHasExtint
    BY <1>1, <1>2, <1>3, <1>6 DEF EligibleRaised, RaisedHasExtint
  <1> QED BY <1>1, <1>4, <1>5, <1>7 DEF PicInv, Reported

\* Every step keeps the invariant and nests.
LEMMA PicSteps ==
  ASSUME PicInv, [PicNext]_picvars
  PROVE  PicInv' /\ [Nested]_picvars
  <1>1. CASE UNCHANGED picvars
    <2>1. PicInv'
      BY <1>1 DEF picvars, PicInv, PicTypeOK, EligibleRaised, RaisedHasExtint, Reported
    <2> QED BY <1>1, <2>1
  <1>2. CASE PicNext
    <2>1. ASSUME NEW l \in Lines, vatpic_assert_irq(l) \/ vatpic_deassert_irq(l) PROVE PicInv' /\ Nested
      BY <2>1, AssertStep
    <2>2. ASSUME NEW l \in Lines, vatpic_pulse_irq(l) PROVE PicInv' /\ Nested
      BY <2>2, PulseStep
    <2>3. ASSUME NEW l \in Lines, vatpic_elc_handler(l) PROVE PicInv' /\ Nested
      BY <2>3, ElcStep
    <2>4. ASSUME NEW k \in Chips, vatpic_icw1(k) PROVE PicInv' /\ Nested
      BY <2>4, Icw1Step
    <2>5. ASSUME NEW k \in Chips, vatpic_icw23(k) PROVE PicInv' /\ Nested
      BY <2>5, Icw23Step
    <2>6. ASSUME NEW k \in Chips, PollRead(k) PROVE PicInv' /\ Nested
      BY <2>6, PollStep
    <2>7. ASSUME NEW k \in Chips, NEW auto \in BOOLEAN, NEW nested \in BOOLEAN,
                 vatpic_icw4(k, auto, nested)
          PROVE PicInv' /\ Nested
      BY <2>7, Icw4Step
    <2>8. ASSUME NEW k \in Chips, NEW S \in Masks(k), vatpic_ocw1(k, S) PROVE PicInv' /\ Nested
      BY <2>8, Ocw1Step
    <2>9. ASSUME NEW k \in Chips, NEW eoi \in BOOLEAN, NEW rot \in BOOLEAN,
                 NEW p \in {-1} \cup atpic[k].srv, vatpic_ocw2(k, eoi, p, rot)
          PROVE PicInv' /\ Nested
      BY <2>9, Ocw2Step
    <2>10. ASSUME NEW k \in Chips, NEW what \in {"SMM", "POLL"}, vatpic_ocw3(k, what)
           PROVE PicInv' /\ Nested
      BY <2>10, Ocw3Step
    <2>11. CASE vatpic_pending_intr
      BY <2>11, PendingStep
    <2>12. CASE vatpic_intr_accepted
      BY <2>12, AcceptStep
    <2> QED BY <1>2, <2>1, <2>2, <2>3, <2>4, <2>5, <2>6, <2>7, <2>8, <2>9, <2>10, <2>11, <2>12 DEF PicNext
  <1> QED BY <1>1, <1>2

\* The invariant of the 8259s, for every wiring and every use of the chips.
THEOREM PicInvariant ==
  PicSpec => []PicInv
  <1>1. PicInit => PicInv
    BY PicInitially
  <1>2. PicInv /\ [PicNext]_picvars => PicInv'
    BY PicSteps
  <1> QED BY <1>1, <1>2, PTL DEF PicSpec

\* No eligible request of the 8259s waits for the next event, intr_raised of the
\* master is exactly an ExtINT on its way, and service nests, for every wiring,
\* every mode and every interleaving of devices, guest and acceptance.
THEOREM EligibleIsServed ==
  PicSpec => EligibleServed
  <1>1. PicInv => EligibleRaised /\ RaisedHasExtint
    BY DEF PicInv
  <1>2. PicInv /\ [PicNext]_picvars => [Nested]_picvars
    BY PicSteps
  <1> QED BY <1>1, <1>2, PicInvariant, PTL DEF PicSpec, EligibleServed

-----------------------------------------------------------------------------
(* PCI interrupts.                                                         *)

\* The least element by a count is one of them.
LEMMA LeastIn ==
  ASSUME NEW S \in SUBSET Nat, S # {}, NEW f, \A x \in S : f[x] \in Nat
  PROVE  LeastBy(S, f) \in S
<1> DEFINE V == {f[x] : x \in S}
           M == {x \in S : \A y \in S : f[x] <= f[y]}
<1>1. PICK v \in V : \A w \in V : v <= w
  <2>1. V \in SUBSET Nat /\ V # {}
    OBVIOUS
  <2> QED
    BY <2>1, LeastNumber
<1>2. M # {} /\ M \in SUBSET Nat
  <2>1. PICK x \in S : v = f[x]
    OBVIOUS
  <2>2. \A y \in S : f[y] \in V
    OBVIOUS
  <2>3. x \in M
    BY <1>1, <2>1, <2>2
  <2> QED
    BY <2>3
<1>3. \E x \in M : \A y \in M : x <= y
  BY <1>2, LeastNumber
<1> HIDE DEF M
<1>4. Min(M) \in M
  BY <1>3 DEF Min
<1> QED
  BY <1>4 DEF M, LeastBy

\* A truth value as a number.
One(b) == IF b THEN 1 ELSE 0

\* Sets that agree but for one element.
LEMMA CountOne ==
  ASSUME NEW S, NEW T, NEW y, IsFiniteSet(S), S \ {y} = T \ {y}
  PROVE  /\ Cardinality(S) \in Nat /\ Cardinality(T) \in Nat
         /\ Cardinality(T) = Cardinality(S) + One(y \in T) - One(y \in S)
<1>1. IsFiniteSet(S \cup {y})
  BY FS_AddElement
<1>2. T \in SUBSET (S \cup {y})
  OBVIOUS
<1>3. IsFiniteSet(T)
  BY <1>1, <1>2, FS_Subset
<1>4. Cardinality(S \ {y}) = IF y \in S THEN Cardinality(S) - 1 ELSE Cardinality(S)
  BY FS_RemoveElement
<1>5. Cardinality(T \ {y}) = IF y \in T THEN Cardinality(T) - 1 ELSE Cardinality(T)
  BY <1>3, FS_RemoveElement
<1>6. Cardinality(S) \in Nat /\ Cardinality(T) \in Nat
  BY <1>3, FS_CardinalityType
<1> QED
  BY <1>4, <1>5, <1>6 DEF One

\* Devices are numbered from 1.
LEMMA DevsAre ==
  ASSUME IntxConstantsOK
  PROVE  \E n \in Nat \ {0} : Devs = 1 .. n
<1>1. SlotOf \in Seq(Nat) /\ SlotOf # <<>>
  BY DEF IntxConstantsOK
<1>2. Len(SlotOf) \in Nat \ {0} /\ DOMAIN SlotOf = 1 .. Len(SlotOf)
  BY <1>1
<1> QED
  BY <1>2 DEF Devs

\* Every set of devices and of PIRQ pins is finite.
LEMMA Finite ==
  ASSUME IntxConstantsOK
  PROVE  /\ \A S \in SUBSET Devs : IsFiniteSet(S)
         /\ \A S \in SUBSET Pirqs : IsFiniteSet(S)
<1>1. IsFiniteSet(Devs)
  BY DevsAre, FS_Interval
<1>2. IsFiniteSet(Pirqs)
  BY FS_Interval DEF IntxConstantsOK, Pirqs
<1> QED
  BY <1>1, <1>2, FS_Subset

DevT ==
  [pin : IntPins \cup {0}, ioapic : IoapicLines \cup {0}, pirq : Pirqs \cup {0},
   state : {"IDLE", "ASSERTED", "PENDING"}, step : {"none", "assert", "deassert"},
   off : SUBSET {"msi", "intxdis"}, update : BOOLEAN, want : BOOLEAN, call : BOOLEAN]

IntpinT == [count : Nat, ioapic : IoapicLines \cup {0}, pirq : Pirqs \cup {0}]
PirqT == [reg : Routes, use : Nat, active : Nat]

\* Drives, StepFits and LintrFollows of a device.
DrivesR(r) == (r.state = "ASSERTED" /\ r.step # "assert") \/ r.step = "deassert"
Fits(r) == /\ r.step = "assert" => r.state = "ASSERTED"
           /\ r.step = "deassert" => r.state # "ASSERTED"
Follows(r) ==
  /\ ~r.call => (r.want <=> r.state # "IDLE")
  /\ ~r.update /\ r.state # "IDLE" => (r.state = "ASSERTED" <=> r.off = {})

DriveSet(ds, i) == {d \in Devs : ds[d].ioapic = i /\ DrivesR(ds[d])}
AssertSet(ds, p) == {d \in Devs : ds[d].pirq = p /\ ds[d].state = "ASSERTED"}
RouteSet(ps, i) == {p \in Pirqs : ps[p].reg = i /\ pirq_valid_irq(i) /\ ps[p].active # 0}

Types(ds, ps, ia, io) ==
  /\ ds \in [Devs -> DevT] /\ ps \in [Pirqs -> PirqT]
  /\ ia \in [Irqs -> Int] /\ io \in [IoapicLines -> Int]

\* The invariant of the running machine.
RunInv(ds, ps, ia, io) ==
  /\ Types(ds, ps, ia, io)
  /\ \A d \in Devs : /\ ds[d].pin # 0 /\ ds[d].pirq # 0 /\ ds[d].ioapic # 0
                     /\ Fits(ds[d]) /\ Follows(ds[d])
  /\ \A p \in Pirqs : ps[p].active = Cardinality(AssertSet(ds, p))
  /\ \A i \in IoapicLines : io[i] = Cardinality(DriveSet(ds, i))
  /\ \A i \in Irqs : ia[i] = Cardinality(RouteSet(ps, i))

\* One device becomes another of the same pin and lines.
LEMMA OneDevice ==
  ASSUME IntxConstantsOK, RunInv(dev, pirq, isa, ioapic), NEW d \in Devs, NEW nd \in DevT,
         nd.ioapic = dev[d].ioapic, nd.pirq = dev[d].pirq, nd.pin = dev[d].pin,
         Fits(nd), Follows(nd), dev' = [dev EXCEPT ![d] = nd]
  PROVE  /\ dev' \in [Devs -> DevT]
         /\ \A k \in Devs : /\ dev'[k].pin # 0 /\ dev'[k].pirq # 0 /\ dev'[k].ioapic # 0
                            /\ Fits(dev'[k]) /\ Follows(dev'[k])
         /\ \A i \in IoapicLines :
              Cardinality(DriveSet(dev', i)) =
                ioapic[i] + One(nd.ioapic = i /\ DrivesR(nd)) - One(nd.ioapic = i /\ DrivesR(dev[d]))
         /\ \A p \in Pirqs :
              Cardinality(AssertSet(dev', p)) =
                pirq[p].active + One(nd.pirq = p /\ nd.state = "ASSERTED")
                               - One(nd.pirq = p /\ dev[d].state = "ASSERTED")
<1>1. dev \in [Devs -> DevT]
  BY DEF RunInv, Types
<1>2. /\ dev' \in [Devs -> DevT] /\ dev'[d] = nd
      /\ \A k \in Devs \ {d} : dev'[k] = dev[k]
  BY <1>1
<1>3. \A k \in Devs : /\ dev'[k].pin # 0 /\ dev'[k].pirq # 0 /\ dev'[k].ioapic # 0
                      /\ Fits(dev'[k]) /\ Follows(dev'[k])
  BY <1>2 DEF RunInv
<1>4. ASSUME NEW i \in IoapicLines
      PROVE  Cardinality(DriveSet(dev', i)) =
                ioapic[i] + One(nd.ioapic = i /\ DrivesR(nd)) - One(nd.ioapic = i /\ DrivesR(dev[d]))
  <2> DEFINE S == DriveSet(dev, i)
             T == DriveSet(dev', i)
  <2>1. S \ {d} = T \ {d}
    BY <1>2 DEF DriveSet
  <2>2. (d \in S <=> nd.ioapic = i /\ DrivesR(dev[d])) /\ (d \in T <=> nd.ioapic = i /\ DrivesR(nd))
    BY <1>2 DEF DriveSet
  <2>3. IsFiniteSet(S)
    BY Finite DEF DriveSet
  <2>4. Cardinality(S) = ioapic[i]
    BY DEF RunInv
  <2> HIDE DEF S, T
  <2>5. Cardinality(T) = Cardinality(S) + One(d \in T) - One(d \in S)
    BY ONLY <2>1, <2>3, CountOne
  <2>6. Cardinality(T) = ioapic[i] + One(nd.ioapic = i /\ DrivesR(nd)) - One(nd.ioapic = i /\ DrivesR(dev[d]))
    BY ONLY <2>2, <2>4, <2>5 DEF One
  <2> QED
    BY <2>6 DEF T
<1>5. ASSUME NEW p \in Pirqs
      PROVE  Cardinality(AssertSet(dev', p)) =
                pirq[p].active + One(nd.pirq = p /\ nd.state = "ASSERTED")
                               - One(nd.pirq = p /\ dev[d].state = "ASSERTED")
  <2> DEFINE S == AssertSet(dev, p)
             T == AssertSet(dev', p)
  <2>1. S \ {d} = T \ {d}
    BY <1>2 DEF AssertSet
  <2>2. /\ d \in S <=> nd.pirq = p /\ dev[d].state = "ASSERTED"
        /\ d \in T <=> nd.pirq = p /\ nd.state = "ASSERTED"
    BY <1>2 DEF AssertSet
  <2>3. IsFiniteSet(S)
    BY Finite DEF AssertSet
  <2>4. Cardinality(S) = pirq[p].active
    BY DEF RunInv
  <2> HIDE DEF S, T
  <2>5. Cardinality(T) = Cardinality(S) + One(d \in T) - One(d \in S)
    BY ONLY <2>1, <2>3, CountOne
  <2>6. Cardinality(T) = pirq[p].active + One(nd.pirq = p /\ nd.state = "ASSERTED")
                               - One(nd.pirq = p /\ dev[d].state = "ASSERTED")
    BY ONLY <2>2, <2>4, <2>5 DEF One
  <2> QED
    BY <2>6 DEF T
<1> QED
  BY <1>2, <1>3, <1>4, <1>5

\* One PIRQ pin becomes another.
LEMMA OnePirq ==
  ASSUME IntxConstantsOK, RunInv(dev, pirq, isa, ioapic), NEW p \in Pirqs, NEW np \in PirqT,
         pirq' = [pirq EXCEPT ![p] = np]
  PROVE  /\ pirq' \in [Pirqs -> PirqT] /\ pirq'[p] = np
         /\ \A q \in Pirqs \ {p} : pirq'[q] = pirq[q]
         /\ \A i \in Irqs :
              Cardinality(RouteSet(pirq', i)) =
                isa[i] + One(np.reg = i /\ i \in Permitted /\ np.active # 0)
                       - One(pirq[p].reg = i /\ i \in Permitted /\ pirq[p].active # 0)
<1>1. pirq \in [Pirqs -> PirqT]
  BY DEF RunInv, Types
<1>2. /\ pirq' \in [Pirqs -> PirqT] /\ pirq'[p] = np
      /\ \A q \in Pirqs \ {p} : pirq'[q] = pirq[q]
  BY <1>1
<1>3. ASSUME NEW i \in Irqs
      PROVE  Cardinality(RouteSet(pirq', i)) =
                isa[i] + One(np.reg = i /\ i \in Permitted /\ np.active # 0)
                       - One(pirq[p].reg = i /\ i \in Permitted /\ pirq[p].active # 0)
  <2> DEFINE S == RouteSet(pirq, i)
             T == RouteSet(pirq', i)
  <2>1. S \ {p} = T \ {p}
    BY <1>2 DEF RouteSet
  <2>2. /\ p \in S <=> pirq[p].reg = i /\ i \in Permitted /\ pirq[p].active # 0
        /\ p \in T <=> np.reg = i /\ i \in Permitted /\ np.active # 0
    BY <1>2 DEF RouteSet, pirq_valid_irq
  <2>3. IsFiniteSet(S)
    BY Finite DEF RouteSet
  <2>4. Cardinality(S) = isa[i]
    BY DEF RunInv
  <2> HIDE DEF S, T
  <2>5. Cardinality(T) = Cardinality(S) + One(p \in T) - One(p \in S)
    BY ONLY <2>1, <2>3, CountOne
  <2>6. Cardinality(T) = isa[i] + One(np.reg = i /\ i \in Permitted /\ np.active # 0)
                       - One(pirq[p].reg = i /\ i \in Permitted /\ pirq[p].active # 0)
    BY ONLY <2>2, <2>4, <2>5 DEF One
  <2> QED
    BY <2>6 DEF T
<1> QED
  BY <1>2, <1>3

\* The line stays as it is.
LEMMA BecomesInv ==
  ASSUME IntxConstantsOK, RunInv(dev, pirq, isa, ioapic), NEW d \in Devs, NEW nd \in DevT,
         nd.ioapic = dev[d].ioapic, nd.pirq = dev[d].pirq, nd.pin = dev[d].pin,
         Fits(nd), Follows(nd), Becomes(d, nd),
         nd.state = "ASSERTED" <=> dev[d].state = "ASSERTED", nd.step = dev[d].step
  PROVE  RunInv(dev', pirq', isa', ioapic')
<1>1. dev' = [dev EXCEPT ![d] = nd] /\ pirq' = pirq /\ isa' = isa /\ ioapic' = ioapic
  BY DEF Becomes
<1>2. DrivesR(nd) <=> DrivesR(dev[d])
  BY DEF DrivesR
<1>3. /\ dev' \in [Devs -> DevT]
      /\ \A k \in Devs : /\ dev'[k].pin # 0 /\ dev'[k].pirq # 0 /\ dev'[k].ioapic # 0
                         /\ Fits(dev'[k]) /\ Follows(dev'[k])
      /\ \A i \in IoapicLines :
           Cardinality(DriveSet(dev', i)) =
             ioapic[i] + One(nd.ioapic = i /\ DrivesR(nd)) - One(nd.ioapic = i /\ DrivesR(dev[d]))
      /\ \A p \in Pirqs :
           Cardinality(AssertSet(dev', p)) =
             pirq[p].active + One(nd.pirq = p /\ nd.state = "ASSERTED")
                            - One(nd.pirq = p /\ dev[d].state = "ASSERTED")
  BY <1>1, OneDevice
<1>4. Types(dev, pirq, isa, ioapic)
  BY DEF RunInv
<1>5. ASSUME NEW i \in IoapicLines PROVE ioapic'[i] = Cardinality(DriveSet(dev', i))
  <2>1. ioapic[i] \in Int
    BY <1>4 DEF Types
  <2>2. Cardinality(DriveSet(dev', i)) =
             ioapic[i] + One(nd.ioapic = i /\ DrivesR(nd)) - One(nd.ioapic = i /\ DrivesR(dev[d]))
    BY <1>3
  <2>3. Cardinality(DriveSet(dev', i)) = ioapic[i]
    BY ONLY <1>2, <2>1, <2>2 DEF One
  <2> QED
    BY <1>1, <2>3
<1>6. ASSUME NEW p \in Pirqs PROVE pirq'[p].active = Cardinality(AssertSet(dev', p))
  <2>1. pirq[p].active \in Nat
    BY <1>4 DEF Types, PirqT
  <2>2. Cardinality(AssertSet(dev', p)) =
             pirq[p].active + One(nd.pirq = p /\ nd.state = "ASSERTED")
                            - One(nd.pirq = p /\ dev[d].state = "ASSERTED")
    BY <1>3
  <2>3. Cardinality(AssertSet(dev', p)) = pirq[p].active
    BY ONLY <2>1, <2>2, nd.state = "ASSERTED" <=> dev[d].state = "ASSERTED" DEF One
  <2> QED
    BY <1>1, <2>3
<1>7. \A i \in Irqs : isa'[i] = Cardinality(RouteSet(pirq', i))
  BY <1>1 DEF RunInv
<1>8. Types(dev', pirq', isa', ioapic')
  BY <1>1, <1>3, <1>4 DEF Types
<1> QED
  BY <1>3, <1>5, <1>6, <1>7, <1>8 DEF RunInv

\* An assertion of the line.
LEMMA AssertInv ==
  ASSUME IntxConstantsOK, RunInv(dev, pirq, isa, ioapic), NEW d \in Devs, NEW nd \in DevT,
         nd.ioapic = dev[d].ioapic, nd.pirq = dev[d].pirq, nd.pin = dev[d].pin,
         Follows(nd), dev[d].state # "ASSERTED", dev[d].step = "none", nd.state = "ASSERTED",
         pci_irq_assert(d, nd)
  PROVE  RunInv(dev', pirq', isa', ioapic')
<1> DEFINE p == dev[d].pirq
           both == pirq[p].active = 0 /\ pirq_valid_irq(pirq[p].reg)
           np == [pirq[p] EXCEPT !.active = @ + 1]
           rd == [nd EXCEPT !.step = IF both THEN "none" ELSE "assert"]
<1>1. Types(dev, pirq, isa, ioapic)
  BY DEF RunInv
<1>2. p \in Pirqs /\ dev[d].ioapic \in IoapicLines
  <2>1. dev[d] \in DevT /\ dev[d].pirq # 0 /\ dev[d].ioapic # 0
    BY <1>1 DEF RunInv, Types
  <2> QED
    BY <2>1 DEF DevT
<1>3. /\ pirq[p] \in PirqT /\ np \in PirqT /\ np.reg = pirq[p].reg
      /\ np.active = pirq[p].active + 1 /\ pirq[p].active \in Nat
  BY <1>1, <1>2 DEF Types, PirqT
<1>4. /\ pirq' = [pirq EXCEPT ![p] = np] /\ dev' = [dev EXCEPT ![d] = rd]
      /\ isa' = IF both THEN [isa EXCEPT ![pirq[p].reg] = @ + 1] ELSE isa
      /\ ioapic' = IF both THEN [ioapic EXCEPT ![dev[d].ioapic] = @ + 1] ELSE ioapic
  BY DEF pci_irq_assert
<1>5. /\ rd \in DevT /\ rd.ioapic = nd.ioapic /\ rd.pirq = nd.pirq /\ rd.pin = nd.pin
      /\ rd.state = "ASSERTED" /\ rd.step = IF both THEN "none" ELSE "assert"
      /\ rd.call = nd.call /\ rd.want = nd.want /\ rd.update = nd.update /\ rd.off = nd.off
  BY DEF DevT
<1>6. both => pirq[p].reg \in Permitted /\ pirq[p].reg \in Irqs
  BY DEF pirq_valid_irq, IntxConstantsOK
<1>. HIDE DEF np, rd
<1>7. Fits(rd) /\ Follows(rd) /\ (DrivesR(rd) <=> both) /\ ~DrivesR(dev[d])
  BY <1>5 DEF Fits, Follows, DrivesR
<1>8. /\ dev' \in [Devs -> DevT]
      /\ \A k \in Devs : /\ dev'[k].pin # 0 /\ dev'[k].pirq # 0 /\ dev'[k].ioapic # 0
                         /\ Fits(dev'[k]) /\ Follows(dev'[k])
      /\ \A i \in IoapicLines :
           Cardinality(DriveSet(dev', i)) =
             ioapic[i] + One(rd.ioapic = i /\ DrivesR(rd)) - One(rd.ioapic = i /\ DrivesR(dev[d]))
      /\ \A q \in Pirqs :
           Cardinality(AssertSet(dev', q)) =
             pirq[q].active + One(rd.pirq = q /\ rd.state = "ASSERTED")
                            - One(rd.pirq = q /\ dev[d].state = "ASSERTED")
  BY <1>4, <1>5, <1>7, OneDevice
<1>9. /\ pirq' \in [Pirqs -> PirqT] /\ pirq'[p] = np
      /\ \A q \in Pirqs \ {p} : pirq'[q] = pirq[q]
      /\ \A i \in Irqs :
           Cardinality(RouteSet(pirq', i)) =
             isa[i] + One(np.reg = i /\ i \in Permitted /\ np.active # 0)
                    - One(pirq[p].reg = i /\ i \in Permitted /\ pirq[p].active # 0)
  BY <1>2, <1>3, <1>4, OnePirq
<1>10. ASSUME NEW i \in IoapicLines PROVE ioapic'[i] = Cardinality(DriveSet(dev', i))
  <2>1. ioapic'[i] = IF both /\ dev[d].ioapic = i THEN ioapic[i] + 1 ELSE ioapic[i]
    BY <1>1, <1>4 DEF Types
  <2>2. ioapic[i] \in Int
    BY <1>1 DEF Types
  <2> QED
    BY <1>5, <1>7, <1>8, <2>1, <2>2 DEF One
<1>11. ASSUME NEW q \in Pirqs PROVE pirq'[q].active = Cardinality(AssertSet(dev', q))
  <2>1. Cardinality(AssertSet(dev', q)) = pirq[q].active + One(p = q)
    <3>1. pirq[q].active \in Nat
      BY <1>1 DEF Types, PirqT
    <3>2. Cardinality(AssertSet(dev', q)) =
             pirq[q].active + One(rd.pirq = q /\ rd.state = "ASSERTED")
                            - One(rd.pirq = q /\ dev[d].state = "ASSERTED")
      BY <1>8
    <3> QED
      BY ONLY <1>5, <3>1, <3>2, dev[d].state # "ASSERTED", nd.pirq = dev[d].pirq DEF One
  <2> QED
    BY <1>3, <1>9, <2>1 DEF One, Types, PirqT
<1>12. ASSUME NEW i \in Irqs PROVE isa'[i] = Cardinality(RouteSet(pirq', i))
  <2>1. isa'[i] = IF both /\ pirq[p].reg = i THEN isa[i] + 1 ELSE isa[i]
    BY <1>1, <1>4, <1>6 DEF Types
  <2>2. isa[i] \in Int
    BY <1>1 DEF Types
  <2>3. Cardinality(RouteSet(pirq', i)) =
             isa[i] + One(np.reg = i /\ i \in Permitted /\ np.active # 0)
                    - One(pirq[p].reg = i /\ i \in Permitted /\ pirq[p].active # 0)
    BY <1>9
  <2>4. both <=> pirq[p].active = 0 /\ pirq[p].reg \in Permitted
    BY DEF pirq_valid_irq
  <2> HIDE DEF both, p
  <2> QED
    BY <1>3, <2>1, <2>2, <2>3, <2>4 DEF One
<1>13. isa' \in [Irqs -> Int] /\ ioapic' \in [IoapicLines -> Int]
  BY <1>1, <1>4, <1>2, <1>6 DEF Types
<1>14. Types(dev', pirq', isa', ioapic')
  BY <1>8, <1>9, <1>13 DEF Types
<1> QED
  BY <1>8, <1>10, <1>11, <1>12, <1>14 DEF RunInv

\* A deassertion of the line: the pin's count was not zero.
LEMMA DeassertInv ==
  ASSUME IntxConstantsOK, RunInv(dev, pirq, isa, ioapic), NEW d \in Devs, NEW nd \in DevT,
         nd.ioapic = dev[d].ioapic, nd.pirq = dev[d].pirq, nd.pin = dev[d].pin,
         Follows(nd), dev[d].state = "ASSERTED", dev[d].step = "none", nd.state # "ASSERTED",
         pci_irq_deassert(d, nd)
  PROVE  RunInv(dev', pirq', isa', ioapic')
<1> DEFINE p == dev[d].pirq
           both == pirq[p].active = 1 /\ pirq_valid_irq(pirq[p].reg)
           np == [pirq[p] EXCEPT !.active = @ - 1]
           rd == [nd EXCEPT !.step = IF both THEN "none" ELSE "deassert"]
<1>1. Types(dev, pirq, isa, ioapic)
  BY DEF RunInv
<1>2. p \in Pirqs /\ dev[d].ioapic \in IoapicLines
  <2>1. dev[d] \in DevT /\ dev[d].pirq # 0 /\ dev[d].ioapic # 0
    BY <1>1 DEF RunInv, Types
  <2> QED
    BY <2>1 DEF DevT
<1>a. pirq[p].active \in Nat \ {0}
  <2> DEFINE S == AssertSet(dev, p)
  <2>1. d \in S /\ IsFiniteSet(S)
    BY Finite DEF AssertSet
  <2>2. pirq[p].active = Cardinality(S)
    BY <1>2 DEF RunInv
  <2> HIDE DEF S
  <2> QED
    BY <2>1, <2>2, FS_EmptySet, FS_CardinalityType
<1>3. /\ pirq[p] \in PirqT /\ np \in PirqT /\ np.reg = pirq[p].reg
      /\ np.active = pirq[p].active - 1
  BY <1>1, <1>2, <1>a DEF Types, PirqT
<1>4. /\ pirq' = [pirq EXCEPT ![p] = np] /\ dev' = [dev EXCEPT ![d] = rd]
      /\ isa' = IF both THEN [isa EXCEPT ![pirq[p].reg] = @ - 1] ELSE isa
      /\ ioapic' = IF both THEN [ioapic EXCEPT ![dev[d].ioapic] = @ - 1] ELSE ioapic
  BY DEF pci_irq_deassert
<1>5. /\ rd \in DevT /\ rd.ioapic = nd.ioapic /\ rd.pirq = nd.pirq /\ rd.pin = nd.pin
      /\ rd.state = nd.state /\ rd.step = IF both THEN "none" ELSE "deassert"
      /\ rd.call = nd.call /\ rd.want = nd.want /\ rd.update = nd.update /\ rd.off = nd.off
  BY DEF DevT
<1>6. both => pirq[p].reg \in Permitted /\ pirq[p].reg \in Irqs
  BY DEF pirq_valid_irq, IntxConstantsOK
<1>. HIDE DEF np, rd
<1>7. Fits(rd) /\ Follows(rd) /\ (DrivesR(rd) <=> ~both) /\ DrivesR(dev[d])
  BY <1>5 DEF Fits, Follows, DrivesR
<1>8. /\ dev' \in [Devs -> DevT]
      /\ \A k \in Devs : /\ dev'[k].pin # 0 /\ dev'[k].pirq # 0 /\ dev'[k].ioapic # 0
                         /\ Fits(dev'[k]) /\ Follows(dev'[k])
      /\ \A i \in IoapicLines :
           Cardinality(DriveSet(dev', i)) =
             ioapic[i] + One(rd.ioapic = i /\ DrivesR(rd)) - One(rd.ioapic = i /\ DrivesR(dev[d]))
      /\ \A q \in Pirqs :
           Cardinality(AssertSet(dev', q)) =
             pirq[q].active + One(rd.pirq = q /\ rd.state = "ASSERTED")
                            - One(rd.pirq = q /\ dev[d].state = "ASSERTED")
  BY ZenonT(60), <1>4, <1>5, <1>7, OneDevice
<1>9. /\ pirq' \in [Pirqs -> PirqT] /\ pirq'[p] = np
      /\ \A q \in Pirqs \ {p} : pirq'[q] = pirq[q]
      /\ \A i \in Irqs :
           Cardinality(RouteSet(pirq', i)) =
             isa[i] + One(np.reg = i /\ i \in Permitted /\ np.active # 0)
                    - One(pirq[p].reg = i /\ i \in Permitted /\ pirq[p].active # 0)
  BY <1>2, <1>3, <1>4, OnePirq
<1>10. ASSUME NEW i \in IoapicLines PROVE ioapic'[i] = Cardinality(DriveSet(dev', i))
  <2>1. ioapic'[i] = IF both /\ dev[d].ioapic = i THEN ioapic[i] - 1 ELSE ioapic[i]
    BY <1>1, <1>4 DEF Types
  <2>2. ioapic[i] \in Int
    BY <1>1 DEF Types
  <2> QED
    BY <1>5, <1>7, <1>8, <2>1, <2>2 DEF One
<1>11. ASSUME NEW q \in Pirqs PROVE pirq'[q].active = Cardinality(AssertSet(dev', q))
  <2>1. Cardinality(AssertSet(dev', q)) = pirq[q].active - One(p = q)
    <3>1. pirq[q].active \in Nat
      BY <1>1 DEF Types, PirqT
    <3>2. Cardinality(AssertSet(dev', q)) =
             pirq[q].active + One(rd.pirq = q /\ rd.state = "ASSERTED")
                            - One(rd.pirq = q /\ dev[d].state = "ASSERTED")
      BY <1>8
    <3> QED
      BY ONLY <1>5, <3>1, <3>2, dev[d].state = "ASSERTED", nd.state # "ASSERTED",
              nd.pirq = dev[d].pirq DEF One
  <2> QED
    BY <1>3, <1>9, <2>1 DEF One, Types, PirqT
<1>12. ASSUME NEW i \in Irqs PROVE isa'[i] = Cardinality(RouteSet(pirq', i))
  <2>1. isa'[i] = IF both /\ pirq[p].reg = i THEN isa[i] - 1 ELSE isa[i]
    BY <1>1, <1>4, <1>6 DEF Types
  <2>2. isa[i] \in Int
    BY <1>1 DEF Types
  <2>3. Cardinality(RouteSet(pirq', i)) =
             isa[i] + One(np.reg = i /\ i \in Permitted /\ np.active # 0)
                    - One(pirq[p].reg = i /\ i \in Permitted /\ pirq[p].active # 0)
    BY <1>9
  <2>4. both <=> pirq[p].active = 1 /\ pirq[p].reg \in Permitted
    BY DEF pirq_valid_irq
  <2> HIDE DEF both, p
  <2> QED
    BY <1>a, <1>3, <2>1, <2>2, <2>3, <2>4 DEF One
<1>13. isa' \in [Irqs -> Int] /\ ioapic' \in [IoapicLines -> Int]
  BY <1>1, <1>4, <1>2, <1>6 DEF Types
<1>14. Types(dev', pirq', isa', ioapic')
  BY <1>8, <1>9, <1>13 DEF Types
<1> QED
  BY <1>8, <1>10, <1>11, <1>12, <1>14 DEF RunInv

\* The I/O APIC's part, outside the lock of the PIRQ.
LEMMA IoapicStepInv ==
  ASSUME IntxConstantsOK, RunInv(dev, pirq, isa, ioapic), NEW d \in Devs, IoapicStep(d)
  PROVE  RunInv(dev', pirq', isa', ioapic')
<1> DEFINE rd == [dev[d] EXCEPT !.step = "none"]
<1>1. Types(dev, pirq, isa, ioapic) /\ dev[d] \in DevT /\ dev[d].ioapic # 0
      /\ Fits(dev[d]) /\ Follows(dev[d])
  BY DEF RunInv, Types
<1>2. dev[d].ioapic \in IoapicLines
  BY <1>1 DEF DevT
<1>3. /\ dev' = [dev EXCEPT ![d] = rd] /\ pirq' = pirq /\ isa' = isa
      /\ ioapic' = [ioapic EXCEPT ![dev[d].ioapic] = IF dev[d].step = "assert" THEN @ + 1 ELSE @ - 1]
  BY DEF IoapicStep
<1>4. /\ rd \in DevT /\ rd.ioapic = dev[d].ioapic /\ rd.pirq = dev[d].pirq /\ rd.pin = dev[d].pin
      /\ rd.state = dev[d].state /\ rd.step = "none"
      /\ rd.call = dev[d].call /\ rd.want = dev[d].want /\ rd.update = dev[d].update
      /\ rd.off = dev[d].off
  BY <1>1 DEF DevT
<1> HIDE DEF rd
<1>5. Fits(rd) /\ Follows(rd)
  BY <1>1, <1>4 DEF Fits, Follows
<1>6. /\ dev[d].step = "assert" => DrivesR(rd) /\ ~DrivesR(dev[d])
      /\ dev[d].step # "assert" => ~DrivesR(rd) /\ DrivesR(dev[d])
  BY <1>1, <1>4 DEF Fits, DrivesR, IoapicStep, DevT
<1>7. /\ dev' \in [Devs -> DevT]
      /\ \A k \in Devs : /\ dev'[k].pin # 0 /\ dev'[k].pirq # 0 /\ dev'[k].ioapic # 0
                         /\ Fits(dev'[k]) /\ Follows(dev'[k])
      /\ \A i \in IoapicLines :
           Cardinality(DriveSet(dev', i)) =
             ioapic[i] + One(rd.ioapic = i /\ DrivesR(rd)) - One(rd.ioapic = i /\ DrivesR(dev[d]))
      /\ \A q \in Pirqs :
           Cardinality(AssertSet(dev', q)) =
             pirq[q].active + One(rd.pirq = q /\ rd.state = "ASSERTED")
                            - One(rd.pirq = q /\ dev[d].state = "ASSERTED")
  BY <1>3, <1>4, <1>5, OneDevice
<1>8. ASSUME NEW i \in IoapicLines PROVE ioapic'[i] = Cardinality(DriveSet(dev', i))
  <2>1. ioapic'[i] = IF dev[d].ioapic # i THEN ioapic[i]
                     ELSE IF dev[d].step = "assert" THEN ioapic[i] + 1 ELSE ioapic[i] - 1
    BY <1>1, <1>3 DEF Types
  <2>2. ioapic[i] \in Int
    BY <1>1 DEF Types
  <2> QED
    BY <1>4, <1>6, <1>7, <2>1, <2>2 DEF One
<1>9. ASSUME NEW q \in Pirqs PROVE pirq'[q].active = Cardinality(AssertSet(dev', q))
  <2>1. pirq[q].active \in Nat
    BY <1>1 DEF Types, PirqT
  <2>2. Cardinality(AssertSet(dev', q)) =
             pirq[q].active + One(rd.pirq = q /\ rd.state = "ASSERTED")
                            - One(rd.pirq = q /\ dev[d].state = "ASSERTED")
    BY <1>7
  <2>3. Cardinality(AssertSet(dev', q)) = pirq[q].active
    BY ONLY <2>1, <2>2, <1>4 DEF One
  <2> QED
    BY <1>3, <2>3
<1>10. \A i \in Irqs : isa'[i] = Cardinality(RouteSet(pirq', i))
  BY <1>3 DEF RunInv
<1>11. ioapic' \in [IoapicLines -> Int]
  BY <1>1, <1>2, <1>3 DEF Types
<1>12. Types(dev', pirq', isa', ioapic')
  BY <1>1, <1>3, <1>7, <1>11 DEF Types
<1> QED
  BY <1>7, <1>8, <1>9, <1>10, <1>12 DEF RunInv

\* The guest re-routes a PIRQ pin.
LEMMA PirqWriteInv ==
  ASSUME IntxConstantsOK, RunInv(dev, pirq, isa, ioapic), NEW p \in Pirqs, NEW val \in Routes,
         pirq_write(p, val)
  PROVE  RunInv(dev', pirq', isa', ioapic')
<1> DEFINE np == [pirq[p] EXCEPT !.reg = val]
           old == pirq[p].reg
           up == pirq[p].active # 0
           lower == IF up /\ old \in Permitted THEN [isa EXCEPT ![old] = @ - 1] ELSE isa
<1>1. Types(dev, pirq, isa, ioapic)
  BY DEF RunInv
<1>2. /\ pirq[p] \in PirqT /\ np \in PirqT /\ np.reg = val /\ np.active = pirq[p].active
      /\ pirq[p].active \in Nat
  BY <1>1 DEF Types, PirqT
<1>3. /\ pirq' = [pirq EXCEPT ![p] = np] /\ dev' = dev /\ ioapic' = ioapic /\ val # old
      /\ isa' = IF up /\ val \in Permitted THEN [lower EXCEPT ![val] = @ + 1] ELSE lower
  BY DEF pirq_write, pirq_valid_irq
<1>4. Permitted \subseteq Irqs
  BY DEF IntxConstantsOK
<1> HIDE DEF np
<1>5. /\ pirq' \in [Pirqs -> PirqT] /\ pirq'[p] = np
      /\ \A q \in Pirqs \ {p} : pirq'[q] = pirq[q]
      /\ \A i \in Irqs :
           Cardinality(RouteSet(pirq', i)) =
             isa[i] + One(np.reg = i /\ i \in Permitted /\ np.active # 0)
                    - One(pirq[p].reg = i /\ i \in Permitted /\ pirq[p].active # 0)
  BY <1>2, <1>3, OnePirq
<1>6. lower \in [Irqs -> Int] /\ isa' \in [Irqs -> Int]
  <2>1. lower \in [Irqs -> Int]
    BY <1>1, <1>4 DEF Types
  <2> HIDE DEF lower
  <2> QED
    BY <1>3, <1>4, <2>1
<1>7. ASSUME NEW i \in Irqs PROVE isa'[i] = Cardinality(RouteSet(pirq', i))
  <2>1. lower[i] = IF up /\ old \in Permitted /\ old = i THEN isa[i] - 1 ELSE isa[i]
    BY <1>1, <1>4 DEF Types
  <2>2. isa'[i] = IF up /\ val \in Permitted /\ val = i THEN lower[i] + 1 ELSE lower[i]
    <3> HIDE DEF lower
    <3> QED
      BY <1>3, <1>6
  <2>3. isa[i] \in Int
    BY <1>1 DEF Types
  <2>4. Cardinality(RouteSet(pirq', i)) =
             isa[i] + One(np.reg = i /\ i \in Permitted /\ np.active # 0)
                    - One(pirq[p].reg = i /\ i \in Permitted /\ pirq[p].active # 0)
    BY <1>5
  <2> HIDE DEF lower
  <2> QED
    BY <1>2, <1>3, <2>1, <2>2, <2>3, <2>4 DEF One
<1>8. \A q \in Pirqs : pirq'[q].active = Cardinality(AssertSet(dev', q))
  BY <1>2, <1>3, <1>5 DEF RunInv
<1>9. Types(dev', pirq', isa', ioapic')
  BY <1>1, <1>3, <1>5, <1>6 DEF Types
<1> QED
  BY <1>3, <1>7, <1>8, <1>9 DEF RunInv

-----------------------------------------------------------------------------
\* IntxInv of the running machine is RunInv and the type of what start-up made.
LEMMA InvRuns ==
  ASSUME IntxInv, phase[1] = "run"
  PROVE  RunInv(dev, pirq, isa, ioapic)
<1>1. Types(dev, pirq, isa, ioapic)
  BY DEF IntxInv, IntxTypeOK, Types, DevT, PirqT
<1>2. ASSUME NEW d \in Devs
      PROVE  /\ dev[d].pin # 0 /\ dev[d].pirq # 0 /\ dev[d].ioapic # 0
             /\ Fits(dev[d]) /\ Follows(dev[d])
  BY DEF IntxInv, Booted, StepFits, LintrFollows, Fits, Follows,
         pci_lintr_permitted
<1>3. \A p \in Pirqs : pirq[p].active = Cardinality(AssertSet(dev, p))
  BY DEF IntxInv, ActiveCounts, AssertSet
<1>4. \A i \in IoapicLines : ioapic[i] = Cardinality(DriveSet(dev, i))
  <2>1. DOMAIN ioapic = IoapicLines
    BY <1>1 DEF Types
  <2> QED
    BY <2>1 DEF IntxInv, LinesCount, Drives, DriveSet, DrivesR
<1>5. \A i \in Irqs : isa[i] = Cardinality(RouteSet(pirq, i))
  BY DEF IntxInv, LinesCount, RouteSet
<1> QED
  BY <1>1, <1>2, <1>3, <1>4, <1>5 DEF RunInv

\* ... and after a step of it.
LEMMA RunsInv ==
  ASSUME IntxInv, phase[1] = "run", UNCHANGED <<phase, routes>>, RunInv(dev', pirq', isa', ioapic')
  PROVE  IntxInv'
<1>0. /\ phase' = phase /\ intpin' = intpin /\ last' = last /\ counts' = counts
  BY DEF routes
<1>1. Types(dev', pirq', isa', ioapic')
  BY DEF RunInv
<1>2. IntxTypeOK'
  BY <1>0, <1>1 DEF IntxInv, IntxTypeOK, Types, DevT, PirqT
<1>3. Booted'
  BY <1>0 DEF RunInv, IntxInv, Booted
<1>4. StepFits' /\ LintrFollows'
  BY DEF RunInv, StepFits, LintrFollows, Fits, Follows, pci_lintr_permitted
<1>5. ActiveCounts'
  BY DEF RunInv, ActiveCounts, AssertSet
<1>6. LinesCount'
  <2>1. DOMAIN ioapic' = IoapicLines
    BY <1>1 DEF Types
  <2>2. \A i \in DOMAIN ioapic' :
          ioapic'[i] = Cardinality({d \in Devs : dev'[d].ioapic = i /\ Drives(d)'})
    BY <2>1 DEF RunInv, Drives, DriveSet, DrivesR
  <2>3. \A i \in Irqs :
          isa'[i] = Cardinality({p \in Pirqs : /\ pirq'[p].reg = i /\ pirq_valid_irq(i)
                                                    /\ pirq'[p].active # 0})
    BY DEF RunInv, RouteSet
  <2> QED
    BY <2>2, <2>3 DEF LinesCount
<1> QED
  BY <1>2, <1>3, <1>4, <1>5, <1>6 DEF IntxInv

\* While no device asserts anything every count is zero.
LEMMA Quiet ==
  ASSUME NEW ds, NEW ps, \A d \in Devs : ds[d].state = "IDLE" /\ ds[d].step = "none"
  PROVE  /\ \A i \in IoapicLines : Cardinality(DriveSet(ds, i)) = 0
         /\ \A p \in Pirqs : Cardinality(AssertSet(ds, p)) = 0
         /\ (\A p \in Pirqs : ps[p].active = 0) => \A i \in Irqs : Cardinality(RouteSet(ps, i)) = 0
<1>1. Cardinality({}) = 0
  BY FS_EmptySet
<1>2. \A i \in IoapicLines : DriveSet(ds, i) = {}
  BY DEF DriveSet, DrivesR
<1>3. \A p \in Pirqs : AssertSet(ds, p) = {}
  BY DEF AssertSet
<1>4. (\A p \in Pirqs : ps[p].active = 0) => \A i \in Irqs : RouteSet(ps, i) = {}
  BY DEF RouteSet
<1> QED
  BY <1>1, <1>2, <1>3, <1>4

\* Start-up, step by step: what it keeps of each device and line.
BootInv(ds, ps, ia, io) ==
  /\ Types(ds, ps, ia, io)
  /\ \A d \in Devs : /\ ds[d].state = "IDLE" /\ ds[d].step = "none" /\ ~ds[d].call
                     /\ ~ds[d].update /\ ~ds[d].want
  /\ \A p \in Pirqs : ps[p].active = 0
  /\ \A i \in Irqs : ia[i] = 0
  /\ \A i \in IoapicLines : io[i] = 0

\* It is what IntxInv says of a machine that is not yet running.
LEMMA InvBoots ==
  ASSUME IntxConstantsOK, IntxInv, phase[1] # "run"
  PROVE  BootInv(dev, pirq, isa, ioapic)
<1>1. Types(dev, pirq, isa, ioapic)
  BY DEF IntxInv, IntxTypeOK, Types, DevT, PirqT
<1>2. \A d \in Devs : /\ dev[d].state = "IDLE" /\ dev[d].step = "none" /\ ~dev[d].call
                      /\ ~dev[d].update /\ ~dev[d].want
  BY DEF IntxInv, Booted, LintrFollows
<1>3. \A p \in Pirqs : pirq[p].active = 0
  BY <1>2, Quiet DEF IntxInv, ActiveCounts, AssertSet
<1>4. \A i \in IoapicLines : ioapic[i] = 0
  <2>1. DOMAIN ioapic = IoapicLines
    BY <1>1 DEF Types
  <2> QED
    BY ZenonT(60), <1>2, <2>1, Quiet DEF IntxInv, LinesCount, Drives, DriveSet, DrivesR
<1>5. \A i \in Irqs : isa[i] = 0
  <2>1. \A i \in Irqs : isa[i] = Cardinality(RouteSet(pirq, i))
    BY DEF IntxInv, LinesCount, RouteSet
  <2>2. \A i \in Irqs : Cardinality(RouteSet(pirq, i)) = 0
    BY <1>2, <1>3, Quiet
  <2> QED
    BY <2>1, <2>2
<1> QED
  BY <1>1, <1>2, <1>3, <1>4, <1>5 DEF BootInv

\* Conversely, before and after a step.
LEMMA BootsInv ==
  ASSUME IntxTypeOK, Booted, BootInv(dev, pirq, isa, ioapic)
  PROVE  IntxInv
<1>1. \A d \in Devs : /\ dev[d].state = "IDLE" /\ dev[d].step = "none" /\ ~dev[d].call
                      /\ ~dev[d].update /\ ~dev[d].want
  BY DEF BootInv
<1>2. /\ \A i \in IoapicLines : Cardinality(DriveSet(dev, i)) = 0
      /\ \A p \in Pirqs : Cardinality(AssertSet(dev, p)) = 0
      /\ \A i \in Irqs : Cardinality(RouteSet(pirq, i)) = 0
  BY <1>1, Quiet DEF BootInv
<1>3. StepFits /\ LintrFollows
  BY <1>1 DEF StepFits, LintrFollows
<1>4. ActiveCounts
  BY <1>2 DEF BootInv, ActiveCounts, AssertSet
<1>5. LinesCount
  <2>1. DOMAIN ioapic = IoapicLines
    BY DEF IntxTypeOK
  <2>2. \A i \in DOMAIN ioapic :
          ioapic[i] = Cardinality({d \in Devs : dev[d].ioapic = i /\ Drives(d)})
    BY <1>2, <2>1 DEF BootInv, Drives, DriveSet, DrivesR
  <2>3. \A i \in Irqs :
          isa[i] = Cardinality({p \in Pirqs : /\ pirq[p].reg = i /\ pirq_valid_irq(i)
                                                   /\ pirq[p].active # 0})
    BY <1>2 DEF BootInv, RouteSet
  <2> QED
    BY <2>2, <2>3 DEF LinesCount
<1> QED
  BY <1>3, <1>4, <1>5 DEF IntxInv

\* The same of the state after a step.
LEMMA BootsNext ==
  ASSUME IntxTypeOK', Booted', BootInv(dev', pirq', isa', ioapic')
  PROVE  IntxInv'
<1>1. \A d \in Devs : /\ dev'[d].state = "IDLE" /\ dev'[d].step = "none" /\ ~dev'[d].call
                      /\ ~dev'[d].update /\ ~dev'[d].want
  BY DEF BootInv
<1>2. /\ \A i \in IoapicLines : Cardinality(DriveSet(dev', i)) = 0
      /\ \A p \in Pirqs : Cardinality(AssertSet(dev', p)) = 0
      /\ \A i \in Irqs : Cardinality(RouteSet(pirq', i)) = 0
  BY <1>1, Quiet DEF BootInv
<1>3. StepFits' /\ LintrFollows'
  BY <1>1 DEF StepFits, LintrFollows
<1>4. ActiveCounts'
  BY <1>2 DEF BootInv, ActiveCounts, AssertSet
<1>5. LinesCount'
  <2>1. DOMAIN ioapic' = IoapicLines
    BY DEF IntxTypeOK
  <2>2. \A i \in DOMAIN ioapic' :
          ioapic'[i] = Cardinality({d \in Devs : dev'[d].ioapic = i /\ Drives(d)'})
    BY <1>2, <2>1 DEF BootInv, Drives, DriveSet, DrivesR
  <2>3. \A i \in Irqs :
          isa'[i] = Cardinality({p \in Pirqs : /\ pirq'[p].reg = i /\ pirq_valid_irq(i)
                                                    /\ pirq'[p].active # 0})
    BY <1>2 DEF BootInv, RouteSet
  <2> QED
    BY <2>2, <2>3 DEF LinesCount
<1> QED
  BY <1>3, <1>4, <1>5 DEF IntxInv

\* pci_irq_init and ioapic_init.
LEMMA InitIntx == IntxConstantsOK /\ IntxInit => IntxInv
<1> SUFFICES ASSUME IntxConstantsOK, IntxInit PROVE IntxInv
  OBVIOUS
<1> DEFINE r0 == [pin |-> 0, ioapic |-> 0, pirq |-> 0, state |-> "IDLE", step |-> "none",
                  off |-> {}, update |-> FALSE, want |-> FALSE, call |-> FALSE]
           p0 == [reg |-> DIS, use |-> 0, active |-> 0]
           q0 == [count |-> 0, ioapic |-> 0, pirq |-> 0]
<1>1. /\ r0 \in DevT /\ r0.state = "IDLE" /\ r0.step = "none" /\ ~r0.call /\ ~r0.update /\ ~r0.want
      /\ p0 \in PirqT /\ p0.active = 0
      /\ q0 \in IntpinT /\ q0.pirq = 0
  BY DEF DevT, PirqT, IntpinT, Routes
<1>2. /\ dev = [d \in Devs |-> r0] /\ pirq = [p \in Pirqs |-> p0]
      /\ intpin = [s \in Slots |-> [p \in IntPins |-> q0]]
      /\ isa = [i \in Irqs |-> 0] /\ ioapic = [i \in IoapicLines |-> 0]
      /\ phase = <<"request", 1>> /\ last = 0 /\ counts = [i \in Irqs |-> 0]
  BY DEF IntxInit, IoapicLines
<1> HIDE DEF r0, p0, q0
<1>3. 1 \in Devs /\ Devs \subseteq Nat \ {0}
  BY DevsAre
<1>4. IntxTypeOK
  <2>1. phase \in {"request", "route", "run"} \X Devs
    BY <1>2, <1>3
  <2>2. dev \in [Devs -> DevT] /\ pirq \in [Pirqs -> PirqT]
    BY <1>1, <1>2
  <2>3. intpin \in [Slots -> [IntPins -> IntpinT]]
    BY <1>1, <1>2
  <2>4. isa \in [Irqs -> Int] /\ ioapic \in [IoapicLines -> Int] /\ last \in Nat /\ counts \in [Irqs -> Nat]
    BY <1>2
  <2> QED
    BY <2>1, <2>2, <2>3, <2>4 DEF IntxTypeOK, DevT, PirqT, IntpinT
<1>5. BootInv(dev, pirq, isa, ioapic)
  <2>1. Types(dev, pirq, isa, ioapic)
    BY <1>1, <1>2 DEF Types
  <2> QED
    BY <1>1, <1>2, <2>1 DEF BootInv
<1>6. Booted
  BY <1>1, <1>2, <1>3 DEF Booted
<1> QED
  BY <1>4, <1>5, <1>6, BootsInv

\* Which device comes next.
LEMMA PhaseIs ==
  ASSUME IntxConstantsOK, IntxTypeOK, NEW name \in {"request", "route"}, NEW then \in {"route", "run"},
         NextPhase(name, then)
  PROVE  /\ phase[2] \in Devs /\ Devs \subseteq Nat
         /\ \/ phase' = <<name, phase[2] + 1>> /\ phase[2] + 1 \in Devs
            \/ phase' = <<then, 1>> /\ 1 \in Devs /\ \A d \in Devs : d <= phase[2]
<1>1. PICK n \in Nat \ {0} : Devs = 1 .. n
  BY DevsAre
<1>2. Cardinality(Devs) = n
  BY <1>1, FS_Interval
<1>3. phase[2] \in 1 .. n
  BY <1>1 DEF IntxTypeOK
<1> QED
  BY <1>1, <1>2, <1>3 DEF NextPhase

\* A device asks for an interrupt pin.
LEMMA RequestInv ==
  ASSUME IntxConstantsOK, IntxInv, pci_lintr_request
  PROVE  IntxInv'
<1> DEFINE d == phase[2]
           s == SlotOf[d]
           p == LeastBy(IntPins, [q \in IntPins |-> intpin[s][q].count])
           rd == [dev[d] EXCEPT !.pin = p]
           np == [intpin[s][p] EXCEPT !.count = @ + 1]
<1>1. IntxTypeOK /\ Booted /\ phase[1] = "request" /\ BootInv(dev, pirq, isa, ioapic)
  BY InvBoots DEF IntxInv, pci_lintr_request
<1>2. /\ d \in Devs /\ Devs \subseteq Nat
      /\ \/ phase' = <<"request", d + 1>> /\ d + 1 \in Devs
         \/ phase' = <<"route", 1>> /\ 1 \in Devs /\ \A k \in Devs : k <= d
  BY <1>1, PhaseIs DEF pci_lintr_request
<1>3. s \in Slots
  BY <1>2 DEF Slots
<1>4. p \in IntPins
  <2>1. IntPins \in SUBSET Nat /\ IntPins # {}
    <3>1. NPins \in Nat \ {0}
      BY DEF IntxConstantsOK
    <3>2. 1 \in IntPins /\ IntPins \subseteq Nat
      BY <3>1 DEF IntPins
    <3> QED
      BY <3>2
  <2>2. \A q \in IntPins : [x \in IntPins |-> intpin[s][x].count][q] \in Nat
    BY <1>1, <1>3 DEF IntxTypeOK
  <2> QED
    BY <2>1, <2>2, LeastIn
<1> HIDE DEF p
<1>5. /\ intpin' = [intpin EXCEPT ![s][p] = np] /\ dev' = [dev EXCEPT ![d] = rd]
      /\ last' = last /\ pirq' = pirq /\ counts' = counts /\ isa' = isa /\ ioapic' = ioapic
  BY DEF pci_lintr_request, p
<1>6. /\ dev[d] \in DevT /\ rd \in DevT /\ rd.pin = p /\ rd.pirq = dev[d].pirq
      /\ rd.ioapic = dev[d].ioapic
      /\ rd.state = dev[d].state /\ rd.step = dev[d].step /\ rd.call = dev[d].call
      /\ rd.update = dev[d].update /\ rd.want = dev[d].want
  <2>1. dev[d] \in DevT
    BY <1>1, <1>2 DEF BootInv, Types
  <2> QED
    BY <1>4, <2>1 DEF DevT
<1>7. /\ np \in IntpinT
      /\ np.pirq = intpin[s][p].pirq /\ np.ioapic = intpin[s][p].ioapic
  <2>1. intpin[s][p] \in IntpinT
    BY <1>1, <1>3, <1>4 DEF IntxTypeOK, IntpinT
  <2> QED
    BY <2>1 DEF IntpinT
<1> HIDE DEF rd, np
<1>8. /\ dev' \in [Devs -> DevT] /\ dev'[d] = rd /\ \A k \in Devs \ {d} : dev'[k] = dev[k]
  BY <1>1, <1>2, <1>5, <1>6 DEF BootInv, Types
<1>9. /\ intpin' \in [Slots -> [IntPins -> IntpinT]]
      /\ \A t \in Slots, q \in IntPins : /\ intpin'[t][q].pirq = intpin[t][q].pirq
                                      /\ intpin'[t][q].ioapic = intpin[t][q].ioapic
  <2>1. intpin \in [Slots -> [IntPins -> IntpinT]]
    BY <1>1 DEF IntxTypeOK, IntpinT
  <2> QED
    BY <1>3, <1>4, <1>5, <1>7, <2>1
<1>10. IntxTypeOK'
  <2>1. phase' \in {"request", "route", "run"} \X Devs
    BY <1>2
  <2> QED
    BY <1>1, <1>5, <1>8, <1>9, <2>1 DEF IntxTypeOK, DevT, IntpinT
<1>11. BootInv(dev', pirq', isa', ioapic')
  BY <1>1, <1>2, <1>5, <1>6, <1>8 DEF BootInv, Types
<1>12. Booted'
  <2>1. \A k \in Devs : dev'[k].pin # 0 <=> (k = d \/ dev[k].pin # 0)
    BY <1>4, <1>6, <1>8 DEF IntPins, IntxConstantsOK
  <2>2. \A k \in Devs : k < d => dev[k].pin # 0
    BY <1>1 DEF Booted
  <2>3. ASSUME NEW k \in Devs, phase'[1] # "request" \/ k < phase'[2] PROVE dev'[k].pin # 0
    <3> HIDE DEF d
    <3>1. k \in Nat /\ d \in Nat
      BY <1>2
    <3>2. k <= d
      BY <1>2, <2>3, <3>1
    <3>3. k = d \/ k < d
      BY ONLY <3>1, <3>2
    <3> QED
      BY <2>1, <2>2, <3>3
  <2>5. \A k \in Devs : /\ dev'[k].state = "IDLE" /\ dev'[k].step = "none"
                              /\ ~dev'[k].call /\ ~dev'[k].update
    BY <1>11 DEF BootInv
  <2>6. \A t \in Slots, q \in IntPins : intpin'[t][q].pirq # 0 => intpin'[t][q].ioapic # 0
    BY <1>1, <1>9 DEF Booted
  <2>7. \A k \in Devs : ~(phase'[1] = "run" \/ (phase'[1] = "route" /\ k < phase'[2]))
    <3>1. Devs \subseteq Nat \ {0}
      BY DevsAre
    <3> QED
      BY <1>2, <3>1
  <2> QED
    BY <2>3, <2>5, <2>6, <2>7 DEF Booted
<1> QED
  BY <1>10, <1>11, <1>12, BootsNext

\* Its pin is routed: if it shares it, as it is; else to the least used PIRQ
\* pin and the next line of the I/O APIC.
LEMMA RouteInv ==
  ASSUME IntxConstantsOK, IntxInv, pci_lintr_route
  PROVE  IntxInv'
<1> DEFINE d == phase[2]
           s == SlotOf[d]
           p == dev[d].pin
           irq == 16 + (last % PciPins)
           ii == intpin[s][p]
<1>1. IntxTypeOK /\ Booted /\ phase[1] = "route" /\ BootInv(dev, pirq, isa, ioapic)
  BY InvBoots DEF IntxInv, pci_lintr_route
<1>2. /\ d \in Devs /\ Devs \subseteq Nat
      /\ \/ phase' = <<"route", d + 1>> /\ d + 1 \in Devs
         \/ phase' = <<"run", 1>> /\ 1 \in Devs /\ \A k \in Devs : k <= d
  BY <1>1, PhaseIs DEF pci_lintr_route
<1>3. s \in Slots
  BY <1>2 DEF Slots
<1>4. /\ dev[d] \in DevT /\ intpin \in [Slots -> [IntPins -> IntpinT]]
      /\ dev \in [Devs -> DevT] /\ pirq \in [Pirqs -> PirqT]
  BY <1>1, <1>2 DEF BootInv, Types, IntxTypeOK, IntpinT
<1>5. p \in IntPins
  <2>1. p # 0
    BY <1>1, <1>2 DEF Booted
  <2> QED
    BY <1>4, <2>1 DEF DevT
<1>6. irq \in IoapicLines
  <2>1. last \in Nat /\ PciPins \in Nat \ {0}
    BY <1>1 DEF IntxTypeOK, IntxConstantsOK
  <2>2. last % PciPins \in 0 .. PciPins - 1
    BY ONLY <2>1
  <2> QED
    BY <2>1, <2>2 DEF IoapicLines
<1>7. ii \in IntpinT
  BY <1>3, <1>4, <1>5
<1> DEFINE RoutedDev(rd) == /\ rd \in DevT /\ rd.pin = dev[d].pin /\ rd.pirq # 0 /\ rd.ioapic # 0
                         /\ rd.state = dev[d].state /\ rd.step = dev[d].step /\ rd.call = dev[d].call
                         /\ rd.update = dev[d].update /\ rd.want = dev[d].want
<1>8. PICK rd : RoutedDev(rd) /\ dev' = [dev EXCEPT ![d] = rd]
  <2>1. CASE ii.pirq # 0
    <3> DEFINE rd == [dev[d] EXCEPT !.ioapic = ii.ioapic, !.pirq = ii.pirq]
    <3>1. dev' = [dev EXCEPT ![d] = rd]
      BY <2>1 DEF pci_lintr_route
    <3>2. ii.ioapic # 0
      BY <1>1, <1>3, <1>5, <2>1 DEF Booted
    <3>3. RoutedDev(rd)
      BY <1>4, <1>7, <2>1, <3>2 DEF DevT, IntpinT
    <3> QED
      BY <3>1, <3>3
  <2>2. CASE ii.pirq = 0
    <3>1. PICK q \in Pirqs : dev' = [dev EXCEPT ![d].ioapic = irq, ![d].pirq = q]
      BY <2>2 DEF pci_lintr_route
    <3> DEFINE rd == [dev[d] EXCEPT !.ioapic = irq, !.pirq = q]
    <3>2. dev' = [dev EXCEPT ![d] = rd]
      BY <3>1
    <3>3. irq # 0 /\ q # 0
      BY <1>6 DEF IoapicLines, Pirqs, IntxConstantsOK
    <3> HIDE DEF irq
    <3>4. RoutedDev(rd)
      BY <1>4, <1>6, <3>3 DEF DevT
    <3> QED
      BY <3>2, <3>4
  <2> QED
    BY <2>1, <2>2
<1>9. /\ dev' \in [Devs -> DevT] /\ dev'[d] = rd /\ \A k \in Devs \ {d} : dev'[k] = dev[k]
  BY <1>2, <1>4, <1>8
<1>10. /\ intpin' \in [Slots -> [IntPins -> IntpinT]] /\ last' \in Nat
       /\ pirq' \in [Pirqs -> PirqT] /\ counts' \in [Irqs -> Nat]
       /\ \A q \in Pirqs : pirq'[q].active = 0
       /\ \A t \in Slots, q \in IntPins : intpin'[t][q].pirq # 0 => intpin'[t][q].ioapic # 0
  <2>1. CASE ii.pirq # 0
    <3>1. intpin' = intpin /\ last' = last /\ pirq' = pirq /\ counts' = counts
      BY <2>1 DEF pci_lintr_route
    <3> QED
      BY <1>1, <1>4, <3>1 DEF IntxTypeOK, Booted, BootInv
  <2>2. CASE ii.pirq = 0
    <3> DEFINE best == LeastBy(Permitted \ Reserved, counts)
    <3>1. PICK q \in Pirqs :
            /\ pirq_alloc_pin(q)
            /\ intpin' = [intpin EXCEPT ![s][p].ioapic = irq, ![s][p].pirq = q]
      BY <2>2 DEF pci_lintr_route
    <3>2. last' = last + 1
      BY <2>2 DEF pci_lintr_route
    <3>3. counts \in [Irqs -> Nat] /\ last \in Nat
      BY <1>1 DEF IntxTypeOK
    <3>4. best \in Irqs
      <4>1. (Permitted \ Reserved) \in SUBSET Nat /\ Permitted \ Reserved # {}
            /\ Permitted \ Reserved \subseteq Irqs
        BY DEF IntxConstantsOK
      <4> QED
        BY <3>3, <4>1, LeastIn
    <3>5. /\ pirq' = [pirq EXCEPT ![q].use = @ + 1, ![q].reg = IF @ = DIS THEN best ELSE @]
          /\ counts' = IF pirq[q].reg = DIS THEN [counts EXCEPT ![best] = @ + 1] ELSE counts
      BY <3>1 DEF pirq_alloc_pin
    <3> HIDE DEF best
    <3>6. counts' \in [Irqs -> Nat]
      BY <3>3, <3>4, <3>5
    <3> DEFINE np == [pirq[q] EXCEPT !.use = @ + 1, !.reg = IF @ = DIS THEN best ELSE @]
    <3>7. pirq' = [pirq EXCEPT ![q] = np] /\ np \in PirqT /\ np.active = pirq[q].active
      <4>1. pirq[q] \in PirqT
        BY <1>4
      <4>2. best \in Routes
        BY <3>4 DEF Routes
      <4> DEFINE r == IF pirq[q].reg = DIS THEN best ELSE pirq[q].reg
                 u == pirq[q].use + 1
      <4>3. np = [pirq[q] EXCEPT !.use = u, !.reg = r] /\ r \in Routes /\ u \in Nat
        BY <4>1, <4>2 DEF PirqT
      <4> HIDE DEF r, u, np
      <4>4. np \in PirqT /\ np.active = pirq[q].active
        BY <4>1, <4>3 DEF PirqT
      <4> QED
        BY <3>5, <4>4 DEF np
    <3> DEFINE ni == [ii EXCEPT !.ioapic = irq, !.pirq = q]
    <3>8. intpin' = [intpin EXCEPT ![s][p] = ni]
      BY <3>1
    <3>9. irq # 0
      BY <1>6 DEF IoapicLines, IntxConstantsOK
    <3> HIDE DEF irq, ii
    <3>10. ni \in IntpinT /\ ni.pirq = q /\ ni.ioapic = irq
      BY <1>6, <1>7 DEF IntpinT
    <3> HIDE DEF np, ni
    <3>11. pirq' \in [Pirqs -> PirqT] /\ \A x \in Pirqs : pirq'[x].active = 0
      BY <1>1, <1>4, <3>7 DEF BootInv
    <3>12. /\ intpin' \in [Slots -> [IntPins -> IntpinT]] /\ intpin'[s][p] = ni
           /\ \A t \in Slots, x \in IntPins : t # s \/ x # p => intpin'[t][x] = intpin[t][x]
      BY <1>3, <1>4, <1>5, <3>8, <3>10
    <3>13. \A t \in Slots, x \in IntPins : intpin'[t][x].pirq # 0 => intpin'[t][x].ioapic # 0
      BY <1>1, <3>9, <3>10, <3>12 DEF Booted
    <3> QED
      BY <3>2, <3>3, <3>6, <3>11, <3>12, <3>13
  <2> QED
    BY <2>1, <2>2
<1>11. isa' = isa /\ ioapic' = ioapic
  BY DEF pci_lintr_route
<1>12. IntxTypeOK'
  <2>1. phase' \in {"request", "route", "run"} \X Devs
    BY <1>2
  <2> QED
    BY <1>1, <1>9, <1>10, <1>11, <2>1 DEF IntxTypeOK, DevT, IntpinT, PirqT
<1>13. BootInv(dev', pirq', isa', ioapic')
  <2>1. \A k \in Devs : /\ dev'[k].state = "IDLE" /\ dev'[k].step = "none" /\ ~dev'[k].call
                        /\ ~dev'[k].update /\ ~dev'[k].want
    BY <1>1, <1>2, <1>8, <1>9 DEF BootInv
  <2> QED
    BY <1>1, <1>9, <1>10, <1>11, <2>1 DEF BootInv, Types
<1>14. Booted'
  <2>1. \A k \in Devs : dev'[k].pin # 0
    BY <1>1, <1>8, <1>9 DEF Booted
  <2>2. \A k \in Devs : k < d => dev[k].pirq # 0 /\ dev[k].ioapic # 0
    BY <1>1 DEF Booted
  <2>3. \A k \in Devs : k <= d => dev'[k].pirq # 0 /\ dev'[k].ioapic # 0
    <3> SUFFICES ASSUME NEW k \in Devs, k <= d PROVE dev'[k].pirq # 0 /\ dev'[k].ioapic # 0
      OBVIOUS
    <3>1. CASE k = d
      BY <1>8, <1>9, <3>1
    <3>2. CASE k # d
      <4>1. k \in Nat /\ d \in Nat
        BY <1>2
      <4> HIDE DEF d
      <4>2. k < d
        BY ONLY <3>2, <4>1, k <= d
      <4>3. dev'[k] = dev[k]
        BY <1>9, <3>2
      <4> QED
        BY <2>2, <4>2, <4>3
    <3> QED
      BY <3>1, <3>2
  <2>4. ASSUME NEW k \in Devs, phase'[1] = "run" \/ (phase'[1] = "route" /\ k < phase'[2])
        PROVE  dev'[k].pirq # 0 /\ dev'[k].ioapic # 0
    <3> HIDE DEF d
    <3>1. k \in Nat /\ d \in Nat
      BY <1>2
    <3>2. k <= d
      BY <1>2, <2>4, <3>1
    <3> QED
      BY <2>3, <3>2
  <2>5. \A k \in Devs : /\ dev'[k].state = "IDLE" /\ dev'[k].step = "none"
                              /\ ~dev'[k].call /\ ~dev'[k].update
    BY <1>13 DEF BootInv
  <2> QED
    BY <1>10, <2>1, <2>4, <2>5 DEF Booted
<1> QED
  BY <1>12, <1>13, <1>14, BootsNext

-----------------------------------------------------------------------------
\* What a call or a write sets of a device leaves its pin, its lines and what
\* it drives.
LEMMA CallInv ==
  ASSUME IntxConstantsOK, RunInv(dev, pirq, isa, ioapic), NEW d \in Devs, Call(d)
  PROVE  RunInv(dev', pirq', isa', ioapic')
<1>1. PICK w \in BOOLEAN : dev' = [dev EXCEPT ![d].want = w, ![d].call = TRUE]
  BY DEF Call
<1> DEFINE nd == [dev[d] EXCEPT !.want = w, !.call = TRUE]
<1>2. dev[d] \in DevT /\ Fits(dev[d]) /\ Follows(dev[d])
  BY DEF RunInv, Types
<1>3. /\ nd \in DevT /\ nd.ioapic = dev[d].ioapic /\ nd.pirq = dev[d].pirq /\ nd.pin = dev[d].pin
      /\ nd.state = dev[d].state /\ nd.step = dev[d].step /\ nd.update = dev[d].update
      /\ nd.off = dev[d].off /\ nd.call
  BY <1>2 DEF DevT
<1>4. Becomes(d, nd)
  BY <1>1 DEF Becomes, Call
<1> HIDE DEF nd
<1>5. Fits(nd) /\ Follows(nd)
  BY <1>2, <1>3 DEF Fits, Follows
<1> QED
  BY <1>3, <1>4, <1>5, BecomesInv

\* pci_lintr_assert and pci_lintr_deassert.
LEMMA LintrInv ==
  ASSUME IntxConstantsOK, RunInv(dev, pirq, isa, ioapic), NEW d \in Devs,
         pci_lintr_assert(d) \/ pci_lintr_deassert(d)
  PROVE  RunInv(dev', pirq', isa', ioapic')
<1>1. dev[d] \in DevT /\ Fits(dev[d]) /\ Follows(dev[d])
  BY DEF RunInv, Types
<1> DEFINE Nd(st) == [dev[d] EXCEPT !.call = FALSE, !.state = st]
<1>2. ASSUME NEW st \in {"IDLE", "ASSERTED", "PENDING"}
      PROVE  /\ Nd(st) \in DevT /\ Nd(st).ioapic = dev[d].ioapic /\ Nd(st).pirq = dev[d].pirq
             /\ Nd(st).pin = dev[d].pin /\ Nd(st).state = st /\ Nd(st).step = dev[d].step
             /\ Nd(st).update = dev[d].update /\ Nd(st).off = dev[d].off /\ ~Nd(st).call
             /\ Nd(st).want = dev[d].want
  BY <1>1 DEF DevT
<1>3. CASE pci_lintr_assert(d)
  <2>1. dev[d].want /\ dev[d].step = "none"
    BY <1>3 DEF pci_lintr_assert
  <2>2. CASE dev[d].state # "IDLE"
    <3>1. dev[d].state \in {"ASSERTED", "PENDING"} /\ [dev[d] EXCEPT !.call = FALSE] = Nd(dev[d].state)
      BY <1>1, <2>2 DEF DevT
    <3>2. Becomes(d, Nd(dev[d].state))
      BY <1>3, <2>2, <3>1 DEF pci_lintr_assert
    <3> DEFINE nd == Nd(dev[d].state)
    <3>3. /\ nd \in DevT /\ nd.ioapic = dev[d].ioapic /\ nd.pirq = dev[d].pirq
          /\ nd.pin = dev[d].pin /\ nd.state = dev[d].state /\ nd.step = dev[d].step
          /\ nd.update = dev[d].update /\ nd.off = dev[d].off /\ ~nd.call /\ nd.want = dev[d].want
      BY <1>2, <3>1
    <3> HIDE DEF nd, Nd
    <3>4. Fits(nd) /\ Follows(nd)
      BY <1>1, <2>1, <2>2, <3>3 DEF Fits, Follows
    <3> QED
      BY <3>2, <3>3, <3>4, BecomesInv DEF nd
  <2>3. CASE dev[d].state = "IDLE" /\ pci_lintr_permitted(d)
    <3> DEFINE nd == Nd("ASSERTED")
    <3>1. [[dev[d] EXCEPT !.call = FALSE] EXCEPT !.state = "ASSERTED"] = nd
      BY <1>1 DEF DevT
    <3>2. pci_irq_assert(d, nd)
      BY <1>3, <2>3, <3>1 DEF pci_lintr_assert
    <3>3. /\ nd \in DevT /\ nd.ioapic = dev[d].ioapic /\ nd.pirq = dev[d].pirq
          /\ nd.pin = dev[d].pin /\ nd.state = "ASSERTED" /\ nd.step = dev[d].step
          /\ nd.update = dev[d].update /\ nd.off = dev[d].off /\ ~nd.call /\ nd.want = dev[d].want
      BY <1>2
    <3> HIDE DEF nd, Nd
    <3>4. Follows(nd)
      BY <2>1, <2>3, <3>3 DEF Follows, pci_lintr_permitted
    <3> QED
      BY <2>1, <2>3, <3>2, <3>3, <3>4, AssertInv
  <2>4. CASE dev[d].state = "IDLE" /\ ~pci_lintr_permitted(d)
    <3> DEFINE nd == Nd("PENDING")
    <3>1. [[dev[d] EXCEPT !.call = FALSE] EXCEPT !.state = "PENDING"] = nd
      BY <1>1 DEF DevT
    <3>2. Becomes(d, nd)
      BY <1>3, <2>4, <3>1 DEF pci_lintr_assert
    <3>3. /\ nd \in DevT /\ nd.ioapic = dev[d].ioapic /\ nd.pirq = dev[d].pirq
          /\ nd.pin = dev[d].pin /\ nd.state = "PENDING" /\ nd.step = dev[d].step
          /\ nd.update = dev[d].update /\ nd.off = dev[d].off /\ ~nd.call /\ nd.want = dev[d].want
      BY <1>2
    <3> HIDE DEF nd, Nd
    <3>4. Follows(nd) /\ Fits(nd)
      BY <2>1, <2>4, <3>3 DEF Follows, Fits, pci_lintr_permitted
    <3> QED
      BY <2>1, <2>4, <3>2, <3>3, <3>4, BecomesInv
  <2> QED
    BY <2>2, <2>3, <2>4
<1>4. CASE pci_lintr_deassert(d)
  <2> DEFINE nd == Nd("IDLE")
  <2>1. ~dev[d].want /\ dev[d].step = "none"
    BY <1>4 DEF pci_lintr_deassert
  <2>2. IF dev[d].state = "ASSERTED" THEN pci_irq_deassert(d, nd) ELSE Becomes(d, nd)
    BY <1>4 DEF pci_lintr_deassert
  <2>3. /\ nd \in DevT /\ nd.ioapic = dev[d].ioapic /\ nd.pirq = dev[d].pirq
        /\ nd.pin = dev[d].pin /\ nd.state = "IDLE" /\ nd.step = dev[d].step
        /\ nd.update = dev[d].update /\ nd.off = dev[d].off /\ ~nd.call /\ nd.want = dev[d].want
    BY <1>2
  <2> HIDE DEF nd, Nd
  <2>4. Follows(nd) /\ Fits(nd)
    BY <2>1, <2>3 DEF Follows, Fits
  <2>5. CASE dev[d].state = "ASSERTED"
    BY <2>1, <2>2, <2>3, <2>4, <2>5, DeassertInv
  <2>6. CASE dev[d].state # "ASSERTED"
    BY <2>1, <2>2, <2>3, <2>4, <2>6, BecomesInv
  <2> QED
    BY <2>5, <2>6
<1> QED
  BY <1>3, <1>4

\* The guest turns MSI or INTx disable on or off.
LEMMA ConfigWriteInv ==
  ASSUME IntxConstantsOK, RunInv(dev, pirq, isa, ioapic), NEW d \in Devs, ConfigWrite(d)
  PROVE  RunInv(dev', pirq', isa', ioapic')
<1>1. PICK why \in {"msi", "intxdis"} :
        dev' = [dev EXCEPT ![d].update = TRUE,
                           ![d].off = IF why \in @ THEN @ \ {why} ELSE @ \cup {why}]
  BY DEF ConfigWrite
<1> DEFINE off == IF why \in dev[d].off THEN dev[d].off \ {why} ELSE dev[d].off \cup {why}
           nd == [dev[d] EXCEPT !.update = TRUE, !.off = off]
<1>2. dev[d] \in DevT /\ Fits(dev[d]) /\ Follows(dev[d])
  BY DEF RunInv, Types
<1>3. off \in SUBSET {"msi", "intxdis"}
  BY <1>2 DEF DevT
<1>4. Becomes(d, nd)
  BY <1>1 DEF Becomes, ConfigWrite
<1> HIDE DEF off
<1>5. /\ nd \in DevT /\ nd.ioapic = dev[d].ioapic /\ nd.pirq = dev[d].pirq /\ nd.pin = dev[d].pin
      /\ nd.state = dev[d].state /\ nd.step = dev[d].step /\ nd.update
      /\ nd.want = dev[d].want /\ nd.call = dev[d].call
  BY <1>2, <1>3 DEF DevT
<1> HIDE DEF nd
<1>6. Fits(nd) /\ Follows(nd)
  BY <1>2, <1>5 DEF Fits, Follows
<1> QED
  BY <1>4, <1>5, <1>6, BecomesInv

\* pci_lintr_update.
LEMMA UpdateInv ==
  ASSUME IntxConstantsOK, RunInv(dev, pirq, isa, ioapic), NEW d \in Devs, pci_lintr_update(d)
  PROVE  RunInv(dev', pirq', isa', ioapic')
<1>1. dev[d] \in DevT /\ Fits(dev[d]) /\ Follows(dev[d]) /\ dev[d].step = "none"
  BY DEF RunInv, Types, pci_lintr_update
<1> DEFINE Nd(st) == [[dev[d] EXCEPT !.update = FALSE] EXCEPT !.state = st]
<1>2. ASSUME NEW st \in {"IDLE", "ASSERTED", "PENDING"}
      PROVE  /\ Nd(st) \in DevT /\ Nd(st).ioapic = dev[d].ioapic /\ Nd(st).pirq = dev[d].pirq
             /\ Nd(st).pin = dev[d].pin /\ Nd(st).state = st /\ Nd(st).step = dev[d].step
             /\ Nd(st).call = dev[d].call /\ Nd(st).off = dev[d].off /\ ~Nd(st).update
             /\ Nd(st).want = dev[d].want
  BY <1>1 DEF DevT
<1>3. CASE dev[d].state = "ASSERTED" /\ ~pci_lintr_permitted(d)
  <2> DEFINE nd == Nd("PENDING")
  <2>1. pci_irq_deassert(d, nd)
    BY <1>3 DEF pci_lintr_update, Update
  <2>2. /\ nd \in DevT /\ nd.ioapic = dev[d].ioapic /\ nd.pirq = dev[d].pirq
        /\ nd.pin = dev[d].pin /\ nd.state = "PENDING" /\ nd.step = dev[d].step
        /\ nd.call = dev[d].call /\ nd.off = dev[d].off /\ ~nd.update /\ nd.want = dev[d].want
    BY <1>2
  <2> HIDE DEF nd, Nd
  <2>3. Follows(nd)
    BY <1>1, <1>3, <2>2 DEF Follows, pci_lintr_permitted
  <2> QED
    BY <1>1, <1>3, <2>1, <2>2, <2>3, DeassertInv
<1>4. CASE dev[d].state = "PENDING" /\ pci_lintr_permitted(d)
  <2> DEFINE nd == Nd("ASSERTED")
  <2>1. pci_irq_assert(d, nd)
    BY <1>4 DEF pci_lintr_update, Update
  <2>2. /\ nd \in DevT /\ nd.ioapic = dev[d].ioapic /\ nd.pirq = dev[d].pirq
        /\ nd.pin = dev[d].pin /\ nd.state = "ASSERTED" /\ nd.step = dev[d].step
        /\ nd.call = dev[d].call /\ nd.off = dev[d].off /\ ~nd.update /\ nd.want = dev[d].want
    BY <1>2
  <2> HIDE DEF nd, Nd
  <2>3. Follows(nd)
    BY <1>1, <1>4, <2>2 DEF Follows, pci_lintr_permitted
  <2> QED
    BY <1>1, <1>4, <2>1, <2>2, <2>3, AssertInv
<1>5. CASE /\ ~(dev[d].state = "ASSERTED" /\ ~pci_lintr_permitted(d))
           /\ ~(dev[d].state = "PENDING" /\ pci_lintr_permitted(d))
  <2> DEFINE nd == [dev[d] EXCEPT !.update = FALSE]
  <2>1. Becomes(d, nd)
    BY <1>5 DEF pci_lintr_update, Update
  <2>2. /\ nd \in DevT /\ nd.ioapic = dev[d].ioapic /\ nd.pirq = dev[d].pirq
        /\ nd.pin = dev[d].pin /\ nd.state = dev[d].state /\ nd.step = dev[d].step
        /\ nd.call = dev[d].call /\ nd.off = dev[d].off /\ ~nd.update /\ nd.want = dev[d].want
        /\ nd.state \in {"IDLE", "ASSERTED", "PENDING"}
    BY <1>1 DEF DevT
  <2> HIDE DEF nd
  <2>3. Follows(nd) /\ Fits(nd)
    BY <1>1, <1>5, <2>2 DEF Follows, Fits, pci_lintr_permitted
  <2> QED
    BY <2>1, <2>2, <2>3, BecomesInv
<1> QED
  BY <1>3, <1>4, <1>5

\* Every step keeps the invariant.
LEMMA NextIntx == IntxConstantsOK /\ IntxInv /\ [IntxNext]_intxvars => IntxInv'
<1> SUFFICES ASSUME IntxConstantsOK, IntxInv, [IntxNext]_intxvars PROVE IntxInv'
  OBVIOUS
<1>1. CASE pci_lintr_request
  BY <1>1, RequestInv
<1>2. CASE pci_lintr_route
  BY <1>2, RouteInv
<1>3. ASSUME NEW d \in Devs,
             \/ Call(d) \/ pci_lintr_assert(d) \/ pci_lintr_deassert(d) \/ IoapicStep(d)
             \/ ConfigWrite(d) \/ pci_lintr_update(d)
      PROVE  IntxInv'
  <2>1. phase[1] = "run" /\ UNCHANGED <<phase, routes>>
    BY <1>3 DEF IntxInv, Booted, Call, pci_lintr_assert,
                pci_lintr_deassert, IoapicStep,
                ConfigWrite, pci_lintr_update
  <2>2. RunInv(dev', pirq', isa', ioapic')
    BY <1>3, <2>1, InvRuns, CallInv, LintrInv, IoapicStepInv, ConfigWriteInv, UpdateInv
  <2> QED
    BY <2>1, <2>2, RunsInv
<1>4. ASSUME NEW p \in Pirqs, NEW val \in Routes, pirq_write(p, val) PROVE IntxInv'
  <2>1. phase[1] = "run" /\ UNCHANGED <<phase, routes>>
    BY <1>4 DEF pirq_write
  <2> QED
    BY <1>4, <2>1, InvRuns, PirqWriteInv, RunsInv
<1>5. CASE UNCHANGED intxvars
  <2>1. IntxTypeOK'
    BY <1>5 DEF intxvars, IntxInv, IntxTypeOK
  <2>2. Booted' /\ StepFits'
    BY <1>5 DEF intxvars, IntxInv, Booted, StepFits
  <2>3. ActiveCounts' /\ LinesCount'
    BY <1>5 DEF intxvars, IntxInv, ActiveCounts, LinesCount, Drives
  <2>4. LintrFollows'
    BY <1>5 DEF intxvars, IntxInv, LintrFollows, pci_lintr_permitted
  <2> QED
    BY <2>1, <2>2, <2>3, <2>4 DEF IntxInv
<1> QED
  BY <1>1, <1>2, <1>3, <1>4, <1>5 DEF IntxNext

\* What the other theorems follow from.
LEMMA IntxInvariance == IntxConstantsOK => (IntxSpec => []IntxInv)
<1> SUFFICES ASSUME IntxConstantsOK PROVE IntxSpec => []IntxInv
  OBVIOUS
<1>1. IntxInit => IntxInv
  BY InitIntx
<1>2. IntxInv /\ [IntxNext]_intxvars => IntxInv'
  BY NextIntx
<1> QED
  BY <1>1, <1>2, PTL DEF IntxSpec

\* Whatever devices share pins and lines, in whatever order their threads assert
\* and deassert, and however the guest re-routes PIRQ pins and turns MSI and
\* INTx on and off: each line of the I/O APIC counts exactly the devices that
\* assert it and each line of the 8259s the asserted pins routed to it; and
\* once its calls and writes have returned, a device asserts its line, or has
\* it pending, exactly when it wants to.
THEOREM LinesMatchDevices == IntxConstantsOK => (IntxSpec => []LinesMatch)
<1> SUFFICES ASSUME IntxConstantsOK PROVE IntxSpec => []LinesMatch
  OBVIOUS
<1>1. IntxSpec => []IntxInv
  BY IntxInvariance
<1>2. IntxInv => LinesMatch
  <2> SUFFICES ASSUME IntxInv PROVE LintrSettled
    BY DEF IntxInv, LinesMatch
  <2>1. \A d \in Devs : dev[d].state \in {"IDLE", "ASSERTED", "PENDING"}
    BY DEF IntxInv, IntxTypeOK
  <2> QED
    BY <2>1 DEF IntxInv, LintrFollows, LintrSettled
<1> QED
  BY <1>1, <1>2, PTL
=============================================================================
