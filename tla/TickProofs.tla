----------------------------- MODULE TickProofs -----------------------------
(***************************************************************************)
(* Proofs about the three timer devices.                                   *)
(*                                                                         *)
(* HPET (Vhpet), for every number of timers, width of the counter and      *)
(* configuration the guest writes: the pins that several timers share      *)
(* count their status bits, no match is missed, and the next match of a    *)
(* periodic timer is at most a period away.  The first two are inductive   *)
(* with the types and with what an armed callout means (HpetInv); the last *)
(* (Near) rests on the arithmetic of vhpet_adjust_compval (RoundedUp).     *)
(*                                                                         *)
(* PIT (Vatpit), for every width of a byte: the rate generator is armed    *)
(* once it has been given its count, and ahead of time.                    *)
(*                                                                         *)
(* RTC (Vrtc), for all rates and times: the callout matches the registers  *)
(* and an enabled condition is signalled.  A clock that is not halted      *)
(* knows the time and does not run back (Clock), so that bringing it up to *)
(* date keeps the frequency (Updated).                                     *)
(***************************************************************************)
EXTENDS Ticks, FiniteSetTheorems, TLAPS

-----------------------------------------------------------------------------
(* The HPET: lines and matches.                                            *)

TimerT ==
  [enb : BOOLEAN, level : BOOLEAN, msi : BOOLEAN, pin : Nat, periodic : BOOLEAN,
   valset : BOOLEAN, compval : 0 .. WC - 1, comprate : 0 .. WC - 1, cbt : Nat,
   pending : BOOLEAN, active : BOOLEAN, owed : BOOLEAN]

HpetT ==
  [en : BOOLEAN, countbase : 0 .. WC - 1, base : Nat, isr : SUBSET Timers,
   hnd : Timers \cup {0}, line : [Pins -> Int], t : [Timers -> TimerT]]

\* A level triggered timer with its status bit set is routed to a pin, and
\* the pins count those timers.
Lines(s) ==
  /\ \A n \in Timers : ~s.t[n].msi => s.t[n].pin \in Pins \cup {0}
  /\ \A n \in s.isr : s.t[n].level /\ ~s.t[n].msi /\ s.t[n].pin \in Pins
  /\ \A p \in Pins : s.line[p] = Cardinality({n \in s.isr : s.t[n].pin = p})

\* Any set of timers is finite.
LEMMA TimersFinite ==
  ASSUME HpetConstantsOK, NEW S \in SUBSET Timers
  PROVE  IsFiniteSet(S) /\ Cardinality(S) \in Nat
<1>1. IsFiniteSet(Timers)
  BY FS_Interval DEF Timers, HpetConstantsOK
<1> QED
  BY <1>1, FS_Subset, FS_CardinalityType

\* What vhpet_timer_interrupt leaves of a timer.
LEMMA InterruptIs ==
  ASSUME HpetConstantsOK, NEW s \in HpetT, NEW N \in SUBSET Timers
  PROVE  LET r == vhpet_timer_interrupt(s, N)
             up == {n \in N : Asserts(s, n)}
         IN /\ r \in HpetT
            /\ r.en = s.en /\ r.hnd = s.hnd
            /\ r.isr = s.isr \cup up
            /\ \A p \in Pins : r.line[p] = s.line[p] + Cardinality({n \in up : s.t[n].pin = p})
            /\ \A n \in Timers : r.t[n] = [s.t[n] EXCEPT !.owed = s.t[n].owed /\ n \notin N]
<1> DEFINE r == vhpet_timer_interrupt(s, N)
           up == {n \in N : Asserts(s, n)}
           T == [n \in Timers |-> [s.t[n] EXCEPT !.owed = s.t[n].owed /\ n \notin N]]
           L == [p \in Pins |-> s.line[p] + Cardinality({n \in up : s.t[n].pin = p})]
<1>1. r = [s EXCEPT !.t = T, !.isr = s.isr \cup up, !.line = L]
  BY DEF vhpet_timer_interrupt
<1>2. T \in [Timers -> TimerT]
  <2> SUFFICES ASSUME NEW n \in Timers PROVE [s.t[n] EXCEPT !.owed = s.t[n].owed /\ n \notin N] \in TimerT
    OBVIOUS
  <2>1. s.t[n] \in TimerT
    BY DEF HpetT
  <2>2. (s.t[n].owed /\ n \notin N) \in BOOLEAN
    OBVIOUS
  <2> QED
    BY <2>1, <2>2 DEF TimerT
<1>3. L \in [Pins -> Int]
  <2> SUFFICES ASSUME NEW p \in Pins
               PROVE  s.line[p] + Cardinality({n \in up : s.t[n].pin = p}) \in Int
    OBVIOUS
  <2>1. Cardinality({n \in up : s.t[n].pin = p}) \in Nat
    BY TimersFinite
  <2>2. s.line[p] \in Int
    BY DEF HpetT
  <2> QED
    BY <2>1, <2>2
<1>4. s.isr \cup up \in SUBSET Timers
  BY DEF HpetT
<1> HIDE DEF T, L, up, r
<1>5. /\ r \in HpetT /\ r.en = s.en /\ r.hnd = s.hnd /\ r.isr = s.isr \cup up
      /\ r.t = T /\ r.line = L
  BY <1>1, <1>2, <1>3, <1>4 DEF HpetT
<1> QED
  BY <1>5 DEF T, L, r, up

\* Asserting the interrupts of some timers keeps the count of every pin.
LEMMA InterruptLines ==
  ASSUME HpetConstantsOK, NEW s \in HpetT, NEW N \in SUBSET Timers, Lines(s)
  PROVE  Lines(vhpet_timer_interrupt(s, N))
<1> DEFINE r == vhpet_timer_interrupt(s, N)
           up == {n \in N : Asserts(s, n)}
<1>1. /\ r.isr = s.isr \cup up
      /\ \A p \in Pins : r.line[p] = s.line[p] + Cardinality({n \in up : s.t[n].pin = p})
      /\ \A n \in Timers : r.t[n] = [s.t[n] EXCEPT !.owed = s.t[n].owed /\ n \notin N]
  BY InterruptIs
<1>2. s.t \in [Timers -> TimerT] /\ s.isr \subseteq Timers /\ up \subseteq Timers
  BY DEF HpetT
<1>3. \A n \in up : /\ n \notin s.isr /\ ~s.t[n].msi /\ s.t[n].level
                    /\ s.t[n].pin # 0
  BY DEF Asserts, vhpet_timer_edge_trig
<1> HIDE DEF r, up
<1>4. \A n \in Timers : /\ r.t[n].msi = s.t[n].msi /\ r.t[n].level = s.t[n].level
                        /\ r.t[n].pin = s.t[n].pin
  <2> TAKE n \in Timers
  <2> DEFINE x == s.t[n]
             b == s.t[n].owed /\ n \notin N
  <2>1. x \in TimerT /\ r.t[n] = [x EXCEPT !.owed = b]
    BY <1>1, <1>2
  <2> HIDE DEF x, b
  <2>2. r.t[n].msi = x.msi /\ r.t[n].level = x.level /\ r.t[n].pin = x.pin
    BY <2>1 DEF TimerT
  <2> QED
    BY <2>2 DEF x
<1>5. \A n \in r.isr : r.t[n].level /\ ~r.t[n].msi /\ r.t[n].pin \in Pins
  BY <1>1, <1>2, <1>3, <1>4 DEF Lines
<1>6. ASSUME NEW p \in Pins
      PROVE  r.line[p] = Cardinality({n \in r.isr : r.t[n].pin = p})
  <2> DEFINE A == {n \in s.isr : s.t[n].pin = p}
             B == {n \in up : s.t[n].pin = p}
             C == {n \in r.isr : r.t[n].pin = p}
  <2>1. C = A \cup B /\ A \cap B = {}
    BY <1>1, <1>2, <1>3, <1>4
  <2>2. IsFiniteSet(A) /\ Cardinality(A) \in Nat /\ IsFiniteSet(B) /\ Cardinality(B) \in Nat
    BY <1>2, TimersFinite
  <2>3. r.line[p] = Cardinality(A) + Cardinality(B)
    BY <1>1 DEF Lines
  <2> HIDE DEF A, B, C
  <2>4. Cardinality(A \cup B) = Cardinality(A) + Cardinality(B) - Cardinality(A \cap B)
    BY <2>2, FS_Union
  <2>5. Cardinality(A \cap B) = 0
    BY <2>1, FS_EmptySet
  <2>6. r.line[p] = Cardinality(C)
    BY ONLY <2>1, <2>2, <2>3, <2>4, <2>5
  <2> QED
    BY <2>6 DEF C
<1>7. \A n \in Timers : ~r.t[n].msi => r.t[n].pin \in Pins \cup {0}
  BY <1>4 DEF Lines
<1> QED
  BY <1>5, <1>6, <1>7 DEF Lines, r

\* The remainder is below the divisor, and a quotient is a number.
LEMMA DivMod ==
  ASSUME NEW a \in Int, NEW w \in Nat \ {0}
  PROVE  a % w \in 0 .. w - 1 /\ a \div w \in Int
OBVIOUS

\* What starting some timers does.
LEMMA StartIs ==
  ASSUME HpetConstantsOK, NEW s \in HpetT, NEW N \in SUBSET Timers,
         NEW counter \in 0 .. WC - 1, hnow \in Nat
  PROVE  LET r == vhpet_start_timer(s, N, counter)
         IN /\ r \in HpetT
            /\ r.en = s.en /\ r.hnd = s.hnd /\ r.isr = s.isr /\ r.line = s.line
            /\ \A n \in Timers :
                 /\ r.t[n].level = s.t[n].level /\ r.t[n].msi = s.t[n].msi
                 /\ r.t[n].pin = s.t[n].pin
                 /\ n \notin N => r.t[n] = s.t[n]
                 /\ n \in N => r.t[n].pending /\ r.t[n].active /\ ~r.t[n].owed
<1> DEFINE r == vhpet_start_timer(s, N, counter)
           c(t) == IF t.comprate # 0 THEN vhpet_adjust_compval(t, counter) ELSE t.compval
           Up(n) == [s.t[n] EXCEPT !.compval = c(s.t[n]), !.cbt = hnow + ((c(s.t[n]) - counter) % WC),
                                   !.pending = TRUE, !.active = TRUE, !.owed = FALSE]
           T == [n \in Timers |-> IF n \notin N THEN s.t[n] ELSE Up(n)]
<1>1. r = [s EXCEPT !.t = T]
  BY DEF vhpet_start_timer
<1>2. s.t \in [Timers -> TimerT]
  BY DEF HpetT
<1>3. ASSUME NEW t \in TimerT PROVE c(t) \in 0 .. WC - 1
  <2>1. t.compval \in 0 .. WC - 1 /\ t.comprate \in 0 .. WC - 1 /\ WC \in Nat \ {0}
    BY DEF TimerT, HpetConstantsOK
  <2>2. CASE t.comprate = 0
    BY <2>1, <2>2
  <2>3. CASE t.comprate # 0
    <3>1. (counter - t.compval) % WC \in Int
      BY SMTT(60), <2>1, DivMod
    <3> DEFINE m == (counter - t.compval) % WC
               d == m \div t.comprate
    <3>2. d \in Int
      <4>1. m \in Int /\ t.comprate \in Nat \ {0}
        BY <2>1, <2>3, <3>1
      <4> HIDE DEF m
      <4> QED
        BY ONLY <4>1, DivMod
    <3>3. t.compval + (d + 1) * t.comprate \in Int
      <4> HIDE DEF d
      <4> QED
        BY <2>1, <3>2 DEF d
    <3>4. (t.compval + (d + 1) * t.comprate) % WC \in 0 .. WC - 1
      <4> HIDE DEF d
      <4> QED
        BY <2>1, <3>3, DivMod
    <3> QED
      BY <2>3, <3>4 DEF vhpet_adjust_compval
  <2> QED
    BY <2>2, <2>3
<1>4. ASSUME NEW n \in Timers PROVE hnow + ((c(s.t[n]) - counter) % WC) \in Nat
  <2>1. c(s.t[n]) \in 0 .. WC - 1 /\ WC \in Nat \ {0}
    BY <1>2, <1>3 DEF HpetConstantsOK
  <2> HIDE DEF c
  <2>2. (c(s.t[n]) - counter) % WC \in 0 .. WC - 1
    BY SMTT(60), <2>1, DivMod
  <2> QED
    BY <2>1, <2>2
<1> HIDE DEF c
<1>5. ASSUME NEW n \in Timers
      PROVE  /\ Up(n) \in TimerT
             /\ Up(n).level = s.t[n].level /\ Up(n).msi = s.t[n].msi /\ Up(n).pin = s.t[n].pin
             /\ Up(n).pending = TRUE /\ Up(n).active = TRUE /\ Up(n).owed = FALSE
  BY <1>2, <1>3, <1>4 DEF TimerT
<1> HIDE DEF Up
<1>6. T \in [Timers -> TimerT]
  BY <1>2, <1>5
<1>7. \A n \in Timers : T[n] = IF n \notin N THEN s.t[n] ELSE Up(n)
  OBVIOUS
<1> HIDE DEF T, r
<1>8. /\ r \in HpetT /\ r.en = s.en /\ r.hnd = s.hnd /\ r.isr = s.isr /\ r.line = s.line
      /\ r.t = T
  BY <1>1, <1>6 DEF HpetT
<1>9. \A n \in Timers :
        /\ r.t[n].level = s.t[n].level /\ r.t[n].msi = s.t[n].msi
        /\ r.t[n].pin = s.t[n].pin
        /\ n \notin N => r.t[n] = s.t[n]
        /\ n \in N => r.t[n].pending /\ r.t[n].active /\ ~r.t[n].owed
  BY <1>5, <1>7, <1>8
<1> QED
  BY <1>8, <1>9 DEF r

\* Lines depends on the status bits, the pins and the routing only.
LEMMA SameLines ==
  ASSUME NEW s \in HpetT, NEW r, Lines(s), r.isr = s.isr, r.line = s.line,
         \A n \in Timers : /\ r.t[n].level = s.t[n].level /\ r.t[n].msi = s.t[n].msi
                           /\ r.t[n].pin = s.t[n].pin
  PROVE  Lines(r)
<1>1. s.isr \subseteq Timers
  BY DEF HpetT
<1>2. \A p \in Pins : {n \in r.isr : r.t[n].pin = p} = {n \in s.isr : s.t[n].pin = p}
  BY <1>1
<1> QED
  BY <1>1, <1>2 DEF Lines

-----------------------------------------------------------------------------
(* The steps of the HPET.                                                  *)

\* The timers of s at an instant, with what the callout thread has in hand.
Armed(s, time) ==
  \A n \in Timers :
    /\ s.t[n].pending => s.t[n].active
    /\ s.t[n].active => s.en
    /\ s.t[n].owed => s.t[n].cbt < time
    /\ s.t[n].owed => s.t[n].pending \/ (s.hnd = n /\ s.t[n].active)

HInv(s, time) == s \in HpetT /\ Lines(s) /\ Armed(s, time)

\* HpetInv in terms of these.
LEMMA InvIs == HpetInv <=> hnow \in Nat /\ HInv(h, hnow)
<1>1. HpetTypeOK <=> hnow \in Nat /\ h \in HpetT
  BY DEF HpetTypeOK, HpetT, TimerT
<1>2. ASSUME h \in HpetT
      PROVE  Routed /\ LinesMatchIsr <=> Lines(h)
  <2>1. h.isr \subseteq Timers
    BY <1>2 DEF HpetT
  <2>2. ASSUME \A n \in h.isr : ~h.t[n].msi, NEW p \in Pins
        PROVE  {n \in h.isr : vhpet_timer_ioapic_pin(h.t[n]) = p} = {n \in h.isr : h.t[n].pin = p}
    BY <2>2 DEF vhpet_timer_ioapic_pin
  <2> QED
    BY <2>1, <2>2 DEF Routed, LinesMatchIsr, Lines
<1>3. ASSUME h \in HpetT
      PROVE  ArmedRuns /\ MatchNotMissed <=> Armed(h, hnow)
  <2>1. h.hnd # -1
    BY <1>3 DEF HpetT, Timers
  <2> QED
    BY <2>1 DEF ArmedRuns, MatchNotMissed, Armed
<1> QED
  BY <1>1, <1>2, <1>3 DEF HpetInv, HInv

\* The same of the state after a step.
LEMMA InvIsNext == HpetInv' <=> hnow' \in Nat /\ HInv(h', hnow')
<1>1. HpetTypeOK' <=> hnow' \in Nat /\ h' \in HpetT
  BY DEF HpetTypeOK, HpetT, TimerT
<1>2. ASSUME h' \in HpetT
      PROVE  Routed' /\ LinesMatchIsr' <=> Lines(h')
  <2>1. h'.isr \subseteq Timers
    BY <1>2 DEF HpetT
  <2>2. ASSUME \A n \in h'.isr : ~h'.t[n].msi, NEW p \in Pins
        PROVE  {n \in h'.isr : vhpet_timer_ioapic_pin(h'.t[n]) = p} = {n \in h'.isr : h'.t[n].pin = p}
    BY <2>2 DEF vhpet_timer_ioapic_pin
  <2> QED
    BY <2>1, <2>2 DEF Routed, LinesMatchIsr, Lines
<1>3. ASSUME h' \in HpetT
      PROVE  ArmedRuns' /\ MatchNotMissed' <=> Armed(h', hnow')
  <2>1. h'.hnd # -1
    BY <1>3 DEF HpetT, Timers
  <2> QED
    BY <2>1 DEF ArmedRuns, MatchNotMissed, Armed
<1> QED
  BY <1>1, <1>2, <1>3 DEF HpetInv, HInv

\* vhpet_init.
LEMMA InitHpet == HpetConstantsOK /\ HpetInit => HpetInv
<1> SUFFICES ASSUME HpetConstantsOK, HpetInit PROVE hnow \in Nat /\ HInv(h, hnow)
  BY InvIs
<1>1. timer0 \in TimerT
  BY DEF timer0, TimerT, HpetConstantsOK
<1>2. h \in HpetT
  <2>1. [n \in Timers |-> timer0] \in [Timers -> TimerT] /\ [p \in Pins |-> 0] \in [Pins -> Int]
    BY <1>1
  <2>2. 0 \in 0 .. WC - 1
    BY DEF HpetConstantsOK
  <2> HIDE DEF timer0
  <2> QED
    BY <2>1, <2>2 DEF HpetInit, HpetT
<1>3. /\ h.isr = {} /\ \A p \in Pins : h.line[p] = 0
      /\ \A n \in Timers : h.t[n] = timer0
  BY DEF HpetInit
<1>4. Lines(h)
  <2>1. \A p \in Pins : {n \in h.isr : h.t[n].pin = p} = {}
    BY <1>3
  <2>2. Cardinality({}) = 0
    BY FS_EmptySet
  <2>3. \A p \in Pins : h.line[p] = Cardinality({n \in h.isr : h.t[n].pin = p})
    BY <1>3, <2>1, <2>2
  <2>4. \A n \in Timers : h.t[n].pin = 0
    BY <1>3 DEF timer0
  <2> QED
    BY <1>3, <2>3, <2>4 DEF Lines
<1>5. Armed(h, hnow)
  BY <1>3 DEF Armed, timer0
<1> QED
  BY <1>2, <1>4, <1>5 DEF HpetInit, HInv

\* The counter has its width.
LEMMA CounterIn ==
  ASSUME HpetConstantsOK, h \in HpetT, hnow \in Nat
  PROVE  vhpet_counter(h) \in 0 .. WC - 1
<1>1. h.countbase \in 0 .. WC - 1 /\ h.base \in Nat /\ WC \in Nat \ {0}
  BY DEF HpetT, HpetConstantsOK
<1>2. h.countbase + hnow - h.base \in Int
  BY <1>1
<1>3. (h.countbase + hnow - h.base) % WC \in 0 .. WC - 1
  BY <1>1, <1>2, DivMod
<1> QED
  BY <1>1, <1>3 DEF vhpet_counter

\* Starting timers of a running HPET.
LEMMA StartInv ==
  ASSUME HpetConstantsOK, hnow \in Nat, NEW s \in HpetT, NEW N \in SUBSET Timers,
         NEW counter \in 0 .. WC - 1, s.en, Lines(s),
         \A n \in Timers \ N :
           /\ s.t[n].pending => s.t[n].active
           /\ s.t[n].owed => s.t[n].cbt < hnow
           /\ s.t[n].owed => s.t[n].pending \/ (s.hnd = n /\ s.t[n].active)
  PROVE  HInv(vhpet_start_timer(s, N, counter), hnow)
<1> DEFINE r == vhpet_start_timer(s, N, counter)
<1>1. /\ r \in HpetT
      /\ r.en = s.en /\ r.hnd = s.hnd /\ r.isr = s.isr /\ r.line = s.line
      /\ \A n \in Timers :
           /\ r.t[n].level = s.t[n].level /\ r.t[n].msi = s.t[n].msi
           /\ r.t[n].pin = s.t[n].pin
           /\ n \notin N => r.t[n] = s.t[n]
           /\ n \in N => r.t[n].pending /\ r.t[n].active /\ ~r.t[n].owed
  BY StartIs
<1> HIDE DEF r
<1>2. Lines(r)
  BY <1>1, SameLines
<1>3. Armed(r, hnow)
  BY <1>1 DEF Armed
<1> QED
  BY <1>1, <1>2, <1>3 DEF HInv, r

\* Stopping all of them: what was due has interrupted.
LEMMA StopInv ==
  ASSUME HpetConstantsOK, hnow \in Nat, NEW s \in HpetT, Lines(s),
         \A n \in Timers : s.t[n].owed => s.t[n].cbt < hnow
  PROVE  HInv(vhpet_stop_timer(s), hnow)
<1> DEFINE T == [n \in Timers |-> [s.t[n] EXCEPT !.pending = FALSE, !.active = FALSE]]
           u == Stopped(s)
           N == {n \in Timers : s.t[n].cbt < hnow}
           r == vhpet_timer_interrupt(u, N)
<1>1. s.t \in [Timers -> TimerT]
  BY DEF HpetT
<1>2. ASSUME NEW n \in Timers
      PROVE  /\ T[n] \in TimerT
             /\ T[n].level = s.t[n].level /\ T[n].msi = s.t[n].msi /\ T[n].pin = s.t[n].pin
             /\ T[n].owed = s.t[n].owed /\ T[n].pending = FALSE /\ T[n].active = FALSE
  BY <1>1 DEF TimerT
<1>3. u = [s EXCEPT !.t = T]
  BY DEF Stopped
<1>4. T \in [Timers -> TimerT]
  BY <1>2
<1> HIDE DEF T, u
<1>5. u \in HpetT /\ u.isr = s.isr /\ u.line = s.line /\ u.t = T
  BY <1>3, <1>4 DEF HpetT
<1>6. Lines(u)
  BY <1>2, <1>5, SameLines
<1>7. Lines(r)
  BY <1>5, <1>6, InterruptLines
<1>8. r \in HpetT /\ \A n \in Timers : r.t[n] = [u.t[n] EXCEPT !.owed = u.t[n].owed /\ n \notin N]
  BY <1>5, InterruptIs
<1>9. ASSUME NEW n \in Timers
      PROVE  ~r.t[n].owed /\ ~r.t[n].pending /\ ~r.t[n].active
  <2> DEFINE b == u.t[n].owed /\ n \notin N
  <2>1. ~b
    BY <1>2, <1>5
  <2>2. r.t[n] = [u.t[n] EXCEPT !.owed = b] /\ u.t[n] \in TimerT
    BY <1>4, <1>5, <1>8
  <2> HIDE DEF b
  <2>3. r.t[n].owed = b /\ r.t[n].pending = u.t[n].pending /\ r.t[n].active = u.t[n].active
    BY <2>2 DEF TimerT
  <2> QED
    BY <1>2, <1>5, <2>1, <2>3
<1>10. Armed(r, hnow)
  BY <1>9 DEF Armed
<1> QED
  BY <1>7, <1>8, <1>10 DEF HInv, vhpet_stop_timer, u

\* The configuration register and the counter.
LEMMA WriteConfigInv ==
  ASSUME HpetConstantsOK, hnow \in Nat, HInv(h, hnow), NEW en \in BOOLEAN, WriteConfig(en)
  PROVE  HInv(h', hnow)
<1>1. h \in HpetT /\ Lines(h) /\ Armed(h, hnow)
  BY DEF HInv
<1>2. CASE en = h.en
  BY <1>2 DEF WriteConfig
<1>3. CASE en # h.en /\ en
  <2> DEFINE s == [h EXCEPT !.en = TRUE, !.base = hnow]
  <2>1. h' = vhpet_start_timer(s, Timers, h.countbase)
    <3>1. h' = vhpet_start_counting([h EXCEPT !.en = TRUE])
      BY <1>3 DEF WriteConfig
    <3>2. [h EXCEPT !.en = TRUE].countbase = h.countbase
      BY <1>1 DEF HpetT
    <3> QED
      BY <3>1, <3>2 DEF vhpet_start_counting
  <2>2. /\ s \in HpetT /\ s.en = TRUE /\ s.isr = h.isr /\ s.line = h.line /\ s.t = h.t
        /\ h.countbase \in 0 .. WC - 1
    BY <1>1 DEF HpetT
  <2> HIDE DEF s
  <2>3. Lines(s)
    BY <1>1, <2>2, SameLines
  <2> QED
    BY <2>1, <2>2, <2>3, StartInv
<1>4. CASE en # h.en /\ ~en
  <2> DEFINE s == [h EXCEPT !.en = FALSE, !.countbase = vhpet_counter(h)]
  <2>1. h' = vhpet_stop_timer(s)
    BY <1>4 DEF WriteConfig, vhpet_stop_counting
  <2>2. vhpet_counter(h) \in 0 .. WC - 1
    BY <1>1, CounterIn
  <2>3. s \in HpetT /\ s.isr = h.isr /\ s.line = h.line /\ s.t = h.t
    BY <1>1, <2>2 DEF HpetT
  <2> HIDE DEF s
  <2>4. Lines(s)
    BY <1>1, <2>3, SameLines
  <2> QED
    BY <1>1, <2>1, <2>3, <2>4, StopInv DEF Armed
<1> QED
  BY <1>2, <1>3, <1>4

\* A write of the counter.
LEMMA WriteCounterInv ==
  ASSUME HpetConstantsOK, hnow \in Nat, HInv(h, hnow), NEW v \in Values, WriteCounter(v)
  PROVE  HInv(h', hnow)
<1>1. h \in HpetT /\ Lines(h) /\ Armed(h, hnow) /\ v \in 0 .. WC - 1
  BY DEF HInv, HpetConstantsOK
<1>2. CASE h.en
  <2> DEFINE s == [h EXCEPT !.countbase = v, !.base = hnow]
  <2>1. h' = vhpet_start_timer(s, Timers, v)
    <3>1. [h EXCEPT !.countbase = v].en = h.en /\ [h EXCEPT !.countbase = v].countbase = v
      BY <1>1 DEF HpetT
    <3> QED
      BY <1>2, <3>1 DEF WriteCounter, vhpet_start_counting
  <2>2. s \in HpetT /\ s.en = h.en /\ s.isr = h.isr /\ s.line = h.line /\ s.t = h.t
    BY <1>1 DEF HpetT
  <2> HIDE DEF s
  <2>3. Lines(s)
    BY <1>1, <2>2, SameLines
  <2> QED
    BY <1>1, <1>2, <2>1, <2>2, <2>3, StartInv
<1>3. CASE ~h.en
  <2>1. h' = [h EXCEPT !.countbase = v]
    <3>1. [h EXCEPT !.countbase = v].en = h.en
      BY <1>1 DEF HpetT
    <3> QED
      BY <1>3, <3>1 DEF WriteCounter
  <2>2. /\ h' \in HpetT /\ h'.en = h.en /\ h'.isr = h.isr /\ h'.line = h.line /\ h'.t = h.t
        /\ h'.hnd = h.hnd
    BY <1>1, <2>1 DEF HpetT
  <2>3. Lines(h')
    BY <1>1, <2>2, SameLines
  <2> QED
    BY <1>1, <2>2, <2>3 DEF HInv, Armed
<1> QED
  BY <1>2, <1>3

\* Clearing the status bit of n, whatever else happens to its configuration:
\* the pin it was routed to counts one less.
LEMMA ClearLines ==
  ASSUME HpetConstantsOK, NEW s \in HpetT, Lines(s), NEW n \in s.isr, NEW r \in HpetT,
         r.isr = s.isr \ {n},
         r.line = [s.line EXCEPT ![s.t[n].pin] = s.line[s.t[n].pin] - 1],
         \A k \in Timers : k # n => r.t[k] = s.t[k],
         ~r.t[n].msi => r.t[n].pin \in Pins \cup {0}
  PROVE  Lines(r)
<1>1. s.isr \subseteq Timers /\ n \in Timers /\ s.line \in [Pins -> Int] /\ s.t[n].pin \in Pins
  BY DEF HpetT, Lines
<1>2. ASSUME NEW p \in Pins
      PROVE  r.line[p] = Cardinality({k \in r.isr : r.t[k].pin = p})
  <2> DEFINE A == {k \in s.isr : s.t[k].pin = p}
             C == {k \in r.isr : r.t[k].pin = p}
  <2>1. IsFiniteSet(A) /\ Cardinality(A) \in Nat
    BY <1>1, TimersFinite
  <2>2. s.line[p] = Cardinality(A)
    BY DEF Lines
  <2>3. C = A \ {n} /\ (n \in A <=> p = s.t[n].pin)
    BY <1>1
  <2>4. r.line[p] = IF p = s.t[n].pin THEN s.line[p] - 1 ELSE s.line[p]
    BY <1>1
  <2> HIDE DEF A, C
  <2>5. Cardinality(A \ {n}) = IF n \in A THEN Cardinality(A) - 1 ELSE Cardinality(A)
    BY <2>1, FS_RemoveElement
  <2>6. r.line[p] = Cardinality(C)
    BY ONLY <2>1, <2>2, <2>3, <2>4, <2>5
  <2> QED
    BY <2>6 DEF C
<1>3. \A k \in r.isr : k # n /\ k \in s.isr /\ r.t[k] = s.t[k]
  BY <1>1
<1>4. \A k \in r.isr : r.t[k].level /\ ~r.t[k].msi /\ r.t[k].pin \in Pins
  BY <1>3 DEF Lines
<1>5. \A k \in Timers : ~r.t[k].msi => r.t[k].pin \in Pins \cup {0}
  BY DEF Lines
<1> QED
  BY <1>2, <1>4, <1>5 DEF Lines

\* The interrupt status register.
LEMMA WriteIsrInv ==
  ASSUME HpetConstantsOK, hnow \in Nat, HInv(h, hnow), NEW n \in Timers, WriteIsr(n)
  PROVE  HInv(h', hnow)
<1>1. h \in HpetT /\ Lines(h) /\ Armed(h, hnow)
  BY DEF HInv
<1>2. CASE n \notin h.isr
  BY <1>2 DEF WriteIsr, vhpet_timer_clear_isr
<1>3. CASE n \in h.isr
  <2> DEFINE L == [h.line EXCEPT ![h.t[n].pin] = h.line[h.t[n].pin] - 1]
  <2>1. h' = [h EXCEPT !.isr = h.isr \ {n}, !.line = L]
    <3>1. vhpet_timer_ioapic_pin(h.t[n]) = h.t[n].pin
      BY <1>1, <1>3 DEF Lines, vhpet_timer_ioapic_pin
    <3> QED
      BY <1>3, <3>1 DEF WriteIsr, vhpet_timer_clear_isr
  <2>2. L \in [Pins -> Int]
    BY <1>1, <1>3 DEF HpetT, Lines
  <2>3. h.isr \ {n} \in SUBSET Timers
    BY <1>1 DEF HpetT
  <2> HIDE DEF L
  <2>4. /\ h' \in HpetT /\ h'.isr = h.isr \ {n} /\ h'.line = L /\ h'.t = h.t
        /\ h'.en = h.en /\ h'.hnd = h.hnd
    BY <1>1, <2>1, <2>2, <2>3 DEF HpetT
  <2>5. Lines(h')
    <3>1. ~h'.t[n].msi => h'.t[n].pin \in Pins \cup {0}
      BY <1>1, <2>4 DEF Lines
    <3>2. h'.line = [h.line EXCEPT ![h.t[n].pin] = h.line[h.t[n].pin] - 1]
      BY <2>4 DEF L
    <3> QED
      BY <1>1, <1>3, <2>4, <3>1, <3>2, ClearLines
  <2> QED
    BY <1>1, <2>4, <2>5 DEF HInv, Armed
<1> QED
  BY <1>2, <1>3

\* vhpet_timer_update_config: when the status bit is set and the interrupt is
\* no longer enabled, level triggered or at the same pin, it is cleared.
LEMMA UpdateConfigInv ==
  ASSUME HpetConstantsOK, hnow \in Nat, HInv(h, hnow), NEW n \in Timers, NEW c \in Configs,
         vhpet_timer_update_config(n, c)
  PROVE  HInv(h', hnow)
<1>1. h \in HpetT /\ Lines(h) /\ Armed(h, hnow) /\ h.t[n] \in TimerT
  BY DEF HInv, HpetT
<1> DEFINE o == h.t[n]
           pin == IF c.msi \/ c.pin \in Pins THEN c.pin ELSE 0
           rate == IF c.periodic THEN o.comprate ELSE 0
           t == [o EXCEPT !.enb = c.enb, !.level = c.level, !.msi = c.msi, !.periodic = c.periodic,
                          !.valset = c.valset, !.pin = pin, !.comprate = rate]
           old_pin == vhpet_timer_ioapic_pin(o)
           clear_isr == n \in h.isr /\ (~t.enb \/ t.msi \/ vhpet_timer_edge_trig(t)
                                           \/ vhpet_timer_ioapic_pin(t) # old_pin)
           s == [h EXCEPT !.t[n] = t]
<1>2. h' = IF clear_isr THEN [s EXCEPT !.isr = s.isr \ {n}, !.line[old_pin] = s.line[old_pin] - 1] ELSE s
  BY DEF vhpet_timer_update_config
<1>3. /\ c.enb \in BOOLEAN /\ c.level \in BOOLEAN /\ c.msi \in BOOLEAN /\ c.pin \in Nat
      /\ c.periodic \in BOOLEAN /\ c.valset \in BOOLEAN
  BY DEF HpetConstantsOK
<1>4. pin \in Nat /\ (~c.msi => pin \in Pins \cup {0})
  BY <1>3
<1>5. rate \in 0 .. WC - 1
  BY <1>1 DEF TimerT, HpetConstantsOK
<1> HIDE DEF pin, rate
<1>6. /\ t \in TimerT /\ t.level = c.level /\ t.msi = c.msi /\ t.pin = pin /\ t.enb = c.enb
      /\ t.pending = o.pending /\ t.active = o.active /\ t.owed = o.owed /\ t.cbt = o.cbt
  BY <1>1, <1>3, <1>4, <1>5 DEF TimerT
<1>7. /\ s \in HpetT /\ s.isr = h.isr /\ s.line = h.line /\ s.en = h.en /\ s.hnd = h.hnd
      /\ s.t[n] = t /\ \A k \in Timers : k # n => s.t[k] = h.t[k]
  <2> HIDE DEF t
  <2> QED
    BY <1>1, <1>6 DEF HpetT
<1>8. CASE clear_isr
  <2> DEFINE L == [h.line EXCEPT ![o.pin] = h.line[o.pin] - 1]
  <2>1. n \in h.isr /\ old_pin = o.pin /\ o.pin \in Pins
    BY <1>1, <1>8 DEF Lines, vhpet_timer_ioapic_pin
  <2> HIDE DEF s, t, old_pin, o
  <2>2. h' = [s EXCEPT !.isr = s.isr \ {n}, !.line[o.pin] = s.line[o.pin] - 1]
    BY <1>2, <1>8, <2>1
  <2>3. h' = [s EXCEPT !.isr = h.isr \ {n}, !.line = L]
    BY <1>7, <2>2
  <2>4. L \in [Pins -> Int] /\ h.isr \ {n} \in SUBSET Timers
    BY <1>1, <2>1 DEF HpetT
  <2> HIDE DEF L
  <2>5. /\ h' \in HpetT /\ h'.isr = h.isr \ {n} /\ h'.line = L /\ h'.t = s.t
        /\ h'.en = s.en /\ h'.hnd = s.hnd
    BY <1>7, <2>3, <2>4 DEF HpetT
  <2>6. Lines(h')
    <3>1. ~h'.t[n].msi => h'.t[n].pin \in Pins \cup {0}
      BY <1>4, <1>6, <1>7, <2>5
    <3>2. h'.line = [h.line EXCEPT ![h.t[n].pin] = h.line[h.t[n].pin] - 1]
      BY <2>5 DEF L, o
    <3> QED
      BY <1>1, <1>7, <2>1, <2>5, <3>1, <3>2, ClearLines
  <2>7. Armed(h', hnow)
    BY <1>1, <1>6, <1>7, <2>5 DEF Armed, o
  <2> QED
    BY <2>5, <2>6, <2>7 DEF HInv
<1>9. CASE ~clear_isr
  <2>1. h' = s
    BY <1>2, <1>9
  <2>2. n \in h.isr => t.level /\ ~t.msi /\ t.pin = o.pin
    BY <1>1, <1>9 DEF vhpet_timer_edge_trig, vhpet_timer_ioapic_pin, Lines
  <2> HIDE DEF s, t, o
  <2>3. \A k \in h.isr : h'.t[k].level /\ ~h'.t[k].msi /\ h'.t[k].pin = h.t[k].pin
    BY <1>1, <1>7, <2>1, <2>2 DEF o, Lines, HpetT
  <2>4. \A p \in Pins : {k \in h'.isr : h'.t[k].pin = p} = {k \in h.isr : h.t[k].pin = p}
    BY <1>7, <2>1, <2>3
  <2>5. \A k \in Timers : ~h'.t[k].msi => h'.t[k].pin \in Pins \cup {0}
    BY <1>1, <1>4, <1>6, <1>7, <2>1 DEF Lines
  <2>6. Lines(h')
    BY <1>1, <1>7, <2>1, <2>3, <2>4, <2>5 DEF Lines
  <2>7. Armed(h', hnow)
    BY <1>1, <1>6, <1>7, <2>1 DEF Armed, o
  <2> QED
    BY <1>7, <2>1, <2>6, <2>7 DEF HInv
<1> QED
  BY <1>8, <1>9

\* A comparator.
LEMMA WriteComparatorInv ==
  ASSUME HpetConstantsOK, hnow \in Nat, HInv(h, hnow), NEW n \in Timers, NEW v \in Values,
         WriteComparator(n, v)
  PROVE  HInv(h', hnow)
<1>1. h \in HpetT /\ Lines(h) /\ Armed(h, hnow) /\ h.t[n] \in TimerT /\ v \in 0 .. WC - 1
  BY DEF HInv, HpetT, HpetConstantsOK
<1> DEFINE o == h.t[n]
           rate == IF o.periodic THEN v ELSE o.comprate
           val == IF o.periodic /\ ~o.valset THEN o.compval ELSE v
           t == [o EXCEPT !.comprate = rate, !.compval = val, !.valset = FALSE]
           s == [h EXCEPT !.t[n] = t]
           changed == t.compval # o.compval \/ t.comprate # o.comprate
<1>2. h' = IF changed /\ h.en THEN vhpet_start_timer(s, {n}, vhpet_counter(h)) ELSE s
  BY DEF WriteComparator
<1>3. rate \in 0 .. WC - 1 /\ val \in 0 .. WC - 1
  BY <1>1 DEF TimerT
<1> HIDE DEF rate, val
<1>4. /\ t \in TimerT /\ t.level = o.level /\ t.msi = o.msi /\ t.pin = o.pin
      /\ t.pending = o.pending /\ t.active = o.active /\ t.owed = o.owed /\ t.cbt = o.cbt
  BY <1>1, <1>3 DEF TimerT
<1> HIDE DEF t, changed
<1>5. /\ s \in HpetT /\ s.isr = h.isr /\ s.line = h.line /\ s.en = h.en /\ s.hnd = h.hnd
      /\ s.t[n] = t /\ \A k \in Timers : k # n => s.t[k] = h.t[k]
  BY <1>1, <1>4 DEF HpetT
<1> HIDE DEF s, o
<1>6. Lines(s)
  <2>1. \A k \in Timers : /\ s.t[k].level = h.t[k].level /\ s.t[k].msi = h.t[k].msi
                          /\ s.t[k].pin = h.t[k].pin
    BY <1>4, <1>5 DEF o
  <2> QED
    BY <1>1, <1>5, <2>1, SameLines
<1>7. Armed(s, hnow)
  BY <1>1, <1>4, <1>5 DEF Armed, o
<1>8. CASE changed /\ h.en
  <2>1. vhpet_counter(h) \in 0 .. WC - 1
    BY <1>1, CounterIn
  <2> QED
    BY <1>2, <1>5, <1>6, <1>7, <1>8, <2>1, StartInv DEF Armed
<1>9. CASE ~(changed /\ h.en)
  BY <1>2, <1>5, <1>6, <1>7, <1>9 DEF HInv
<1> QED
  BY <1>8, <1>9

\* Time passes: only a pending callout can come to owe an interrupt.
LEMMA TickInv ==
  ASSUME hnow \in Nat, HInv(h, hnow), HpetTick
  PROVE  hnow' \in Nat /\ HInv(h', hnow')
<1>1. h \in HpetT /\ Lines(h) /\ Armed(h, hnow) /\ h.t \in [Timers -> TimerT]
  BY DEF HInv, HpetT
<1>2. hnow' = hnow + 1
  BY DEF HpetTick
<1> DEFINE b(n) == h.t[n].owed \/ (h.t[n].pending /\ h.t[n].cbt <= hnow)
           T == [n \in Timers |-> [h.t[n] EXCEPT !.owed = b(n)]]
<1>3. h' = [h EXCEPT !.t = T]
  BY DEF HpetTick
<1>4. \A n \in Timers : b(n) \in BOOLEAN
  OBVIOUS
<1>5. \A n \in Timers : b(n) => /\ h.t[n].owed \/ h.t[n].pending
                                /\ h.t[n].cbt < hnow + 1
  BY <1>1 DEF Armed, TimerT
<1> HIDE DEF b
<1>6. \A n \in Timers : T[n] = [h.t[n] EXCEPT !.owed = b(n)]
  OBVIOUS
<1>7. ASSUME NEW n \in Timers
      PROVE  /\ T[n] \in TimerT
             /\ T[n].level = h.t[n].level /\ T[n].msi = h.t[n].msi /\ T[n].pin = h.t[n].pin
             /\ T[n].pending = h.t[n].pending /\ T[n].active = h.t[n].active
             /\ T[n].cbt = h.t[n].cbt /\ T[n].owed = b(n)
  BY <1>1, <1>4 DEF TimerT
<1>8. T \in [Timers -> TimerT]
  BY <1>7
<1> HIDE DEF T
<1>9. /\ h' \in HpetT /\ h'.t = T /\ h'.isr = h.isr /\ h'.line = h.line /\ h'.en = h.en
      /\ h'.hnd = h.hnd
  BY <1>1, <1>3, <1>8 DEF HpetT
<1>10. Lines(h')
  BY <1>1, <1>7, <1>9, SameLines
<1>11. Armed(h', hnow')
  BY <1>1, <1>2, <1>5, <1>7, <1>9 DEF Armed
<1> QED
  BY <1>2, <1>9, <1>10, <1>11 DEF HInv

\* The callout thread takes an expired callout.
LEMMA DispatchInv ==
  ASSUME hnow \in Nat, HInv(h, hnow), NEW n \in Timers, HpetDispatch(n)
  PROVE  HInv(h', hnow)
<1>1. h \in HpetT /\ Lines(h) /\ Armed(h, hnow) /\ h.t[n] \in TimerT
  BY DEF HInv, HpetT
<1> DEFINE t == [h.t[n] EXCEPT !.pending = FALSE]
<1>2. h' = [h EXCEPT !.hnd = n, !.t[n] = t] /\ h.hnd = 0 /\ h.t[n].pending /\ 0 \notin Timers
  BY DEF HpetDispatch, Timers
<1>3. /\ t \in TimerT /\ t.level = h.t[n].level /\ t.msi = h.t[n].msi /\ t.pin = h.t[n].pin
      /\ t.pending = FALSE /\ t.active = h.t[n].active /\ t.owed = h.t[n].owed
      /\ t.cbt = h.t[n].cbt
  BY <1>1 DEF TimerT
<1> HIDE DEF t
<1>4. /\ h' \in HpetT /\ h'.isr = h.isr /\ h'.line = h.line /\ h'.en = h.en
      /\ h'.hnd = n /\ h'.t[n] = t /\ \A k \in Timers : k # n => h'.t[k] = h.t[k]
  BY <1>1, <1>2, <1>3 DEF HpetT
<1>5. Lines(h')
  <2>1. \A k \in Timers : /\ h'.t[k].level = h.t[k].level /\ h'.t[k].msi = h.t[k].msi
                          /\ h'.t[k].pin = h.t[k].pin
    BY <1>3, <1>4
  <2> QED
    BY <1>1, <1>4, <2>1, SameLines
<1>6. Armed(h', hnow)
  BY <1>1, <1>2, <1>3, <1>4 DEF Armed
<1> QED
  BY <1>4, <1>5, <1>6 DEF HInv

\* The handler: an expired callout that was neither stopped nor armed again
\* belongs to a running counter; it is armed again and interrupts.
LEMMA HandlerInv ==
  ASSUME HpetConstantsOK, hnow \in Nat, HInv(h, hnow), vhpet_handler
  PROVE  HInv(h', hnow)
<1>1. h \in HpetT /\ Lines(h) /\ Armed(h, hnow)
  BY DEF HInv
<1> DEFINE n == h.hnd
<1>2. n \in Timers /\ h.t[n] \in TimerT
  BY <1>1 DEF vhpet_handler, HpetT
<1>3. CASE h.t[n].pending \/ ~h.t[n].active
  <2>1. h' = [h EXCEPT !.hnd = 0]
    BY <1>3 DEF vhpet_handler, callout_active
  <2>2. /\ h' \in HpetT /\ h'.isr = h.isr /\ h'.line = h.line /\ h'.en = h.en
        /\ h'.hnd = 0 /\ h'.t = h.t
    BY <1>1, <2>1 DEF HpetT
  <2>3. Lines(h')
    BY <1>1, <2>2, SameLines
  <2>4. Armed(h', hnow)
    BY <1>1, <1>3, <2>2 DEF Armed
  <2> QED
    BY <2>2, <2>3, <2>4 DEF HInv
<1>4. CASE ~(h.t[n].pending \/ ~h.t[n].active)
  <2> DEFINE t == [h.t[n] EXCEPT !.active = FALSE]
             s == [h EXCEPT !.hnd = 0, !.t[n] = t]
             u == vhpet_start_timer(s, {n}, vhpet_counter(h))
  <2>1. h.en
    BY <1>1, <1>2, <1>4 DEF Armed
  <2>2. h' = vhpet_timer_interrupt(u, {n})
    BY <1>4, <2>1 DEF vhpet_handler, callout_active
  <2>3. /\ t \in TimerT /\ t.level = h.t[n].level /\ t.msi = h.t[n].msi /\ t.pin = h.t[n].pin
    BY <1>2 DEF TimerT
  <2> HIDE DEF t
  <2>4. /\ s \in HpetT /\ s.isr = h.isr /\ s.line = h.line /\ s.en = h.en
        /\ s.hnd = 0 /\ s.t[n] = t /\ \A k \in Timers : k # n => s.t[k] = h.t[k]
    BY <1>1, <1>2, <2>3 DEF HpetT
  <2>5. Lines(s)
    <3>1. \A k \in Timers : /\ s.t[k].level = h.t[k].level /\ s.t[k].msi = h.t[k].msi
                            /\ s.t[k].pin = h.t[k].pin
      BY <2>3, <2>4
    <3> QED
      BY <1>1, <2>4, <3>1, SameLines
  <2>6. vhpet_counter(h) \in 0 .. WC - 1 /\ {n} \in SUBSET Timers
    BY <1>1, <1>2, CounterIn
  <2> HIDE DEF s, n
  <2>7. HInv(u, hnow)
    <3>1. \A k \in Timers \ {n} :
            /\ s.t[k].pending => s.t[k].active
            /\ s.t[k].owed => s.t[k].cbt < hnow
            /\ s.t[k].owed => s.t[k].pending \/ (s.hnd = k /\ s.t[k].active)
      BY <1>1, <2>4 DEF Armed, n
    <3> QED
      BY <2>1, <2>4, <2>5, <2>6, <3>1, StartInv
  <2> HIDE DEF u
  <2>8. u \in HpetT /\ Lines(u) /\ Armed(u, hnow)
    BY <2>7 DEF HInv
  <2>9. Lines(h')
    BY <2>2, <2>6, <2>8, InterruptLines
  <2>10. /\ h' \in HpetT /\ h'.en = u.en /\ h'.hnd = u.hnd
         /\ \A k \in Timers : h'.t[k] = [u.t[k] EXCEPT !.owed = u.t[k].owed /\ k \notin {n}]
    BY <2>2, <2>6, <2>8, InterruptIs
  <2>11. ASSUME NEW k \in Timers
         PROVE  /\ h'.t[k].pending = u.t[k].pending /\ h'.t[k].active = u.t[k].active
                /\ h'.t[k].cbt = u.t[k].cbt /\ (h'.t[k].owed => u.t[k].owed)
    <3> DEFINE b == u.t[k].owed /\ k \notin {n}
    <3>1. h'.t[k] = [u.t[k] EXCEPT !.owed = b] /\ u.t[k] \in TimerT /\ (b => u.t[k].owed)
      BY <2>8, <2>10 DEF HpetT
    <3> HIDE DEF b
    <3>2. /\ h'.t[k].pending = u.t[k].pending /\ h'.t[k].active = u.t[k].active
          /\ h'.t[k].cbt = u.t[k].cbt /\ h'.t[k].owed = b
      BY <3>1 DEF TimerT
    <3> QED
      BY <3>1, <3>2
  <2>12. Armed(h', hnow)
    BY <2>8, <2>10, <2>11 DEF Armed
  <2> QED
    BY <2>9, <2>10, <2>12 DEF HInv
<1> QED
  BY <1>3, <1>4

\* Every step keeps the invariant.
LEMMA NextHpet == HpetConstantsOK /\ HpetInv /\ [HpetNext]_hpetvars => HpetInv'
<1> SUFFICES ASSUME HpetConstantsOK, HpetInv, [HpetNext]_hpetvars PROVE hnow' \in Nat /\ HInv(h', hnow')
  BY InvIsNext
<1>1. hnow \in Nat /\ HInv(h, hnow)
  BY InvIs
<1>2. CASE HpetTick
  BY <1>1, <1>2, TickInv
<1>3. CASE vhpet_handler
  BY <1>1, <1>3, HandlerInv DEF vhpet_handler
<1>4. ASSUME NEW en \in BOOLEAN, WriteConfig(en) PROVE hnow' \in Nat /\ HInv(h', hnow')
  BY <1>1, <1>4, WriteConfigInv DEF WriteConfig
<1>5. ASSUME NEW v \in Values, WriteCounter(v) PROVE hnow' \in Nat /\ HInv(h', hnow')
  BY <1>1, <1>5, WriteCounterInv DEF WriteCounter
<1>6. ASSUME NEW n \in Timers, HpetDispatch(n) PROVE hnow' \in Nat /\ HInv(h', hnow')
  BY <1>1, <1>6, DispatchInv DEF HpetDispatch
<1>7. ASSUME NEW n \in Timers, WriteIsr(n) PROVE hnow' \in Nat /\ HInv(h', hnow')
  BY <1>1, <1>7, WriteIsrInv DEF WriteIsr
<1>8. ASSUME NEW n \in Timers, NEW c \in Configs, vhpet_timer_update_config(n, c)
      PROVE  hnow' \in Nat /\ HInv(h', hnow')
  <2>1. hnow' = hnow
    BY <1>8 DEF vhpet_timer_update_config
  <2> QED
    BY <1>1, <1>8, <2>1, UpdateConfigInv
<1>9. ASSUME NEW n \in Timers, NEW v \in Values, WriteComparator(n, v)
      PROVE  hnow' \in Nat /\ HInv(h', hnow')
  <2>1. hnow' = hnow
    BY <1>9 DEF WriteComparator
  <2> QED
    BY <1>1, <1>9, <2>1, WriteComparatorInv
<1>10. CASE UNCHANGED hpetvars
  BY <1>1, <1>10 DEF hpetvars
<1> QED
  BY <1>2, <1>3, <1>4, <1>5, <1>6, <1>7, <1>8, <1>9, <1>10 DEF HpetNext

-----------------------------------------------------------------------------
\* What the other theorems follow from.
LEMMA HpetInvariance == HpetConstantsOK => (HpetSpec => []HpetInv)
<1> SUFFICES ASSUME HpetConstantsOK PROVE HpetSpec => []HpetInv
  OBVIOUS
<1>1. HpetInit => HpetInv
  BY InitHpet
<1>2. HpetInv /\ [HpetNext]_hpetvars => HpetInv'
  BY NextHpet
<1> QED
  BY <1>1, <1>2, PTL DEF HpetSpec

\* Counter, comparator and rate keep the width of the counter, and the handler
\* that runs is a timer's, whatever the guest writes.
THEOREM TypeCorrect == HpetConstantsOK => (HpetSpec => []HpetTypeOK)
<1> SUFFICES ASSUME HpetConstantsOK PROVE HpetSpec => []HpetTypeOK
  OBVIOUS
<1>1. HpetSpec => []HpetInv
  BY HpetInvariance
<1>2. HpetInv => HpetTypeOK
  BY DEF HpetInv
<1> QED
  BY <1>1, <1>2, PTL

\* However timers are rerouted, stopped and acknowledged, each pin of the I/O
\* APIC counts the timers that are routed to it with their status bit set: none
\* remains asserted forever, none is deasserted twice, and the assertion of
\* vhpet_timer_update_config on the status bit holds.
THEOREM PinsMatchStatus == HpetConstantsOK => (HpetSpec => []LinesMatchIsr)
<1> SUFFICES ASSUME HpetConstantsOK PROVE HpetSpec => []LinesMatchIsr
  OBVIOUS
<1>1. HpetSpec => []HpetInv
  BY HpetInvariance
<1>2. HpetInv => LinesMatchIsr
  BY DEF HpetInv
<1> QED
  BY <1>1, <1>2, PTL

\* A comparator that has matched interrupts, however late the callout thread is
\* and whatever the guest writes in between; and the assertion of vhpet_handler
\* holds: a callout that was on its way when the guest stopped the counter is
\* turned away.
THEOREM MatchesAreNotMissed == HpetConstantsOK => (HpetSpec => []MatchNotMissed)
<1> SUFFICES ASSUME HpetConstantsOK PROVE HpetSpec => []MatchNotMissed
  OBVIOUS
<1>1. HpetSpec => []HpetInv
  BY HpetInvariance
<1>2. HpetInv => MatchNotMissed
  BY DEF HpetInv
<1> QED
  BY <1>1, <1>2, PTL

-----------------------------------------------------------------------------
(* The HPET: periods.                                                      *)

\* A number is its quotient and its remainder.
LEMMA DivIs ==
  ASSUME NEW a \in Int, NEW w \in Int, w > 0
  PROVE  a = w * (a \div w) + (a % w)
OBVIOUS
\* The remainder of a number less than three divisors away.
LEMMA ModNear ==
  ASSUME NEW x \in Int, NEW w \in Nat \ {0}, NEW y \in 0 .. w - 1,
         x = y - w \/ x = y \/ x = y + w \/ x = y + w + w
  PROVE  x % w = y
<1> DEFINE q == x \div w
           m == x % w
<1>1. q \in Int /\ m \in 0 .. w - 1 /\ x = w * q + m
  BY DivMod, DivIs
<1> HIDE DEF q, m
<1>2. ASSUME NEW j \in Int, x = y + w * j PROVE m = y
  <2>1. w * (q - j) = y - m
    BY <1>1, <1>2
  <2> DEFINE e == q - j
  <2>2. e \in Int /\ w * e = y - m
    BY <1>1, <2>1
  <2> HIDE DEF e
  <2>3. e >= 1 => w * e >= w
    BY <2>2
  <2>4. e <= -1 => w * e <= -w
    BY <2>2
  <2>5. e = 0 
    BY <1>1, <2>2, <2>3, <2>4
  <2> QED BY <1>1, <2>2, <2>5
<1>3. x = y + w * (-1) \/ x = y + w * 0 \/ x = y + w * 1 \/ x = y + w * 2
  OBVIOUS
<1>4. m = y
  <2>1. -1 \in Int /\ 0 \in Int /\ 1 \in Int /\ 2 \in Int
    OBVIOUS
  <2> QED BY ONLY <1>2, <1>3, <2>1
<1> QED BY <1>4 DEF m

\* Rounding up to the next multiple of the period goes past it by at most a period.
LEMMA DivRound ==
  ASSUME NEW d \in Nat, NEW r \in Nat \ {0}
  PROVE  /\ ((d \div r) + 1) * r \in Int
         /\ d < ((d \div r) + 1) * r /\ ((d \div r) + 1) * r <= d + r
<1> DEFINE q == d \div r
           m == d % r
<1>1. q \in Int /\ m \in 0 .. r - 1 /\ d = r * q + m
  BY DivMod, DivIs
<1> HIDE DEF q, m
<1>2. (q + 1) * r = r * q + r
  BY <1>1
<1>3. r * q \in Int
  BY <1>1
<1> DEFINE z == r * q
<1>4. z \in Int /\ (q + 1) * r = z + r /\ d = z + m
  BY <1>1, <1>2, <1>3
<1> HIDE DEF z
<1>5. (q + 1) * r \in Int /\ d < (q + 1) * r /\ (q + 1) * r <= d + r
  BY <1>1, <1>4
<1> QED BY <1>5 DEF q

\* vhpet_adjust_compval: seen from the counter k, the new comparator is between one
\* tick and one period r away, wherever the old one (v) was.
LEMMA RoundedUp ==
  ASSUME NEW w \in Nat \ {0}, NEW r \in 1 .. w - 1, NEW v \in 0 .. w - 1, NEW k \in 0 .. w - 1
  PROVE  (((v + ((((k - v) % w) \div r) + 1) * r) % w) - k) % w \in 1 .. r
<1> DEFINE d == (k - v) % w
           m == ((d \div r) + 1) * r
           c == (v + m) % w
<1>1. d \in 0 .. w - 1
  BY DivMod
<1>2. d = k - v \/ d = k - v + w
  <2>1. CASE k >= v
    <3>1. k - v \in 0 .. w - 1
      BY <2>1
    <3> QED BY <3>1, ModNear
  <2>2. CASE k < v
    <3>1. k - v + w \in 0 .. w - 1 /\ k - v = (k - v + w) - w
      BY <2>2
    <3> QED BY <3>1, ModNear
  <2> QED BY <2>1, <2>2
<1> HIDE DEF d
<1>3. m \in Int /\ d < m /\ m <= d + r
  <2>1. d \in Nat /\ r \in Nat \ {0}
    BY <1>1
  <2> QED BY <2>1, DivRound
<1> HIDE DEF m
<1>4. c \in 0 .. w - 1
  <2> DEFINE b == v + m
  <2>1. b \in Int
    BY <1>3
  <2> HIDE DEF b
  <2>2. b % w \in 0 .. w - 1
    BY ONLY <2>1, w \in Nat \ {0}, DivMod
  <2> QED BY <2>2 DEF b
<1> DEFINE a == v + m
<1>5. a \in Int /\ a >= 0 /\ a < w + w + w
  BY <1>1, <1>2, <1>3
<1>6. a = c \/ a = c + w \/ a = c + w + w
  <2>1. CASE a < w
    <3>1. a % w = a
      BY <1>5, <2>1, ModNear
    <3> QED BY <3>1
  <2>2. CASE w <= a /\ a < w + w
    <3>1. a - w \in 0 .. w - 1 /\ a = (a - w) + w
      BY <1>5, <2>2
    <3>2. a % w = a - w
      BY <1>5, <3>1, ModNear
    <3> QED BY <1>5, <3>2
  <2>3. CASE w + w <= a
    <3>1. a - w - w \in 0 .. w - 1 /\ a = (a - w - w) + w + w
      BY <1>5, <2>3
    <3>2. a % w = a - w - w
      BY <1>5, <3>1, ModNear
    <3> QED BY <1>5, <3>2
  <2> QED BY <1>5, <2>1, <2>2, <2>3
<1> HIDE DEF c
<1>7. m - d \in 1 .. r /\ m - d \in 0 .. w - 1
  BY <1>1, <1>3
<1>8. \/ c - k = (m - d) - w \/ c - k = m - d \/ c - k = (m - d) + w \/ c - k = (m - d) + w + w
  BY <1>1, <1>2, <1>3, <1>4, <1>6
<1>9. (c - k) % w = m - d
  <2> DEFINE x == c - k
             y == m - d
  <2>1. x \in Int /\ y \in 0 .. w - 1
    BY <1>4, <1>7
  <2>2. x = y - w \/ x = y \/ x = y + w \/ x = y + w + w
    BY <1>8
  <2> HIDE DEF x, y
  <2>3. x % w = y
    BY <2>1, <2>2, ModNear
  <2> QED BY <2>3 DEF x, y
<1>10. (c - k) % w \in 1 .. r
  BY <1>7, <1>9
<1> QED BY <1>10 DEF c, m, d

-----------------------------------------------------------------------------
\* The next match of a periodic timer of s is at most one period away.
NearT(t, time) == t.pending /\ t.comprate # 0 => t.cbt <= time + t.comprate
Near(s, time) == s.en => \A n \in Timers : NearT(s.t[n], time)

\* Where a timer that is started expires.
LEMMA StartNear ==
  ASSUME HpetConstantsOK, hnow \in Nat, NEW s \in HpetT, NEW N \in SUBSET Timers,
         NEW counter \in 0 .. WC - 1,
         \A n \in Timers \ N : NearT(s.t[n], hnow)
  PROVE  Near(vhpet_start_timer(s, N, counter), hnow)
<1> DEFINE r == vhpet_start_timer(s, N, counter)
           c(t) == IF t.comprate # 0 THEN vhpet_adjust_compval(t, counter) ELSE t.compval
           k(n) == hnow + ((c(s.t[n]) - counter) % WC)
           Up(n) == [s.t[n] EXCEPT !.compval = c(s.t[n]), !.cbt = k(n),
                                   !.pending = TRUE, !.active = TRUE, !.owed = FALSE]
           T == [n \in Timers |-> IF n \notin N THEN s.t[n] ELSE Up(n)]
<1>1. r = [s EXCEPT !.t = T]
  BY DEF vhpet_start_timer
<1>2. s.t \in [Timers -> TimerT]
  BY DEF HpetT
<1>3. ASSUME NEW n \in Timers, s.t[n].comprate # 0
      PROVE  k(n) <= hnow + s.t[n].comprate
  <2> DEFINE t == s.t[n]
  <2>1. t.compval \in 0 .. WC - 1 /\ t.comprate \in 1 .. WC - 1 /\ WC \in Nat \ {0}
    BY <1>2, <1>3 DEF TimerT, HpetConstantsOK
  <2>2. c(t) = (t.compval + ((((counter - t.compval) % WC) \div t.comprate) + 1) * t.comprate) % WC
    BY <1>3 DEF vhpet_adjust_compval
  <2> HIDE DEF c, t
  <2>3. (c(t) - counter) % WC \in 1 .. t.comprate
    BY <2>1, <2>2, RoundedUp
  <2> DEFINE x == (c(t) - counter) % WC
  <2>4. x \in 1 .. t.comprate /\ k(n) = hnow + x
    BY <2>3 DEF t
  <2> HIDE DEF x, k
  <2> QED
    BY <2>1, <2>4 DEF t
<1> HIDE DEF c, k
<1>4. ASSUME NEW n \in Timers
      PROVE  Up(n).comprate = s.t[n].comprate /\ Up(n).cbt = k(n)
  BY <1>2 DEF TimerT
<1> HIDE DEF Up
<1>5. \A n \in Timers : T[n] = IF n \notin N THEN s.t[n] ELSE Up(n)
  OBVIOUS
<1> HIDE DEF T, r
<1>6. r.t = T
  BY <1>1 DEF HpetT
<1>7. ASSUME NEW n \in Timers PROVE NearT(r.t[n], hnow)
  <2>1. CASE n \notin N
    BY <1>5, <1>6, <2>1
  <2>2. CASE n \in N
    BY <1>3, <1>4, <1>5, <1>6, <2>2 DEF NearT
  <2> QED
    BY <2>1, <2>2
<1> QED
  BY <1>7 DEF Near, r

\* What Near looks at of a timer.
LEMMA SameNear ==
  ASSUME NEW s, NEW r, NEW time, Near(s, time), r.en => s.en,
         \A n \in Timers :
           /\ r.t[n].pending => s.t[n].pending
           /\ r.t[n].cbt = s.t[n].cbt
           /\ r.t[n].comprate = s.t[n].comprate \/ r.t[n].comprate = 0
  PROVE  Near(r, time)
BY DEF Near, NearT

\* Starting the counter arms all timers anew; stopped, it has no matches.
LEMMA WriteConfigNear ==
  ASSUME HpetConstantsOK, hnow \in Nat, h \in HpetT, Near(h, hnow), NEW en \in BOOLEAN,
         WriteConfig(en), h' \in HpetT
  PROVE  Near(h', hnow)
<1>2. CASE en = h.en
  BY <1>2 DEF WriteConfig
<1>3. CASE en # h.en /\ en
  <2> DEFINE s == [h EXCEPT !.en = TRUE, !.base = hnow]
  <2>1. h' = vhpet_start_timer(s, Timers, h.countbase)
    <3>1. h' = vhpet_start_counting([h EXCEPT !.en = TRUE])
      BY <1>3 DEF WriteConfig
    <3>2. [h EXCEPT !.en = TRUE].countbase = h.countbase
      BY DEF HpetT
    <3> QED
      BY <3>1, <3>2 DEF vhpet_start_counting
  <2>2. s \in HpetT /\ h.countbase \in 0 .. WC - 1
    BY DEF HpetT
  <2> HIDE DEF s
  <2> QED
    BY <2>1, <2>2, StartNear
<1>4. CASE en # h.en /\ ~en
  <2> DEFINE s == [h EXCEPT !.en = FALSE, !.countbase = vhpet_counter(h)]
             u == Stopped(s)
             N == {n \in Timers : s.t[n].cbt < hnow}
  <2>1. h' = vhpet_timer_interrupt(u, N)
    BY <1>4 DEF WriteConfig, vhpet_stop_counting, vhpet_stop_timer
  <2>2. u.en = FALSE
    BY DEF Stopped, HpetT
  <2> HIDE DEF u, N
  <2>3. h'.en = u.en
    <3> DEFINE T == [n \in Timers |-> [u.t[n] EXCEPT !.owed = u.t[n].owed /\ n \notin N]]
               I == u.isr \cup {n \in N : Asserts(u, n)}
               L == [p \in Pins |-> u.line[p] + Cardinality({n \in {m \in N : Asserts(u, m)} : u.t[n].pin = p})]
    <3>1. h' = [u EXCEPT !.t = T, !.isr = I, !.line = L]
      BY <2>1 DEF vhpet_timer_interrupt
    <3> HIDE DEF T, I, L
    <3> QED BY <3>1
  <2> QED
    BY <2>2, <2>3 DEF Near
<1> QED
  BY <1>2, <1>3, <1>4

\* Moving a running counter arms all timers anew.
LEMMA WriteCounterNear ==
  ASSUME HpetConstantsOK, hnow \in Nat, h \in HpetT, Near(h, hnow), NEW v \in Values, WriteCounter(v)
  PROVE  Near(h', hnow)
<1>1. v \in 0 .. WC - 1
  BY DEF HpetConstantsOK
<1>2. CASE h.en
  <2> DEFINE s == [h EXCEPT !.countbase = v, !.base = hnow]
  <2>1. h' = vhpet_start_timer(s, Timers, v)
    <3>1. [h EXCEPT !.countbase = v].en = h.en /\ [h EXCEPT !.countbase = v].countbase = v
      BY DEF HpetT
    <3> QED
      BY <1>2, <3>1 DEF WriteCounter, vhpet_start_counting
  <2>2. s \in HpetT
    BY <1>1 DEF HpetT
  <2> HIDE DEF s
  <2> QED
    BY <1>1, <2>1, <2>2, StartNear
<1>3. CASE ~h.en
  <2>1. h' = [h EXCEPT !.countbase = v]
    <3>1. [h EXCEPT !.countbase = v].en = h.en
      BY DEF HpetT
    <3> QED
      BY <1>3, <3>1 DEF WriteCounter
  <2>2. h'.en = h.en
    BY <2>1 DEF HpetT
  <2> QED
    BY <1>3, <2>2 DEF Near
<1> QED
  BY <1>2, <1>3

\* The status bits do not matter.
LEMMA WriteIsrNear ==
  ASSUME h \in HpetT, Near(h, hnow), NEW n \in Timers, WriteIsr(n)
  PROVE  Near(h', hnow)
<1>1. h'.t = h.t /\ h'.en = h.en
  BY DEF WriteIsr, vhpet_timer_clear_isr, HpetT
<1> QED
  BY <1>1, SameNear

\* A new configuration keeps the rate of a periodic timer, and ends it otherwise.
LEMMA UpdateConfigNear ==
  ASSUME hnow \in Nat, h \in HpetT, Near(h, hnow), NEW n \in Timers, NEW c \in Configs,
         vhpet_timer_update_config(n, c)
  PROVE  Near(h', hnow)
<1> DEFINE o == h.t[n]
           pin == IF c.msi \/ c.pin \in Pins THEN c.pin ELSE 0
           rate == IF c.periodic THEN o.comprate ELSE 0
           t == [o EXCEPT !.enb = c.enb, !.level = c.level, !.msi = c.msi, !.periodic = c.periodic,
                          !.valset = c.valset, !.pin = pin, !.comprate = rate]
           old_pin == vhpet_timer_ioapic_pin(o)
           clear_isr == n \in h.isr /\ (~t.enb \/ t.msi \/ vhpet_timer_edge_trig(t)
                                           \/ vhpet_timer_ioapic_pin(t) # old_pin)
           s == [h EXCEPT !.t[n] = t]
<1>1. h' = IF clear_isr THEN [s EXCEPT !.isr = s.isr \ {n}, !.line[old_pin] = s.line[old_pin] - 1] ELSE s
  BY DEF vhpet_timer_update_config
<1>2. o \in TimerT
  BY DEF HpetT
<1>3. t.pending = o.pending /\ t.cbt = o.cbt /\ t.comprate = rate
  BY <1>2 DEF TimerT
<1>4. rate = o.comprate \/ rate = 0
  OBVIOUS
<1> HIDE DEF t, rate, clear_isr
<1>5. s.en = h.en /\ s.t = [h.t EXCEPT ![n] = t]
  BY DEF HpetT
<1> HIDE DEF s
<1>6. h'.en = s.en /\ h'.t = s.t
  <2>1. CASE clear_isr
    <3> DEFINE I == s.isr \ {n}
               L == [s.line EXCEPT ![old_pin] = s.line[old_pin] - 1]
    <3>1. h' = [s EXCEPT !.isr = I, !.line = L]
      BY <1>1, <2>1
    <3> HIDE DEF I, L
    <3> QED BY <3>1
  <2>2. CASE ~clear_isr
    BY <1>1, <2>2
  <2> QED BY <2>1, <2>2
<1>7. \A m \in Timers : h'.t[m] = IF m = n THEN t ELSE h.t[m]
  BY <1>5, <1>6 DEF HpetT
<1>8. \A m \in Timers :
        /\ h'.t[m].pending => h.t[m].pending
        /\ h'.t[m].cbt = h.t[m].cbt
        /\ h'.t[m].comprate = h.t[m].comprate \/ h'.t[m].comprate = 0
  BY <1>3, <1>4, <1>7
<1>9. h'.en => h.en
  BY <1>5, <1>6
<1> HIDE DEF o
<1> QED
  BY <1>8, <1>9, SameNear

\* A comparator or rate that changes while the counter runs arms its timer anew.
LEMMA WriteComparatorNear ==
  ASSUME HpetConstantsOK, hnow \in Nat, h \in HpetT, Near(h, hnow), NEW n \in Timers, NEW v \in Values,
         WriteComparator(n, v)
  PROVE  Near(h', hnow)
<1>1. h.t[n] \in TimerT /\ v \in 0 .. WC - 1
  BY DEF HpetT, HpetConstantsOK
<1> DEFINE o == h.t[n]
           rate == IF o.periodic THEN v ELSE o.comprate
           val == IF o.periodic /\ ~o.valset THEN o.compval ELSE v
           t == [o EXCEPT !.comprate = rate, !.compval = val, !.valset = FALSE]
           s == [h EXCEPT !.t[n] = t]
           changed == t.compval # o.compval \/ t.comprate # o.comprate
<1>2. h' = IF changed /\ h.en THEN vhpet_start_timer(s, {n}, vhpet_counter(h)) ELSE s
  BY DEF WriteComparator
<1>3. rate \in 0 .. WC - 1 /\ val \in 0 .. WC - 1
  BY <1>1 DEF TimerT
<1> HIDE DEF rate, val
<1>4. t \in TimerT /\ t.pending = o.pending /\ t.cbt = o.cbt
  BY <1>1, <1>3 DEF TimerT
<1>c. ~changed => t.comprate = o.comprate
  OBVIOUS
<1> HIDE DEF t, changed
<1>5. /\ s \in HpetT /\ s.en = h.en
      /\ s.t[n] = t /\ \A m \in Timers : m # n => s.t[m] = h.t[m]
  BY <1>1, <1>4 DEF HpetT
<1> HIDE DEF s, o
<1>8. CASE changed /\ h.en
  <2>1. vhpet_counter(h) \in 0 .. WC - 1
    BY CounterIn
  <2>2. \A m \in Timers \ {n} : NearT(s.t[m], hnow)
    BY <1>5, <1>8 DEF Near
  <2> QED
    BY <1>2, <1>5, <1>8, <2>1, <2>2, StartNear
<1>9. CASE h.en /\ ~changed
  <2>1. h' = s
    BY <1>2, <1>9
  <2> QED
    BY <1>4, <1>5, <1>c, <1>9, <2>1, SameNear DEF o
<1>10. CASE ~h.en
  BY <1>2, <1>5, <1>10 DEF Near
<1> QED
  BY <1>8, <1>9, <1>10

\* Time only brings a match closer.
LEMMA TickNear ==
  ASSUME hnow \in Nat, h \in HpetT, Near(h, hnow), HpetTick
  PROVE  Near(h', hnow')
<1>1. h.t \in [Timers -> TimerT] /\ hnow' = hnow + 1
  BY DEF HpetT, HpetTick
<1> DEFINE b(n) == h.t[n].owed \/ (h.t[n].pending /\ h.t[n].cbt <= hnow)
           T == [n \in Timers |-> [h.t[n] EXCEPT !.owed = b(n)]]
<1>2. h' = [h EXCEPT !.t = T]
  BY DEF HpetTick
<1> HIDE DEF b
<1>3. ASSUME NEW n \in Timers
      PROVE  /\ T[n].pending = h.t[n].pending /\ T[n].cbt = h.t[n].cbt
             /\ T[n].comprate = h.t[n].comprate
  BY <1>1 DEF TimerT
<1> HIDE DEF T
<1>4. h'.t = T /\ h'.en = h.en
  BY <1>2 DEF HpetT
<1>5. ASSUME h'.en, NEW n \in Timers PROVE NearT(h'.t[n], hnow')
  <2>1. h.t[n].cbt \in Nat /\ h.t[n].comprate \in Nat /\ NearT(h.t[n], hnow)
    BY <1>1, <1>4, <1>5 DEF TimerT, Near
  <2> QED BY <1>1, <1>3, <1>4, <2>1 DEF NearT
<1> QED
  BY <1>5 DEF Near

\* The callout thread takes an expired callout.
LEMMA DispatchNear ==
  ASSUME hnow \in Nat, h \in HpetT, Near(h, hnow), NEW n \in Timers, HpetDispatch(n)
  PROVE  Near(h', hnow)
<1>1. h.t[n] \in TimerT
  BY DEF HpetT
<1> DEFINE t == [h.t[n] EXCEPT !.pending = FALSE]
<1>2. h' = [h EXCEPT !.hnd = n, !.t[n] = t]
  BY DEF HpetDispatch
<1>3. t.pending = FALSE /\ t.cbt = h.t[n].cbt /\ t.comprate = h.t[n].comprate
  BY <1>1 DEF TimerT
<1> HIDE DEF t
<1>4. h'.en = h.en /\ h'.t[n] = t /\ \A k \in Timers : k # n => h'.t[k] = h.t[k]
  BY <1>1, <1>2, <1>3 DEF HpetT
<1> QED
  BY <1>3, <1>4, SameNear

\* The handler arms the next period.
LEMMA HandlerNear ==
  ASSUME HpetConstantsOK, hnow \in Nat, HInv(h, hnow), Near(h, hnow), vhpet_handler
  PROVE  Near(h', hnow)
<1>1. h \in HpetT /\ Armed(h, hnow)
  BY DEF HInv
<1> DEFINE n == h.hnd
<1>2. n \in Timers /\ h.t[n] \in TimerT
  BY <1>1 DEF vhpet_handler, HpetT
<1>3. CASE h.t[n].pending \/ ~h.t[n].active
  <2>1. h' = [h EXCEPT !.hnd = 0]
    BY <1>3 DEF vhpet_handler, callout_active
  <2>2. h'.en = h.en /\ h'.t = h.t
    BY <1>1, <2>1 DEF HpetT
  <2> QED
    BY <2>2, SameNear
<1>4. CASE ~(h.t[n].pending \/ ~h.t[n].active)
  <2> DEFINE t == [h.t[n] EXCEPT !.active = FALSE]
             s == [h EXCEPT !.hnd = 0, !.t[n] = t]
             u == vhpet_start_timer(s, {n}, vhpet_counter(h))
  <2>1. h.en
    BY <1>1, <1>2, <1>4 DEF Armed
  <2>2. h' = vhpet_timer_interrupt(u, {n})
    BY <1>4, <2>1 DEF vhpet_handler, callout_active
  <2>3. t \in TimerT
    BY <1>2 DEF TimerT
  <2> HIDE DEF t
  <2>4. s \in HpetT /\ \A k \in Timers : k # n => s.t[k] = h.t[k]
    BY <1>1, <1>2, <2>3 DEF HpetT
  <2>6. vhpet_counter(h) \in 0 .. WC - 1 /\ {n} \in SUBSET Timers
    BY <1>1, <1>2, CounterIn
  <2> HIDE DEF s, n
  <2>7. u \in HpetT
    BY <2>4, <2>6, StartIs
  <2>8. Near(u, hnow)
    <3>1. \A k \in Timers \ {n} : NearT(s.t[k], hnow)
      BY <2>1, <2>4 DEF Near
    <3> QED
      BY <2>4, <2>6, <3>1, StartNear
  <2> HIDE DEF u
  <2>10. /\ h'.en = u.en
         /\ \A k \in Timers : h'.t[k] = [u.t[k] EXCEPT !.owed = u.t[k].owed /\ k \notin {n}]
    BY <2>2, <2>6, <2>7, InterruptIs
  <2>11. ASSUME NEW k \in Timers
         PROVE  /\ h'.t[k].pending = u.t[k].pending /\ h'.t[k].cbt = u.t[k].cbt
                /\ h'.t[k].comprate = u.t[k].comprate
    <3> DEFINE b == u.t[k].owed /\ k \notin {n}
    <3>1. h'.t[k] = [u.t[k] EXCEPT !.owed = b] /\ u.t[k] \in TimerT
      BY <2>7, <2>10 DEF HpetT
    <3> HIDE DEF b
    <3> QED
      BY <3>1 DEF TimerT
  <2> QED
    BY <2>8, <2>10, <2>11, SameNear
<1> QED
  BY <1>3, <1>4

\* Every step keeps the period ahead.
LEMMA NextNear ==
  ASSUME HpetConstantsOK, HpetInv, HpetInv', Near(h, hnow), [HpetNext]_hpetvars
  PROVE  Near(h', hnow')
<1>1. hnow \in Nat /\ HInv(h, hnow) /\ h \in HpetT /\ h' \in HpetT
  BY InvIs, InvIsNext DEF HInv
<1>2. CASE HpetTick
  BY <1>1, <1>2, TickNear
<1>3. CASE vhpet_handler
  BY <1>1, <1>3, HandlerNear DEF vhpet_handler
<1>4. ASSUME NEW en \in BOOLEAN, WriteConfig(en) PROVE Near(h', hnow')
  BY <1>1, <1>4, WriteConfigNear DEF WriteConfig
<1>5. ASSUME NEW v \in Values, WriteCounter(v) PROVE Near(h', hnow')
  BY <1>1, <1>5, WriteCounterNear DEF WriteCounter
<1>6. ASSUME NEW n \in Timers, HpetDispatch(n) PROVE Near(h', hnow')
  BY <1>1, <1>6, DispatchNear DEF HpetDispatch
<1>7. ASSUME NEW n \in Timers, WriteIsr(n) PROVE Near(h', hnow')
  BY <1>1, <1>7, WriteIsrNear DEF WriteIsr
<1>8. ASSUME NEW n \in Timers, NEW c \in Configs, vhpet_timer_update_config(n, c)
      PROVE  Near(h', hnow')
  <2>1. hnow' = hnow
    BY <1>8 DEF vhpet_timer_update_config
  <2> QED
    BY <1>1, <1>8, <2>1, UpdateConfigNear
<1>9. ASSUME NEW n \in Timers, NEW v \in Values, WriteComparator(n, v)
      PROVE  Near(h', hnow')
  <2>1. hnow' = hnow
    BY <1>9 DEF WriteComparator
  <2> QED
    BY <1>1, <1>9, <2>1, WriteComparatorNear
<1>10. CASE UNCHANGED hpetvars
  BY <1>10 DEF hpetvars
<1> QED
  BY <1>2, <1>3, <1>4, <1>5, <1>6, <1>7, <1>8, <1>9, <1>10 DEF HpetNext

\* Near is what PeriodAhead says.
LEMMA NearIs ==
  ASSUME hnow \in Nat, h \in HpetT, Near(h, hnow)
  PROVE  PeriodAhead
<1> SUFFICES ASSUME NEW n \in Timers, h.en, h.t[n].pending, h.t[n].comprate # 0
             PROVE  h.t[n].cbt - hnow <= h.t[n].comprate
  BY DEF PeriodAhead
<1>1. h.t[n].cbt \in Nat /\ h.t[n].comprate \in Nat
  BY DEF HpetT, TimerT
<1>2. h.t[n].cbt <= hnow + h.t[n].comprate
  BY DEF Near, NearT
<1> QED
  BY <1>1, <1>2

\* A periodic timer of the HPET never waits for the counter to wrap around: its next
\* match is at most a period away, whatever the guest does to counter, comparator and
\* rate (vhpet_adjust_compval).
THEOREM PeriodIsAhead == HpetConstantsOK => (HpetSpec => []PeriodAhead)
<1> SUFFICES ASSUME HpetConstantsOK PROVE HpetSpec => []PeriodAhead
  OBVIOUS
<1>1. HpetSpec => []HpetInv
  BY HpetInvariance
<1>2. HpetInit => Near(h, hnow)
  BY DEF HpetInit, Near
<1>3. HpetInv /\ HpetInv' /\ Near(h, hnow) /\ [HpetNext]_hpetvars => Near(h, hnow)'
  BY NextNear
<1>4. HpetInv /\ Near(h, hnow) => PeriodAhead
  BY InvIs, NearIs DEF HInv
<1> QED
  BY <1>1, <1>2, <1>3, <1>4, PTL DEF HpetSpec

-----------------------------------------------------------------------------
(* The PIT.                                                                *)

PitT ==
  [no : {0, 2}, mode : Modes, initial : Nat, at : Nat,
   cr : {<<>>} \cup {<<b>> : b \in 0 .. ByteVals - 1}, ol : Seq(Int),
   slatched : BOOLEAN, null : BOOLEAN, out : BOOLEAN, frbyte : {0, 1}, cbt : Nat,
   pending : BOOLEAN, active : BOOLEAN, hnd : BOOLEAN, fresh : BOOLEAN, early : Nat]

\* How far ahead a channel may be armed.
Slack(d) == d.early * d.initial + (IF d.pending THEN d.initial ELSE 0)

\* The invariant of a channel at an instant.
PInv(d, time) ==
  /\ d \in PitT
  /\ d.no = 0 /\ d.fresh /\ d.mode = "RATEGEN" => d.pending \/ (d.hnd /\ d.active)
  /\ d.pending => d.active
  /\ d.cbt - time <= Slack(d)
  /\ d.fresh => d.initial # 0
  /\ d.no # 0 => ~d.pending /\ ~d.hnd /\ d.cbt = 0

\* What the proofs need of a product.
LEMMA Products ==
  ASSUME NEW e \in Nat, NEW i \in Nat
  PROVE  e * i \in Nat /\ (e + 1) * i = e * i + i /\ (e = 0 => e * i = 0) /\ (i = 0 => e * i = 0)
  OBVIOUS

\* Slack is a number, and none while nothing is loaded.
LEMMA SlackIs ==
  ASSUME NEW d \in PitT
  PROVE  /\ Slack(d) \in Nat /\ (d.initial = 0 => Slack(d) = 0)
         /\ d.pending => Slack(d) = (d.early + 1) * d.initial
         /\ ~d.pending => Slack(d) = d.early * d.initial
  <1>1. d.early \in Nat /\ d.initial \in Nat /\ d.pending \in BOOLEAN
    BY DEF PitT
  <1> DEFINE x == d.early * d.initial
             y == (d.early + 1) * d.initial
  <1>2. x \in Nat /\ y = x + d.initial /\ (d.initial = 0 => x = 0)
    BY <1>1, Products
  <1>3. Slack(d) = x + (IF d.pending THEN d.initial ELSE 0)
    BY DEF Slack
  <1> HIDE DEF x, y
  <1>4. /\ Slack(d) \in Nat /\ (d.initial = 0 => Slack(d) = 0)
        /\ (d.pending => Slack(d) = y) /\ (~d.pending => Slack(d) = x)
    BY <1>1, <1>2, <1>3
  <1> QED BY <1>4 DEF x, y

\* PitInv in terms of it, before and after a step.
LEMMA PitInvIs == PitInv <=> pnow \in Nat /\ PInv(pit, pnow)
  <1>1. PitTypeOK <=> pnow \in Nat /\ pit \in PitT
    BY DEF PitTypeOK, PitT
  <1>2. ASSUME pit \in PitT
        PROVE  /\ pit.pending \in BOOLEAN
               /\ pit.pending => Slack(pit) = (pit.early + 1) * pit.initial
               /\ ~pit.pending => Slack(pit) = pit.early * pit.initial
    BY <1>2, SlackIs DEF PitT
  <1> QED BY <1>1, <1>2 DEF PitInv, PInv, RateGeneratorRuns, PeriodsAhead

\* The same of the state after a step.
LEMMA PitInvIsNext == PitInv' <=> pnow' \in Nat /\ PInv(pit', pnow')
  <1>1. PitTypeOK' <=> pnow' \in Nat /\ pit' \in PitT
    BY DEF PitTypeOK, PitT
  <1>2. ASSUME pit' \in PitT
        PROVE  /\ pit'.pending \in BOOLEAN
               /\ pit'.pending => Slack(pit') = (pit'.early + 1) * pit'.initial
               /\ ~pit'.pending => Slack(pit') = pit'.early * pit'.initial
    BY <1>2, SlackIs DEF PitT
  <1> QED BY <1>1, <1>2 DEF PitInv, PInv, RateGeneratorRuns, PeriodsAhead

\* pit_timer_start_cntr0: the next expiry is not in the past, and a period more
\* ahead than the last one was.
LEMMA PitStartIs ==
  ASSUME NEW d \in PitT, pnow \in Nat, ~d.pending => d.cbt - pnow <= Slack(d),
         d.pending => d.cbt = pnow, d.initial # 0
  PROVE  LET e == pit_timer_start_cntr0(d)
         IN /\ e \in PitT /\ e.pending /\ e.active /\ e.initial = d.initial /\ e.fresh = d.fresh
            /\ e.no = d.no /\ e.hnd = d.hnd /\ e.cbt >= pnow /\ e.cbt - pnow <= Slack(e)
  <1> DEFINE n == d.cbt + d.initial
             t == IF n < pnow THEN pnow + d.initial ELSE n
             e == [d EXCEPT !.cbt = t, !.pending = TRUE, !.active = TRUE]
  <1>1. pit_timer_start_cntr0(d) = e
    BY DEF pit_timer_start_cntr0
  <1>2. d.cbt \in Nat /\ d.initial \in Nat
    BY DEF PitT
  <1> DEFINE x == d.early * d.initial
  <1>x. x \in Nat /\ (d.cbt - pnow <= x \/ d.cbt = pnow)
    BY <1>2, SlackIs, Products DEF PitT
  <1> HIDE DEF x
  <1>3. t \in Nat /\ t >= pnow /\ t - pnow <= x + d.initial
    BY <1>2, <1>x
  <1> HIDE DEF t
  <1>4. e \in PitT
    BY <1>3 DEF PitT
  <1>5. e.pending = TRUE /\ e.active = TRUE
    BY DEF PitT
  <1>6. e.initial = d.initial /\ e.cbt = t
    BY DEF PitT
  <1>7. e.fresh = d.fresh /\ e.no = d.no /\ e.hnd = d.hnd /\ e.early = d.early
    BY DEF PitT
  <1> HIDE DEF e
  <1>8. Slack(e) = x + d.initial
    BY <1>5, <1>6, <1>7 DEF Slack, x
  <1> QED BY <1>1, <1>3, <1>4, <1>5, <1>6, <1>7, <1>8

\* Two channels that differ in what the guest reads only.
PitLike(d, e) ==
  /\ e.no = d.no /\ e.mode = d.mode /\ e.cbt = d.cbt /\ e.pending = d.pending
  /\ e.active = d.active /\ e.hnd = d.hnd /\ e.fresh = d.fresh /\ e.early = d.early
  /\ d.initial # 0 => e.initial = d.initial

\* The invariant does not look at the latches.
LEMMA LikeKeeps ==
  ASSUME NEW d, NEW e \in PitT, NEW time \in Nat, PInv(d, time), PitLike(d, e)
  PROVE  PInv(e, time)
  <1>1. d \in PitT /\ d.cbt - time <= Slack(d) /\ e.cbt = d.cbt
    BY DEF PInv, PitLike
  <1>2. Slack(d) \in Nat /\ (d.initial = 0 => Slack(d) = 0) /\ Slack(e) \in Nat /\ d.cbt \in Nat
    BY <1>1, SlackIs DEF PitT
  <1>3. d.initial # 0 => Slack(e) = Slack(d)
    BY DEF Slack, PitLike
  <1>4. e.cbt - time <= Slack(e)
    BY <1>1, <1>2, <1>3
  <1> QED BY <1>4 DEF PInv, PitLike

\* A counter that reads its value.
LEMMA CountingIs ==
  ASSUME NEW d \in PitT, pnow \in Nat
  PROVE  Counting(d) \in PitT /\ PitLike(d, Counting(d)) /\ Counting(d).initial # 0
         /\ Counting(d).frbyte = d.frbyte
  <1>1. CASE d.initial # 0
    BY <1>1 DEF Counting, PitLike
  <1>2. CASE d.initial = 0
    <2> DEFINE e == [d EXCEPT !.initial = Hz100, !.at = pnow, !.null = FALSE]
    <2>1. Counting(d) = e
      BY <1>2 DEF Counting
    <2>2. Hz100 \in Nat /\ Hz100 # 0
      BY PitConstants DEF Hz100
    <2>3. e \in PitT
      BY <2>2 DEF PitT
    <2>4. e.initial = Hz100 /\ e.no = d.no /\ e.mode = d.mode /\ e.cbt = d.cbt
      BY DEF PitT
    <2>5. e.pending = d.pending /\ e.active = d.active /\ e.hnd = d.hnd /\ e.fresh = d.fresh /\ e.early = d.early /\ e.frbyte = d.frbyte
      BY DEF PitT
    <2> HIDE DEF e
    <2> QED BY <1>2, <2>1, <2>2, <2>3, <2>4, <2>5 DEF PitLike
  <1> QED BY <1>1, <1>2

\* pit_update_counter latches the value.
LEMMA UpdateCounterIs ==
  ASSUME NEW d \in PitT, pnow \in Nat
  PROVE  pit_update_counter(d) \in PitT /\ PitLike(d, pit_update_counter(d))
  <1>1. CASE d.ol # <<>>
    BY <1>1 DEF pit_update_counter, PitLike
  <1>2. CASE d.ol = <<>>
    <2> DEFINE e == Counting(d)
               lval == e.initial - ((pnow - e.at) % e.initial)
               v == <<lval % ByteVals, lval \div ByteVals>>
               f == [e EXCEPT !.ol = v]
    <2>1. e \in PitT /\ PitLike(d, e) /\ e.initial # 0
      BY CountingIs
    <2>2. pit_update_counter(d) = f
      BY <1>2 DEF pit_update_counter
    <2> HIDE DEF e
    <2>3. lval \in Int
      <3>1. e.initial \in Nat \ {0} /\ pnow - e.at \in Int
        BY <2>1 DEF PitT
      <3> DEFINE x == pnow - e.at
      <3> HIDE DEF x
      <3>2. x % e.initial \in Int
        BY <3>1 DEF x
      <3> QED BY <3>1, <3>2 DEF x
    <2> HIDE DEF lval
    <2>4. v \in Seq(Int)
      <3>1. lval % ByteVals \in Int /\ lval \div ByteVals \in Int
        BY <2>3, PitConstants
      <3> DEFINE x == lval % ByteVals
                 y == lval \div ByteVals
      <3>2. x \in Int /\ y \in Int
        BY <3>1
      <3> HIDE DEF x, y
      <3>3. <<x, y>> \in Seq(Int)
        BY <3>2
      <3> QED BY <3>3 DEF x, y
    <2> HIDE DEF v
    <2>5. f \in PitT
      BY <2>1, <2>4 DEF PitT
    <2>6. f.initial = e.initial /\ f.no = e.no /\ f.mode = e.mode /\ f.cbt = e.cbt
      BY <2>1 DEF PitT
    <2>7. f.pending = e.pending /\ f.active = e.active /\ f.hnd = e.hnd /\ f.fresh = e.fresh /\ f.early = e.early
      BY <2>1 DEF PitT
    <2> HIDE DEF f
    <2> QED BY <2>1, <2>2, <2>5, <2>6, <2>7 DEF PitLike
  <1> QED BY <1>1, <1>2

\* A step that changes what the guest reads only.
LEMMA ReadingStep ==
  ASSUME pnow \in Nat, PInv(pit, pnow), pit' \in PitT, PitLike(pit, pit'), pnow' = pnow
  PROVE  PInv(pit', pnow') /\ AheadOfTime
  <1>1. PInv(pit', pnow')
    BY LikeKeeps
  <1>2. AheadOfTime
    BY DEF AheadOfTime, PitLike
  <1> QED BY <1>1, <1>2

\* The read-back command latches the counter, the status or both.
LEMMA ReadbackStep ==
  ASSUME pnow \in Nat, PInv(pit, pnow), NEW lctr \in BOOLEAN, NEW lstatus \in BOOLEAN,
         pit_readback1(lctr, lstatus)
  PROVE  PInv(pit', pnow') /\ AheadOfTime
  <1> DEFINE d == IF lctr THEN pit_update_counter(pit) ELSE pit
             o == vatpit_get_out(d)
  <1>1. pit \in PitT
    BY DEF PInv
  <1>2. d \in PitT /\ PitLike(pit, d)
    BY <1>1, UpdateCounterIs DEF PitLike
  <1>3. pit' = (IF lstatus /\ ~d.slatched THEN [d EXCEPT !.slatched = TRUE, !.out = o] ELSE d) /\ pnow' = pnow
    BY DEF pit_readback1
  <1>4. o \in BOOLEAN
    BY DEF vatpit_get_out
  <1> HIDE DEF d, o
  <1>5. pit' \in PitT
    <2> DEFINE f == [d EXCEPT !.slatched = TRUE, !.out = o]
    <2>1. f \in PitT
      BY <1>2, <1>4 DEF PitT
    <2> QED BY <1>2, <1>3, <2>1
  <1>6. PitLike(d, pit')
    <2> DEFINE f == [d EXCEPT !.slatched = TRUE, !.out = o]
    <2>1. PitLike(d, d)
      BY DEF PitLike
    <2>2. f.initial = d.initial /\ f.no = d.no /\ f.mode = d.mode /\ f.cbt = d.cbt
      BY <1>2 DEF PitT
    <2>3. f.pending = d.pending /\ f.active = d.active /\ f.hnd = d.hnd /\ f.fresh = d.fresh /\ f.early = d.early
      BY <1>2 DEF PitT
    <2> HIDE DEF f
    <2>4. PitLike(d, f)
      BY <2>2, <2>3 DEF PitLike
    <2> QED BY <1>3, <2>1, <2>4 DEF f
  <1>7. PitLike(pit, pit')
    BY <1>2, <1>6 DEF PitLike
  <1> QED BY <1>3, <1>5, <1>7, ReadingStep

\* A read of the data port consumes latched bytes.
LEMMA ReadStep ==
  ASSUME pnow \in Nat, PInv(pit, pnow), ReadCount
  PROVE  PInv(pit', pnow') /\ AheadOfTime
  <1>1. pit \in PitT /\ pnow' = pnow
    BY DEF PInv, ReadCount
  <1>2. CASE pit.slatched
    <2> DEFINE e == [pit EXCEPT !.slatched = FALSE, !.null = FALSE, !.out = FALSE]
    <2>1. pit' = e
      BY <1>2 DEF ReadCount
    <2>2. e \in PitT
      BY <1>1 DEF PitT
    <2>3. e.initial = pit.initial /\ e.no = pit.no /\ e.mode = pit.mode /\ e.cbt = pit.cbt
      BY <1>1 DEF PitT
    <2>4. e.pending = pit.pending /\ e.active = pit.active /\ e.hnd = pit.hnd /\ e.fresh = pit.fresh /\ e.early = pit.early
      BY <1>1 DEF PitT
    <2> HIDE DEF e
    <2> QED BY <1>1, <2>1, <2>2, <2>3, <2>4, ReadingStep DEF PitLike
  <1>3. CASE ~pit.slatched /\ pit.ol # <<>>
    <2> DEFINE t == Tail(pit.ol)
               e == [pit EXCEPT !.ol = t]
    <2>1. pit' = e
      BY <1>3 DEF ReadCount
    <2>2. t \in Seq(Int)
      BY <1>1, <1>3 DEF PitT
    <2> HIDE DEF t
    <2>3. e \in PitT
      BY <1>1, <2>2 DEF PitT
    <2>4. e.initial = pit.initial /\ e.no = pit.no /\ e.mode = pit.mode /\ e.cbt = pit.cbt
      BY <1>1 DEF PitT
    <2>5. e.pending = pit.pending /\ e.active = pit.active /\ e.hnd = pit.hnd /\ e.fresh = pit.fresh /\ e.early = pit.early
      BY <1>1 DEF PitT
    <2> HIDE DEF e
    <2> QED BY <1>1, <2>1, <2>3, <2>4, <2>5, ReadingStep DEF PitLike
  <1>4. CASE ~pit.slatched /\ ~(pit.ol # <<>>)
    <2> DEFINE d == Counting(pit)
               n == 1 - d.frbyte
               e == [d EXCEPT !.frbyte = n]
    <2>1. pit' = e
      BY <1>4 DEF ReadCount
    <2>2. d \in PitT /\ PitLike(pit, d)
      BY <1>1, CountingIs
    <2> HIDE DEF d
    <2>3. n \in {0, 1}
      BY <2>2 DEF PitT
    <2> HIDE DEF n
    <2>4. e \in PitT
      BY <2>2, <2>3 DEF PitT
    <2>5. e.initial = d.initial /\ e.no = d.no /\ e.mode = d.mode /\ e.cbt = d.cbt
      BY <2>2 DEF PitT
    <2>6. e.pending = d.pending /\ e.active = d.active /\ e.hnd = d.hnd /\ e.fresh = d.fresh /\ e.early = d.early
      BY <2>2 DEF PitT
    <2> HIDE DEF e
    <2>7. PitLike(pit, e)
      BY <2>2, <2>5, <2>6 DEF PitLike
    <2> QED BY <1>1, <2>1, <2>4, <2>7, ReadingStep
  <1> QED BY <1>2, <1>3, <1>4

\* A new mode waits for its count; the callout of the old one runs on.
LEMMA ModeStep ==
  ASSUME pnow \in Nat, PInv(pit, pnow), NEW mode \in Modes, vatpit_update_mode(mode)
  PROVE  PInv(pit', pnow') /\ AheadOfTime
  <1> DEFINE e == [pit EXCEPT !.mode = mode, !.ol = <<>>, !.null = TRUE, !.fresh = FALSE]
  <1>1. pit \in PitT /\ pnow' = pnow /\ pit' = e
    BY DEF PInv, vatpit_update_mode
  <1>2. <<>> \in Seq(Int)
    OBVIOUS
  <1>3. e \in PitT
    BY <1>1, <1>2 DEF PitT
  <1>4. e.cbt = pit.cbt /\ e.pending = pit.pending /\ e.active = pit.active /\ e.fresh = FALSE
    BY <1>1 DEF PitT
  <1>s. e.early = pit.early /\ e.initial = pit.initial /\ e.no = pit.no /\ e.hnd = pit.hnd
    BY <1>1 DEF PitT
  <1> HIDE DEF e
  <1>x. Slack(e) = Slack(pit)
    BY <1>4, <1>s DEF Slack
  <1>5. PInv(e, pnow)
    BY <1>3, <1>4, <1>s, <1>x DEF PInv
  <1> QED BY <1>1, <1>4, <1>5 DEF AheadOfTime

\* The second byte of a count starts the timer.
LEMMA WriteStep ==
  ASSUME pnow \in Nat, PInv(pit, pnow), NEW byte \in 0 .. ByteVals - 1, WriteCount(byte)
  PROVE  PInv(pit', pnow') /\ AheadOfTime
  <1>1. pit \in PitT /\ pnow' = pnow
    BY DEF PInv, WriteCount
  <1>2. CASE pit.cr = <<>>
    <2> DEFINE x == <<byte>>
               e == [pit EXCEPT !.cr = x]
    <2>1. pit' = e
      BY <1>2 DEF WriteCount
    <2>2. x \in {<<b>> : b \in 0 .. ByteVals - 1}
      OBVIOUS
    <2> HIDE DEF x
    <2>3. e \in PitT
      BY <1>1, <2>2 DEF PitT
    <2>4. e.initial = pit.initial /\ e.no = pit.no /\ e.mode = pit.mode /\ e.cbt = pit.cbt
      BY <1>1 DEF PitT
    <2>5. e.pending = pit.pending /\ e.active = pit.active /\ e.hnd = pit.hnd /\ e.fresh = pit.fresh /\ e.early = pit.early
      BY <1>1 DEF PitT
    <2> HIDE DEF e
    <2> QED BY <1>1, <2>1, <2>3, <2>4, <2>5, ReadingStep DEF PitLike
  <1>3. CASE pit.cr # <<>>
    <2> DEFINE i == pit.cr[1] + ByteVals * byte
               t == IF pit.no = 0 THEN pnow ELSE pit.cbt
               f == i # 0
               d == [pit EXCEPT !.null = FALSE, !.frbyte = 0, !.cr = <<>>, !.initial = i,
                                !.at = pnow, !.cbt = t, !.fresh = f, !.early = 0]
               e == IF pit.no = 0 THEN pit_timer_start_cntr0(d) ELSE d
               j == IF e.initial = 0 THEN ByteVals * ByteVals - 1 ELSE e.initial
               g == [e EXCEPT !.initial = j]
    <2>1. pit' = g
      BY <1>3 DEF WriteCount
    <2>2. i \in Nat
      <3>1. pit.cr[1] \in Nat
        <4>1. PICK b \in 0 .. ByteVals - 1 : pit.cr = <<b>>
          BY <1>1, <1>3 DEF PitT
        <4> QED BY <4>1
      <3>2. ByteVals * byte \in Nat
        BY PitConstants
      <3> QED BY <3>1, <3>2
    <2>3. t \in Nat /\ f \in BOOLEAN /\ t <= pnow /\ (pit.no = 0 => t = pnow)
      BY <1>1 DEF PitT, PInv
    <2>x. t = pit.cbt \/ pit.no = 0
      OBVIOUS
    <2>y. f => i # 0
      OBVIOUS
    <2> HIDE DEF i, t, f
    <2>4. d \in PitT
      BY <1>1, <2>2, <2>3 DEF PitT
    <2>5. d.initial = i /\ d.no = pit.no /\ d.mode = pit.mode /\ d.cbt = t
      BY <1>1 DEF PitT
    <2>6. /\ d.pending = pit.pending /\ d.active = pit.active /\ d.hnd = pit.hnd
          /\ d.fresh = f /\ d.early = 0
      BY <1>1, <2>3 DEF PitT
    <2> HIDE DEF d
    <2>s. Slack(d) \in Nat
      BY <2>4, SlackIs
    <2>7. /\ e \in PitT /\ (e.fresh => e.initial # 0) /\ (e.pending => e.active)
          /\ e.no = 0 /\ e.fresh /\ e.mode = "RATEGEN" => e.pending \/ (e.hnd /\ e.active)
          /\ e.cbt - pnow <= Slack(e)
          /\ e.no # 0 => ~e.pending /\ ~e.hnd /\ e.cbt = 0
          /\ ~pit.pending /\ e.pending => e.cbt >= pnow
      <3>1. CASE pit.no = 0 /\ i # 0
        <4>1. e = pit_timer_start_cntr0(d)
          BY <3>1
        <4>2. /\ e \in PitT /\ e.pending /\ e.active /\ e.initial = d.initial /\ e.fresh = d.fresh
              /\ e.no = d.no /\ e.hnd = d.hnd /\ e.cbt >= pnow /\ e.cbt - pnow <= Slack(e)
          BY <2>3, <2>4, <2>5, <2>s, <3>1, <4>1, PitStartIs
        <4> HIDE DEF e
        <4> QED BY <2>5, <2>6, <2>y, <3>1, <4>2
      <3>2. CASE pit.no = 0 /\ i = 0
        <4>1. e = d /\ ~f
          BY <2>5, <2>y, <3>2 DEF pit_timer_start_cntr0
        <4> HIDE DEF e
        <4> QED BY <2>3, <2>4, <2>5, <2>6, <2>s, <3>2, <4>1 DEF PInv
      <3>3. CASE pit.no # 0
        <4>1. e = d /\ t = pit.cbt
          BY <2>x, <3>3
        <4> HIDE DEF e
        <4> QED BY <2>3, <2>4, <2>5, <2>6, <2>s, <2>y, <3>3, <4>1 DEF PInv
      <3> QED BY <3>1, <3>2, <3>3
    <2> HIDE DEF e
    <2>8. j \in Nat /\ j # 0 /\ (e.initial # 0 => j = e.initial)
      <3>1. ByteVals * ByteVals - 1 \in Nat /\ ByteVals * ByteVals - 1 # 0
        <4>1. ByteVals \in Nat /\ ByteVals >= 2
          BY PitConstants
        <4>2. ByteVals * ByteVals >= 2 * ByteVals
          BY <4>1
        <4>3. ByteVals * ByteVals \in Nat
          BY <4>1
        <4> QED BY <4>1, <4>2, <4>3
      <3> QED BY <2>7, <3>1 DEF PitT
    <2> HIDE DEF j
    <2>9. g \in PitT
      BY <2>7, <2>8 DEF PitT
    <2>10. g.initial = j /\ g.no = e.no /\ g.mode = e.mode /\ g.cbt = e.cbt
      BY <2>7 DEF PitT
    <2>11. /\ g.pending = e.pending /\ g.active = e.active /\ g.hnd = e.hnd
           /\ g.fresh = e.fresh /\ g.early = e.early
      BY <2>7 DEF PitT
    <2> HIDE DEF g
    <2>slack. g.cbt - pnow <= Slack(g)
      <3>1. Slack(e) \in Nat /\ Slack(g) \in Nat /\ (e.initial = 0 => Slack(e) = 0) /\ e.cbt \in Nat
        BY <2>7, <2>9, SlackIs DEF PitT
      <3>2. e.initial # 0 => Slack(g) = Slack(e)
        BY <2>8, <2>10, <2>11 DEF Slack
      <3> QED BY <2>7, <2>10, <3>1, <3>2
    <2>12. PInv(g, pnow)
      BY <2>7, <2>8, <2>9, <2>10, <2>11, <2>slack DEF PInv
    <2>13. ~pit.pending /\ g.pending => g.cbt >= pnow
      BY <2>7, <2>10, <2>11
    <2> QED BY <1>1, <2>1, <2>12, <2>13 DEF AheadOfTime
  <1> QED BY <1>2, <1>3

\* Time passes.
LEMMA TickStep ==
  ASSUME pnow \in Nat, PInv(pit, pnow), PitTick
  PROVE  pnow' \in Nat /\ PInv(pit', pnow') /\ AheadOfTime
  <1>1. pit.cbt \in Nat /\ pnow' = pnow + 1 /\ pit' = pit /\ Slack(pit) \in Nat
    BY SlackIs DEF PInv, PitT, PitTick
  <1> QED BY <1>1 DEF PInv, AheadOfTime

\* The callout thread takes the callout, in time or early.
LEMMA DispatchStep ==
  ASSUME pnow \in Nat, PInv(pit, pnow), PitDispatch
  PROVE  PInv(pit', pnow') /\ AheadOfTime
  <1> DEFINE k == IF pit.cbt > pnow THEN pit.early + 1 ELSE pit.early
             e == [pit EXCEPT !.pending = FALSE, !.hnd = TRUE, !.early = k]
  <1>1. pit \in PitT /\ pnow' = pnow /\ pit' = e /\ pit.pending
    BY DEF PInv, PitDispatch
  <1>k. k \in Nat /\ (pit.cbt > pnow => k = pit.early + 1) /\ pit.cbt \in Nat
    BY <1>1 DEF PitT
  <1> HIDE DEF k
  <1>2. e \in PitT
    BY <1>1, <1>k DEF PitT
  <1>3. e.initial = pit.initial /\ e.no = pit.no /\ e.mode = pit.mode /\ e.cbt = pit.cbt
    BY <1>1 DEF PitT
  <1>4. /\ e.pending = FALSE /\ e.active = pit.active /\ e.hnd = TRUE
        /\ e.fresh = pit.fresh /\ e.early = k
    BY <1>1 DEF PitT
  <1> HIDE DEF e
  <1>s. Slack(e) \in Nat /\ (pit.cbt > pnow => Slack(e) = Slack(pit))
    <2>1. Slack(pit) = (pit.early + 1) * pit.initial /\ Slack(e) = k * pit.initial /\ Slack(e) \in Nat
      BY <1>1, <1>2, <1>3, <1>4, SlackIs
    <2> QED BY <1>k, <2>1
  <1>x. e.cbt - pnow <= Slack(e)
    <2>1. pit.cbt - pnow <= Slack(pit)
      BY DEF PInv
    <2> QED BY <1>3, <1>k, <1>s, <2>1
  <1>5. PInv(e, pnow)
    BY <1>1, <1>2, <1>3, <1>4, <1>x DEF PInv
  <1> QED BY <1>1, <1>4, <1>5 DEF AheadOfTime

\* The handler arms the rate generator for its next period.
LEMMA PitHandlerStep ==
  ASSUME pnow \in Nat, PInv(pit, pnow), vatpit_callout_handler
  PROVE  PInv(pit', pnow') /\ AheadOfTime
  <1>1. pit \in PitT /\ pnow' = pnow
    BY DEF PInv, vatpit_callout_handler
  <1>2. CASE pit.pending \/ ~pit.active
    <2> DEFINE e == [pit EXCEPT !.hnd = FALSE]
    <2>1. pit' = e
      BY <1>2 DEF vatpit_callout_handler
    <2>2. e \in PitT
      BY <1>1 DEF PitT
    <2>3. e.initial = pit.initial /\ e.no = pit.no /\ e.mode = pit.mode /\ e.cbt = pit.cbt
      BY <1>1 DEF PitT
    <2>4. /\ e.pending = pit.pending /\ e.active = pit.active /\ e.hnd = FALSE
          /\ e.fresh = pit.fresh /\ e.early = pit.early
      BY <1>1 DEF PitT
    <2> HIDE DEF e
    <2>s. Slack(e) = Slack(pit)
      BY <2>3, <2>4 DEF Slack
    <2>5. PInv(e, pnow)
      BY <1>2, <2>2, <2>3, <2>4, <2>s DEF PInv
    <2> QED BY <1>1, <2>1, <2>4, <2>5 DEF AheadOfTime
  <1>3. CASE ~(pit.pending \/ ~pit.active)
    <2> DEFINE d == [pit EXCEPT !.hnd = FALSE, !.active = FALSE]
    <2>1. pit' = IF Restarts(d) THEN pit_timer_start_cntr0(d) ELSE d
      BY <1>3 DEF vatpit_callout_handler
    <2>2. d \in PitT
      BY <1>1 DEF PitT
    <2>3. d.initial = pit.initial /\ d.no = pit.no /\ d.mode = pit.mode /\ d.cbt = pit.cbt
      BY <1>1 DEF PitT
    <2>4. d.pending = pit.pending /\ d.fresh = pit.fresh /\ d.hnd = FALSE /\ d.early = pit.early
      BY <1>1 DEF PitT
    <2> HIDE DEF d
    <2>s. Slack(d) = Slack(pit)
      BY <2>3, <2>4 DEF Slack
    <2>5. d.cbt - pnow <= Slack(d) /\ ~d.pending /\ d.no = 0
      BY <1>3, <2>3, <2>4, <2>s DEF PInv, vatpit_callout_handler
    <2>6. CASE Restarts(d) /\ d.initial # 0
      <3> DEFINE e == pit_timer_start_cntr0(d)
      <3>1. /\ e \in PitT /\ e.pending /\ e.active /\ e.initial = d.initial /\ e.fresh = d.fresh
            /\ e.no = d.no /\ e.hnd = d.hnd /\ e.cbt >= pnow /\ e.cbt - pnow <= Slack(e)
        BY <2>2, <2>5, <2>6, PitStartIs
      <3>2. pit' = e
        BY <2>1, <2>6
      <3> HIDE DEF e
      <3>3. PInv(e, pnow)
        BY <2>5, <2>6, <3>1 DEF PInv
      <3> QED BY <1>1, <3>1, <3>2, <3>3 DEF AheadOfTime
    <2>7. CASE ~(Restarts(d) /\ d.initial # 0)
      <3>1. pit' = d
        BY <2>1, <2>7 DEF pit_timer_start_cntr0
      <3>2. d.fresh => d.initial # 0
        BY <2>3, <2>4 DEF PInv
      <3>3. PInv(d, pnow)
        BY <2>2, <2>3, <2>5, <2>7, <3>2 DEF PInv, Restarts
      <3> QED BY <1>1, <2>5, <3>1, <3>3 DEF AheadOfTime
    <2> QED BY <2>6, <2>7
  <1> QED BY <1>2, <1>3

\* vatpit_init.
LEMMA PitInitially == PitInit => PitInv
  <1> SUFFICES ASSUME PitInit PROVE pnow \in Nat /\ PInv(pit, pnow)
    BY PitInvIs
  <1>1. pnow = 0
    BY DEF PitInit
  <1>2. PICK no \in {0, 2} :
       pit = [no |-> no, mode |-> "INTTC", initial |-> 0, at |-> 0, cr |-> <<>>, ol |-> <<>>,
              slatched |-> FALSE, null |-> FALSE, out |-> FALSE, frbyte |-> 0, cbt |-> 0,
              pending |-> FALSE, active |-> FALSE, hnd |-> FALSE, fresh |-> FALSE, early |-> 0]
    BY DEF PitInit
  <1>3. <<>> \in Seq(Int) /\ "INTTC" \in Modes
    BY DEF Modes
  <1>4. pit \in PitT
    BY <1>2, <1>3 DEF PitT
  <1>5. pit.pending = FALSE /\ pit.fresh = FALSE /\ pit.cbt = 0 /\ pit.hnd = FALSE
    BY <1>2
  <1>6. Slack(pit) \in Nat
    BY <1>4, SlackIs
  <1> QED BY <1>1, <1>4, <1>5, <1>6 DEF PInv

\* Every step keeps the invariant and arms ahead of time.
LEMMA PitSteps ==
  ASSUME PitInv, [PitNext]_pitvars
  PROVE  PitInv' /\ [AheadOfTime]_pitvars
  <1>1. pnow \in Nat /\ PInv(pit, pnow)
    BY PitInvIs
  <1>t. pit \in PitT
    BY <1>1 DEF PInv
  <1>2. CASE UNCHANGED pitvars
    <2>1. pnow' = pnow /\ pit' = pit
      BY <1>2 DEF pitvars
    <2> QED BY <1>1, <1>2, <2>1, PitInvIsNext
  <1>3. CASE PitNext
    <2>1. ASSUME PitTick
          PROVE  pnow' \in Nat /\ PInv(pit', pnow') /\ AheadOfTime
      BY <1>1, <2>1, TickStep
    <2>2. ASSUME PitDispatch
          PROVE  pnow' \in Nat /\ PInv(pit', pnow') /\ AheadOfTime
      BY <1>1, <2>2, DispatchStep DEF PitDispatch
    <2>3. ASSUME vatpit_callout_handler
          PROVE  pnow' \in Nat /\ PInv(pit', pnow') /\ AheadOfTime
      BY <1>1, <2>3, PitHandlerStep DEF vatpit_callout_handler
    <2>4. ASSUME LatchCommand
          PROVE  pnow' \in Nat /\ PInv(pit', pnow') /\ AheadOfTime
      BY <1>1, <1>t, <2>4, UpdateCounterIs, ReadingStep DEF LatchCommand
    <2>5. ASSUME ReadCount
          PROVE  pnow' \in Nat /\ PInv(pit', pnow') /\ AheadOfTime
      BY <1>1, <2>5, ReadStep DEF ReadCount
    <2>6. ASSUME NEW lctr \in BOOLEAN, NEW lstatus \in BOOLEAN, pit_readback1(lctr, lstatus)
          PROVE  pnow' \in Nat /\ PInv(pit', pnow') /\ AheadOfTime
      BY <1>1, <2>6, ReadbackStep DEF pit_readback1
    <2>7. ASSUME NEW mode \in Modes, vatpit_update_mode(mode)
          PROVE  pnow' \in Nat /\ PInv(pit', pnow') /\ AheadOfTime
      BY <1>1, <2>7, ModeStep DEF vatpit_update_mode
    <2>8. ASSUME NEW byte \in 0 .. ByteVals - 1, WriteCount(byte)
          PROVE  pnow' \in Nat /\ PInv(pit', pnow') /\ AheadOfTime
      <3>1. pnow' = pnow
        BY <2>8 DEF WriteCount
      <3> QED BY <1>1, <2>8, <3>1, WriteStep
    <2>9. pnow' \in Nat /\ PInv(pit', pnow') /\ AheadOfTime
      BY <1>3, <2>1, <2>2, <2>3, <2>4, <2>5, <2>6, <2>7, <2>8 DEF PitNext
    <2> QED BY <2>9, PitInvIsNext
  <1> QED BY <1>2, <1>3

\* The invariant of the PIT, for every width of a byte and every use of it.
THEOREM PitInvariant == PitSpec => []PitInv
  <1>1. PitInit => PitInv
    BY PitInitially
  <1>2. PitInv /\ [PitNext]_pitvars => PitInv'
    BY PitSteps
  <1> QED BY <1>1, <1>2, PTL DEF PitSpec

-----------------------------------------------------------------------------
(* The RTC.                                                                *)

Causes == {"PERIOD", "ALARM", "UPDATE"}

RtcT ==
  [div : BOOLEAN, rate : Rates, halt : BOOLEAN, pie : BOOLEAN, aie : BOOLEAN,
   uie : BOOLEAN, base : Nat \cup {Broken}, upt : Nat, c : SUBSET Causes, irqf : BOOLEAN,
   fld : Nat \cup {Broken}, alarm : Nat \cup {Broken}, pending : BOOLEAN,
   active : BOOLEAN, cbt : Nat, hnd : BOOLEAN, err : BOOLEAN]

\* The registers that choose the frequency, and the state of the callout.
SameRegs(s, r) ==
  /\ r.div = s.div /\ r.rate = s.rate /\ r.halt = s.halt
  /\ r.pie = s.pie /\ r.aie = s.aie /\ r.uie = s.uie /\ r.err = s.err
SameCallout(s, r) == r.pending = s.pending /\ r.active = s.active /\ r.hnd = s.hnd

Signalled(s) == s.c \cap Enabled(s) # {} => s.irqf
Matches(s) ==
  /\ s.active <=> vrtc_freq(s) # 0
  /\ s.active => s.pending \/ s.hnd
Clock(s, time) == s.upt <= time /\ (~s.halt => s.base # Broken)

RInv(s, time) ==
  /\ s \in RtcT /\ s.upt <= time
  /\ ~s.err => Matches(s) /\ Signalled(s) /\ Clock(s, time)

\* RtcInv in terms of these.
LEMMA RInvIs == RtcInv <=> rnow \in Nat /\ RInv(rtc, rnow)
  <1>1. RtcTypeOK <=> rnow \in Nat /\ rtc \in RtcT
    BY DEF RtcTypeOK, RtcT, Causes
  <1> QED BY <1>1 DEF RtcInv, RInv, Matches, Signalled, Clock, CalloutMatchesFreq, FlaggedIsSignalled

\* The same of the state after a step.
LEMMA RInvIsNext == RtcInv' <=> rnow' \in Nat /\ RInv(rtc', rnow')
  <1>1. RtcTypeOK' <=> rnow' \in Nat /\ rtc' \in RtcT
    BY DEF RtcTypeOK, RtcT, Causes
  <1>2. CalloutMatchesFreq' <=> (~rtc'.err => Matches(rtc'))
    BY DEF CalloutMatchesFreq, Matches, vrtc_freq, update_enabled
  <1>3. FlaggedIsSignalled' <=> (~rtc'.err => Signalled(rtc'))
    BY DEF FlaggedIsSignalled, Signalled, Enabled
  <1> QED BY <1>1, <1>2, <1>3 DEF RtcInv, RInv, Clock

\* The frequency depends on those registers and on whether the time is known.
LEMMA SameFreq ==
  ASSUME NEW s, NEW r, SameRegs(s, r), r.base = Broken <=> s.base = Broken
  PROVE  vrtc_freq(r) = vrtc_freq(s)
  <1>1. update_enabled(r) <=> update_enabled(s)
    BY DEF SameRegs, update_enabled
  <1> QED BY <1>1 DEF SameRegs, vrtc_freq

\* The enabled conditions are those of register B.
LEMMA SameEnabled ==
  ASSUME NEW s, NEW r, r.pie = s.pie, r.aie = s.aie, r.uie = s.uie
  PROVE  Enabled(r) = Enabled(s)
  BY DEF Enabled

\* Register C.
LEMMA SetCIs ==
  ASSUME NEW s \in RtcT, NEW c \in SUBSET Causes
  PROVE  LET r == vrtc_set_reg_c(s, c)
         IN /\ r \in RtcT /\ SameRegs(s, r) /\ SameCallout(s, r)
            /\ r.upt = s.upt /\ r.base = s.base /\ Signalled(r)
  <1> DEFINE f == c \cap Enabled(s) # {}
             r == [s EXCEPT !.c = c, !.irqf = f]
  <1>1. f \in BOOLEAN /\ vrtc_set_reg_c(s, c) = r
    BY DEF vrtc_set_reg_c
  <1> HIDE DEF f
  <1>2. r \in RtcT
    BY <1>1 DEF RtcT
  <1>3. SameRegs(s, r)
    BY DEF RtcT, SameRegs
  <1>4. SameCallout(s, r) /\ r.upt = s.upt /\ r.base = s.base
    BY DEF RtcT, SameCallout
  <1>5. r.c = c /\ r.irqf = f
    BY <1>1 DEF RtcT
  <1> HIDE DEF r
  <1>6. Enabled(r) = Enabled(s)
    BY <1>3, SameEnabled DEF SameRegs
  <1>7. Signalled(r)
    BY <1>5, <1>6 DEF Signalled, f
  <1> QED BY <1>1, <1>2, <1>3, <1>4, <1>7

\* A condition that occurs.
LEMMA FlagIs ==
  ASSUME NEW s \in RtcT, NEW i \in Causes
  PROVE  LET r == Flag(s, i)
         IN /\ r \in RtcT /\ SameRegs(s, r) /\ SameCallout(s, r)
            /\ r.upt = s.upt /\ r.base = s.base /\ Signalled(r)
  <1>1. s.c \cup {i} \in SUBSET Causes
    BY DEF RtcT
  <1> QED BY <1>1, SetCIs DEF Flag

\* The fields.
LEMMA SecsIs ==
  ASSUME NEW s \in RtcT, NEW time, NEW force, rnow \in Nat
  PROVE  LET r == secs_to_rtc(s, time, force)
         IN /\ r \in RtcT /\ SameRegs(s, r) /\ SameCallout(s, r)
            /\ r.upt = s.upt /\ r.base = s.base /\ r.c = s.c /\ r.irqf = s.irqf
  <1> DEFINE e == [s EXCEPT !.fld = rnow]
             r == secs_to_rtc(s, time, force)
  <1>1. r = s \/ r = e
    BY DEF secs_to_rtc
  <1>2. e \in RtcT
    BY DEF RtcT
  <1>3. SameRegs(s, e)
    BY DEF RtcT, SameRegs
  <1>4. SameCallout(s, e) /\ e.upt = s.upt /\ e.base = s.base /\ e.c = s.c /\ e.irqf = s.irqf
    BY DEF RtcT, SameCallout
  <1>5. SameRegs(s, s) /\ SameCallout(s, s)
    BY DEF SameRegs, SameCallout
  <1> HIDE DEF e, r
  <1>6. /\ r \in RtcT /\ SameRegs(s, r) /\ SameCallout(s, r)
        /\ r.upt = s.upt /\ r.base = s.base /\ r.c = s.c /\ r.irqf = s.irqf
    BY <1>1, <1>2, <1>3, <1>4, <1>5
  <1> QED BY <1>6 DEF r

\* What stays signalled.
LEMMA StaysSignalled ==
  ASSUME NEW s, NEW r, Signalled(s), r.c = s.c, r.irqf = s.irqf, Enabled(r) \subseteq Enabled(s)
  PROVE  Signalled(r)
  BY DEF Signalled

\* Composition.
LEMMA SameTwice ==
  ASSUME NEW s, NEW r, NEW u, SameRegs(s, r), SameCallout(s, r), SameRegs(r, u), SameCallout(r, u)
  PROVE  SameRegs(s, u) /\ SameCallout(s, u)
  BY DEF SameRegs, SameCallout

\* vrtc_time_update.
LEMMA TimeUpdateIs ==
  ASSUME NEW s \in RtcT, NEW newtime \in Nat \cup {Broken}, NEW newbase \in Nat, rnow \in Nat
  PROVE  LET r == vrtc_time_update(s, newtime, newbase)
         IN /\ r \in RtcT /\ SameRegs(s, r) /\ SameCallout(s, r)
            /\ r.upt = newbase
            /\ r.base = IF newtime # Broken /\ s.halt THEN s.base ELSE newtime
            /\ Signalled(s) => Signalled(r)
  <1> DEFINE s0 == [s EXCEPT !.upt = newbase]
             s1 == [s0 EXCEPT !.base = newtime]
             s2 == IF s.aie THEN secs_to_rtc(s1, newtime, FALSE) ELSE s1
             s3 == IF s.aie /\ s2.alarm = s2.fld THEN Flag(s2, "ALARM") ELSE s2
             s4 == IF s.uie THEN Flag(s3, "UPDATE") ELSE s3
             r == vrtc_time_update(s, newtime, newbase)
             Ok(u) == /\ u \in RtcT /\ SameRegs(s, u) /\ SameCallout(s, u) /\ u.upt = newbase
                      /\ Signalled(s) => Signalled(u)
  <1>1. r = IF newtime = s.base THEN s0
            ELSE IF newtime = Broken THEN s1
            ELSE IF s.halt THEN s0 ELSE s4
    BY DEF vrtc_time_update
  <1>2. Ok(s0) /\ s0.base = s.base
    <2>1. s0 \in RtcT
      BY DEF RtcT
    <2>2. SameRegs(s, s0)
      BY DEF RtcT, SameRegs
    <2>3. SameCallout(s, s0) /\ s0.upt = newbase /\ s0.base = s.base /\ s0.c = s.c /\ s0.irqf = s.irqf
      BY DEF RtcT, SameCallout
    <2> HIDE DEF s0
    <2>4. Enabled(s0) = Enabled(s)
      BY <2>2, SameEnabled DEF SameRegs
    <2> QED BY <2>1, <2>2, <2>3, <2>4, StaysSignalled
  <1>3. Ok(s1) /\ s1.base = newtime
    <2>0. s0 \in RtcT
      BY <1>2
    <2> HIDE DEF s0
    <2>1. s1 \in RtcT
      BY <2>0 DEF RtcT
    <2>2. SameRegs(s0, s1)
      BY <2>0 DEF RtcT, SameRegs
    <2>3. /\ SameCallout(s0, s1) /\ s1.upt = s0.upt /\ s1.base = newtime
          /\ s1.c = s0.c /\ s1.irqf = s0.irqf
      BY <2>0 DEF RtcT, SameCallout
    <2> HIDE DEF s1
    <2>4. Enabled(s1) = Enabled(s0)
      BY <2>2, SameEnabled DEF SameRegs
    <2>5. SameRegs(s, s1) /\ SameCallout(s, s1)
      BY <1>2, <2>2, <2>3, SameTwice
    <2>6. Signalled(s) => Signalled(s1)
      BY <1>2, <2>3, <2>4, StaysSignalled
    <2> QED BY <1>2, <2>1, <2>3, <2>5, <2>6
  <1> HIDE DEF s0, s1
  <1>4. Ok(s2) /\ s2.base = newtime
    <2>1. CASE ~s.aie
      BY <1>3, <2>1
    <2>2. CASE s.aie
      <3>1. s1 \in RtcT
        BY <1>3
      <3>2. /\ s2 \in RtcT /\ SameRegs(s1, s2) /\ SameCallout(s1, s2)
            /\ s2.upt = s1.upt /\ s2.base = s1.base /\ s2.c = s1.c /\ s2.irqf = s1.irqf
        BY ZenonT(60), <2>2, <3>1, SecsIs
      <3> HIDE DEF s2
      <3>3. Enabled(s2) = Enabled(s1)
        BY <3>2, SameEnabled DEF SameRegs
      <3>4. SameRegs(s, s2) /\ SameCallout(s, s2)
        BY <1>3, <3>2, SameTwice
      <3>5. Signalled(s) => Signalled(s2)
        BY <1>3, <3>2, <3>3, StaysSignalled
      <3> QED BY <1>3, <3>2, <3>4, <3>5
    <2> QED BY <2>1, <2>2
  <1> HIDE DEF s2
  <1>5. Ok(s3) /\ s3.base = newtime
    <2>1. CASE ~(s.aie /\ s2.alarm = s2.fld)
      BY <1>4, <2>1
    <2>2. CASE s.aie /\ s2.alarm = s2.fld
      <3>1. s2 \in RtcT /\ "ALARM" \in Causes
        BY <1>4 DEF Causes
      <3>2. /\ s3 \in RtcT /\ SameRegs(s2, s3) /\ SameCallout(s2, s3)
            /\ s3.upt = s2.upt /\ s3.base = s2.base /\ Signalled(s3)
        BY <2>2, <3>1, FlagIs
      <3> HIDE DEF s3
      <3>3. SameRegs(s, s3) /\ SameCallout(s, s3)
        BY <1>4, <3>2, SameTwice
      <3> QED BY <1>4, <3>2, <3>3
    <2> QED BY <2>1, <2>2
  <1> HIDE DEF s3
  <1>6. Ok(s4) /\ s4.base = newtime
    <2>1. CASE ~s.uie
      BY <1>5, <2>1
    <2>2. CASE s.uie
      <3>1. s3 \in RtcT /\ "UPDATE" \in Causes
        BY <1>5 DEF Causes
      <3>2. /\ s4 \in RtcT /\ SameRegs(s3, s4) /\ SameCallout(s3, s4)
            /\ s4.upt = s3.upt /\ s4.base = s3.base /\ Signalled(s4)
        BY <2>2, <3>1, FlagIs
      <3> HIDE DEF s4
      <3>3. SameRegs(s, s4) /\ SameCallout(s, s4)
        BY <1>5, <3>2, SameTwice
      <3> QED BY <1>5, <3>2, <3>3
    <2> QED BY <2>1, <2>2
  <1> HIDE DEF s4, r, Ok
  <1>7. Ok(r) /\ r.base = IF newtime # Broken /\ s.halt THEN s.base ELSE newtime
    BY <1>1, <1>2, <1>3, <1>6
  <1> QED BY <1>7 DEF Ok, r

\* The time a clock that is not broken shows is not broken.
LEMMA CurtimeIs ==
  ASSUME NEW s \in RtcT, rnow \in Nat, s.upt <= rnow
  PROVE  /\ vrtc_curtime(s) \in Nat \cup {Broken}
         /\ vrtc_curtime(s) = Broken <=> s.base = Broken
         /\ Basetime(s) \in Nat /\ Basetime(s) <= rnow
         /\ s.halt => vrtc_curtime(s) = s.base /\ Basetime(s) = s.upt
  <1>1. s.base \in Nat \cup {Broken} /\ s.upt \in Nat
    BY DEF RtcT
  <1>2. CASE update_enabled(s)
    <2>1. s.base # Broken /\ ~s.halt
      BY <1>2 DEF update_enabled
    <2>2. s.base + (rnow - s.upt) \in Nat
      BY <1>1, <2>1
    <2> QED BY <1>1, <1>2, <2>1, <2>2 DEF vrtc_curtime, Basetime, Broken
  <1>3. CASE ~update_enabled(s)
    BY <1>1, <1>3 DEF vrtc_curtime, Basetime
  <1> QED BY <1>2, <1>3

\* r is s, with the time brought up to date.
Updated(s, r) ==
  /\ r \in RtcT /\ SameRegs(s, r) /\ SameCallout(s, r)
  /\ r.upt <= rnow
  /\ r.base = Broken <=> s.base = Broken
  /\ Signalled(s) => Signalled(r)

\* Bringing the time up to date keeps the invariant.
LEMMA UpdatedInv ==
  ASSUME NEW s, NEW r, RInv(s, rnow), Updated(s, r)
  PROVE  RInv(r, rnow)
  <1>1. r.err = s.err /\ r.halt = s.halt
    BY DEF Updated, SameRegs
  <1>2. vrtc_freq(r) = vrtc_freq(s)
    BY SameFreq DEF Updated
  <1>3. Matches(s) => Matches(r)
    BY <1>2 DEF Matches, Updated, SameCallout
  <1>4. Clock(s, rnow) => Clock(r, rnow)
    BY <1>1 DEF Clock, Updated
  <1> QED BY <1>1, <1>3, <1>4 DEF RInv, Updated

\* Every access brings the time up to date.
LEMMA UpToDate ==
  ASSUME NEW s \in RtcT, rnow \in Nat, s.upt <= rnow
  PROVE  Updated(s, vrtc_time_update(s, vrtc_curtime(s), Basetime(s)))
  <1> DEFINE t == vrtc_curtime(s)
             b == Basetime(s)
             r == vrtc_time_update(s, t, b)
  <1>1. /\ t \in Nat \cup {Broken} /\ b \in Nat /\ b <= rnow
        /\ t = Broken <=> s.base = Broken
    BY CurtimeIs
  <1> HIDE DEF t, b
  <1>2. /\ r \in RtcT /\ SameRegs(s, r) /\ SameCallout(s, r)
        /\ r.upt = b
        /\ r.base = IF t # Broken /\ s.halt THEN s.base ELSE t
        /\ Signalled(s) => Signalled(r)
    BY <1>1, TimeUpdateIs
  <1> HIDE DEF r
  <1>3. Updated(s, r)
    BY <1>1, <1>2 DEF Updated
  <1> QED BY <1>3 DEF r, t, b

\* So does filling the fields.
LEMMA FieldsUpToDate ==
  ASSUME NEW s \in RtcT, NEW r, rnow \in Nat, NEW time, NEW force, Updated(s, r)
  PROVE  Updated(s, secs_to_rtc(r, time, force))
  <1> DEFINE u == secs_to_rtc(r, time, force)
  <1>1. r \in RtcT
    BY DEF Updated
  <1>2. /\ u \in RtcT /\ SameRegs(r, u) /\ SameCallout(r, u)
        /\ u.upt = r.upt /\ u.base = r.base /\ u.c = r.c /\ u.irqf = r.irqf
    BY <1>1, SecsIs
  <1> HIDE DEF u
  <1>3. Enabled(u) = Enabled(r)
    BY <1>2, SameEnabled DEF SameRegs
  <1>4. SameRegs(s, u) /\ SameCallout(s, u)
    BY <1>2, SameTwice DEF Updated
  <1>5. Signalled(s) => Signalled(u)
    BY <1>2, <1>3, StaysSignalled DEF Updated
  <1>6. Updated(s, u)
    BY <1>2, <1>4, <1>5 DEF Updated
  <1> QED BY <1>6 DEF u

\* What every access starts from.
LEMMA CurrentIs ==
  ASSUME rnow \in Nat, RInv(rtc, rnow)
  PROVE  /\ Updated(rtc, Current) /\ RInv(Current, rnow)
         /\ Updated(rtc, CurrentFields) /\ RInv(CurrentFields, rnow)
         /\ Current.err = rtc.err /\ CurrentFields.err = rtc.err
  <1>1. rtc \in RtcT /\ rtc.upt <= rnow
    BY DEF RInv
  <1>2. Updated(rtc, Current)
    BY <1>1, UpToDate DEF Current
  <1>3. Updated(rtc, CurrentFields)
    BY <1>1, <1>2, FieldsUpToDate DEF CurrentFields
  <1>4. Current.err = rtc.err /\ CurrentFields.err = rtc.err
    BY <1>2, <1>3 DEF Updated, SameRegs
  <1> QED BY <1>2, <1>3, <1>4, UpdatedInv

\* A frequency that is not 0 is a rate or one second.
LEMMA CalloutResetIs ==
  ASSUME NEW s \in RtcT, NEW freq, rnow \in Nat
  PROVE  LET r == vrtc_callout_reset(s, freq)
         IN /\ r \in RtcT /\ SameRegs(s, r) /\ r.hnd = s.hnd
            /\ r.upt = s.upt /\ r.base = s.base /\ r.c = s.c /\ r.irqf = s.irqf
            /\ r.active <=> freq # 0
            /\ r.active => r.pending
  <1> DEFINE r == vrtc_callout_reset(s, freq)
             Ok(u) == /\ u \in RtcT /\ SameRegs(s, u) /\ u.hnd = s.hnd
                      /\ u.upt = s.upt /\ u.base = s.base /\ u.c = s.c /\ u.irqf = s.irqf
  <1>1. CASE freq = 0
    <2> DEFINE e == [s EXCEPT !.pending = FALSE, !.active = FALSE]
    <2>1. r = e
      BY <1>1 DEF vrtc_callout_reset
    <2>2. e \in RtcT
      BY DEF RtcT
    <2>3. SameRegs(s, e)
      BY DEF RtcT, SameRegs
    <2>4. /\ e.hnd = s.hnd /\ e.upt = s.upt /\ e.base = s.base /\ e.c = s.c /\ e.irqf = s.irqf
          /\ e.active = FALSE
      BY DEF RtcT
    <2> HIDE DEF e, r
    <2> QED BY <1>1, <2>1, <2>2, <2>3, <2>4 DEF r
  <1>2. CASE freq # 0
    <2> DEFINE k == IF freq = OneSecond THEN rnow + 1 ELSE rnow
               e == [s EXCEPT !.pending = TRUE, !.active = TRUE, !.cbt = k]
    <2>1. r = e
      BY <1>2 DEF vrtc_callout_reset
    <2>k. k \in Nat
      OBVIOUS
    <2> HIDE DEF k
    <2>2. e \in RtcT
      BY <2>k DEF RtcT
    <2>3. SameRegs(s, e)
      BY DEF RtcT, SameRegs
    <2>4. /\ e.hnd = s.hnd /\ e.upt = s.upt /\ e.base = s.base /\ e.c = s.c /\ e.irqf = s.irqf
          /\ e.active = TRUE /\ e.pending = TRUE
      BY DEF RtcT
    <2> HIDE DEF e, r
    <2> QED BY <1>2, <2>1, <2>2, <2>3, <2>4 DEF r
  <1> QED BY <1>1, <1>2

\* The callout of s is the one of the old frequency.
LEMMA NewFreqInv ==
  ASSUME NEW s \in RtcT, NEW oldfreq, rnow \in Nat, s.upt <= rnow,
         s.active <=> oldfreq # 0,
         s.active => s.pending \/ s.hnd,
         Signalled(s), ~s.halt => s.base # Broken
  PROVE  RInv(NewFreq(s, oldfreq), rnow)
  <1>1. CASE vrtc_freq(s) = oldfreq
    <2>1. NewFreq(s, oldfreq) = s
      BY <1>1 DEF NewFreq
    <2>2. Matches(s)
      BY <1>1 DEF Matches
    <2> QED BY <2>1, <2>2 DEF RInv, Clock
  <1>2. CASE vrtc_freq(s) # oldfreq
    <2> DEFINE f == vrtc_freq(s)
               r == vrtc_callout_reset(s, f)
    <2>1. NewFreq(s, oldfreq) = r
      BY <1>2 DEF NewFreq
    <2> HIDE DEF f
    <2>2. /\ r \in RtcT /\ SameRegs(s, r) /\ r.hnd = s.hnd
          /\ r.upt = s.upt /\ r.base = s.base /\ r.c = s.c /\ r.irqf = s.irqf
          /\ r.active <=> f # 0
          /\ r.active => r.pending
      BY CalloutResetIs
    <2> HIDE DEF r
    <2>3. vrtc_freq(r) = f
      BY <2>2, SameFreq DEF f
    <2>4. Enabled(r) = Enabled(s)
      BY <2>2, SameEnabled DEF SameRegs
    <2>5. Matches(r) /\ Signalled(r)
      BY <2>2, <2>3, <2>4, StaysSignalled DEF Matches
    <2>6. Clock(r, rnow)
      BY <2>2 DEF Clock, SameRegs
    <2> QED BY <2>1, <2>2, <2>5, <2>6 DEF RInv
  <1> QED BY <1>1, <1>2

\* Register A.
LEMMA SetAInv ==
  ASSUME NEW s, NEW div \in BOOLEAN, NEW rate \in Rates, rnow \in Nat, RInv(s, rnow), ~s.err
  PROVE  RInv(vrtc_set_reg_a(s, div, rate), rnow)
  <1> DEFINE b == IF div /\ ~s.div THEN rnow ELSE s.upt
             e == [s EXCEPT !.div = div, !.rate = rate, !.upt = b]
  <1>1. s \in RtcT /\ s.upt <= rnow /\ Matches(s) /\ Signalled(s) /\ (~s.halt => s.base # Broken)
    BY DEF RInv, Clock
  <1>2. vrtc_set_reg_a(s, div, rate) = NewFreq(e, vrtc_freq(s))
    BY DEF vrtc_set_reg_a
  <1>3. b \in Nat /\ b <= rnow
    BY <1>1 DEF RtcT
  <1> HIDE DEF b
  <1>4. e \in RtcT
    BY <1>1, <1>3 DEF RtcT
  <1>5. /\ e.upt = b /\ e.active = s.active /\ e.pending = s.pending /\ e.hnd = s.hnd
    BY <1>1 DEF RtcT
  <1>6. e.pie = s.pie /\ e.aie = s.aie /\ e.uie = s.uie /\ e.c = s.c /\ e.irqf = s.irqf
    BY <1>1 DEF RtcT
  <1>7. e.halt = s.halt /\ e.base = s.base
    BY <1>1 DEF RtcT
  <1> HIDE DEF e
  <1>8. Enabled(e) = Enabled(s)
    BY <1>6, SameEnabled
  <1>9. Signalled(e)
    BY <1>1, <1>6, <1>8, StaysSignalled
  <1>10. /\ e.active <=> vrtc_freq(s) # 0
         /\ e.active => e.pending \/ e.hnd
    BY <1>1, <1>5 DEF Matches
  <1>11. RInv(NewFreq(e, vrtc_freq(s)), rnow)
    BY <1>1, <1>3, <1>4, <1>5, <1>7, <1>9, <1>10, NewFreqInv
  <1> QED BY <1>2, <1>11

\* Register B before the frequency is looked at.
SetB(s, halt, pie, aie, uie) == [s EXCEPT !.halt = halt, !.pie = pie, !.aie = aie, !.uie = uie]

\* Register B and nothing else.
LEMMA SetBIs ==
  ASSUME NEW s \in RtcT, NEW halt \in BOOLEAN, NEW pie \in BOOLEAN, NEW aie \in BOOLEAN,
         NEW uie \in BOOLEAN
  PROVE  LET r == SetB(s, halt, pie, aie, uie)
         IN /\ r \in RtcT /\ SameCallout(s, r) /\ r.upt = s.upt /\ r.base = s.base
            /\ r.c = s.c /\ r.irqf = s.irqf /\ r.fld = s.fld /\ r.err = s.err
            /\ r.halt = halt /\ r.pie = pie /\ r.aie = aie /\ r.uie = uie
  <1> DEFINE r == [s EXCEPT !.halt = halt, !.pie = pie, !.aie = aie, !.uie = uie]
  <1>1. r \in RtcT
    BY DEF RtcT
  <1>2. SameCallout(s, r) /\ r.upt = s.upt /\ r.base = s.base
    BY DEF RtcT, SameCallout
  <1>3. r.c = s.c /\ r.irqf = s.irqf /\ r.fld = s.fld /\ r.err = s.err
    BY DEF RtcT
  <1>4. r.halt = halt /\ r.pie = pie /\ r.aie = aie /\ r.uie = uie
    BY DEF RtcT
  <1> HIDE DEF r
  <1> QED BY <1>1, <1>2, <1>3, <1>4 DEF SetB, r

\* Register B: halting the clock makes the time unknown, starting it again takes the
\* time of the fields or fails.
LEMMA SetBInv ==
  ASSUME NEW s, NEW halt \in BOOLEAN, NEW pie \in BOOLEAN, NEW aie \in BOOLEAN,
         NEW uie \in BOOLEAN, rnow \in Nat, RInv(s, rnow), ~s.err
  PROVE  RInv(vrtc_set_reg_b(s, halt, pie, aie, uie), rnow)
  <1> DEFINE s1 == SetB(s, halt, pie, aie, uie)
             x == secs_to_rtc(s1, vrtc_curtime(s1), TRUE)
             halted == [x EXCEPT !.uie = FALSE]
             s2 == IF halt = s.halt THEN s1
                   ELSE IF halt THEN vrtc_time_update(halted, Broken, Basetime(s1))
                   ELSE vrtc_time_update(s1, rtc_to_secs(s1), rnow)
             s3 == IF IntrsChanged(s, pie, aie, uie) THEN vrtc_set_reg_c(s2, s2.c) ELSE s2
             bad == halt # s.halt /\ ~halt /\ rtc_to_secs(s1) = Broken
             \* What every branch leaves.
             Ok(u) == /\ u \in RtcT /\ SameCallout(s, u) /\ u.upt <= rnow
                      /\ ~u.halt => u.base # Broken
                      /\ ~IntrsChanged(s, pie, aie, uie) => Signalled(u)
  <1>1. vrtc_set_reg_b(s, halt, pie, aie, uie)
          = IF bad THEN [s1 EXCEPT !.err = TRUE] ELSE NewFreq(s3, vrtc_freq(s))
    BY DEF vrtc_set_reg_b, SetB
  <1>2. /\ s \in RtcT /\ s.upt <= rnow /\ Matches(s) /\ Signalled(s)
        /\ ~s.halt => s.base # Broken
    BY DEF RInv, Clock
  <1>3. /\ s1 \in RtcT /\ SameCallout(s, s1) /\ s1.upt = s.upt /\ s1.base = s.base
        /\ s1.c = s.c /\ s1.irqf = s.irqf /\ s1.fld = s.fld /\ s1.err = s.err
        /\ s1.halt = halt /\ s1.pie = pie /\ s1.aie = aie /\ s1.uie = uie
    BY <1>2, SetBIs
  <1> HIDE DEF s1
  <1>4. ~IntrsChanged(s, pie, aie, uie) => Enabled(s1) = Enabled(s)
    BY <1>3, SameEnabled DEF IntrsChanged
  <1>5. ~IntrsChanged(s, pie, aie, uie) => Signalled(s1)
    BY <1>2, <1>3, <1>4, StaysSignalled
  <1>6. CASE bad
    <2> DEFINE e == [s1 EXCEPT !.err = TRUE]
    <2>1. e \in RtcT
      BY <1>3 DEF RtcT
    <2>2. e.err = TRUE /\ e.upt = s1.upt
      BY <1>3 DEF RtcT
    <2> HIDE DEF e
    <2>3. RInv(e, rnow)
      BY <1>2, <1>3, <2>1, <2>2 DEF RInv
    <2> QED BY <1>1, <1>6, <2>3 DEF e
  <1>7. CASE ~bad
    <2>1. Ok(s2)
      <3>1. CASE halt = s.halt
        BY <1>2, <1>3, <1>5, <3>1
      <3>2. CASE halt # s.halt /\ halt
        <4> DEFINE b == Basetime(s1)
        <4>1. b \in Nat /\ b <= rnow
          BY <1>2, <1>3, CurtimeIs
        <4>2. /\ x \in RtcT /\ SameRegs(s1, x) /\ SameCallout(s1, x)
              /\ x.c = s1.c /\ x.irqf = s1.irqf
          BY ZenonT(60), <1>3, SecsIs
        <4> HIDE DEF x, b
        <4>3. halted \in RtcT
          BY <4>2 DEF RtcT
        <4>4. SameCallout(x, halted) /\ halted.c = x.c /\ halted.irqf = x.irqf
          BY <4>2 DEF RtcT, SameCallout
        <4>5. halted.halt = x.halt /\ halted.pie = x.pie /\ halted.aie = x.aie /\ halted.uie = FALSE
          BY <4>2 DEF RtcT
        <4> HIDE DEF halted
        <4>6. SameCallout(s, halted)
          BY <1>3, <4>2, <4>4 DEF SameCallout
        <4>7. Enabled(halted) \subseteq Enabled(s1)
          BY <4>2, <4>5 DEF SameRegs, Enabled
        <4>8. ~IntrsChanged(s, pie, aie, uie) => Signalled(halted)
          BY <1>5, <4>2, <4>4, <4>7, StaysSignalled
        <4>9. halted.halt
          BY <1>3, <3>2, <4>2, <4>5 DEF SameRegs
        <4> DEFINE r == vrtc_time_update(halted, Broken, b)
        <4>10. Broken \in Nat \cup {Broken}
          OBVIOUS
        <4>11. /\ r \in RtcT /\ SameRegs(halted, r) /\ SameCallout(halted, r)
               /\ r.upt = b
               /\ Signalled(halted) => Signalled(r)
          BY <4>1, <4>3, <4>10, TimeUpdateIs
        <4> HIDE DEF r
        <4>12. SameCallout(s, r) /\ r.halt
          BY <4>6, <4>9, <4>11 DEF SameCallout, SameRegs
        <4>13. Ok(r)
          BY <4>1, <4>8, <4>11, <4>12
        <4> HIDE DEF Ok
        <4>14. s2 = r
          BY <3>2 DEF r, b
        <4> QED BY <4>13, <4>14
      <3>3. CASE halt # s.halt /\ ~halt
        <4> DEFINE t == rtc_to_secs(s1)
                   r == vrtc_time_update(s1, t, rnow)
        <4>1. t \in Nat \cup {Broken} /\ t # Broken
          BY <1>3, <1>7, <3>3 DEF rtc_to_secs, RtcT
        <4>2. ~s1.halt
          BY <1>3, <3>3
        <4> HIDE DEF t
        <4>3. /\ r \in RtcT /\ SameRegs(s1, r) /\ SameCallout(s1, r)
              /\ r.upt = rnow
              /\ r.base = IF t # Broken /\ s1.halt THEN s1.base ELSE t
              /\ Signalled(s1) => Signalled(r)
          BY <1>3, <4>1, TimeUpdateIs
        <4> HIDE DEF r
        <4>4. SameCallout(s, r)
          BY <1>3, <4>3 DEF SameCallout
        <4>5. Ok(r)
          BY <1>5, <4>1, <4>2, <4>3, <4>4
        <4> HIDE DEF Ok
        <4>6. s2 = r
          BY <3>3 DEF r, t
        <4> QED BY <4>5, <4>6
      <3> QED BY <3>1, <3>2, <3>3
    <2> HIDE DEF s2
    <2>2. Ok(s3) /\ Signalled(s3)
      <3>1. CASE ~IntrsChanged(s, pie, aie, uie)
        BY <2>1, <3>1
      <3>2. CASE IntrsChanged(s, pie, aie, uie)
        <4>1. s2.c \in SUBSET Causes
          BY <2>1 DEF RtcT
        <4>2. /\ s3 \in RtcT /\ SameRegs(s2, s3) /\ SameCallout(s2, s3)
              /\ s3.upt = s2.upt /\ s3.base = s2.base /\ Signalled(s3)
          BY <2>1, <3>2, <4>1, SetCIs
        <4> HIDE DEF s3
        <4>3. SameCallout(s, s3) /\ s3.halt = s2.halt
          BY <2>1, <4>2 DEF SameCallout, SameRegs
        <4> QED BY <2>1, <4>2, <4>3
      <3> QED BY <3>1, <3>2
    <2> HIDE DEF s3
    <2>3. /\ s3.active <=> vrtc_freq(s) # 0
          /\ s3.active => s3.pending \/ s3.hnd
      BY <1>2, <2>2 DEF Matches, SameCallout
    <2>4. RInv(NewFreq(s3, vrtc_freq(s)), rnow)
      BY <2>2, <2>3, NewFreqInv
    <2> QED BY <1>1, <1>7, <2>4
  <1> QED BY <1>6, <1>7

\* Register C.
LEMMA SetCInv ==
  ASSUME NEW s, NEW c \in SUBSET Causes, RInv(s, rnow)
  PROVE  RInv(vrtc_set_reg_c(s, c), rnow)
  <1> DEFINE r == vrtc_set_reg_c(s, c)
  <1>1. s \in RtcT /\ s.upt <= rnow
    BY DEF RInv
  <1>2. /\ r \in RtcT /\ SameRegs(s, r) /\ SameCallout(s, r)
        /\ r.upt = s.upt /\ r.base = s.base /\ Signalled(r)
    BY <1>1, SetCIs
  <1> HIDE DEF r
  <1>3. Updated(s, r)
    BY <1>1, <1>2 DEF Updated
  <1>4. RInv(r, rnow)
    BY <1>3, UpdatedInv
  <1> QED BY <1>4 DEF r

-----------------------------------------------------------------------------

\* A field or the alarm.
LEMMA FieldInv ==
  ASSUME NEW s, NEW t \in Nat \cup {Broken}, RInv(s, rnow)
  PROVE  /\ RInv([s EXCEPT !.fld = t], rnow) /\ RInv([s EXCEPT !.alarm = t], rnow)
         /\ [s EXCEPT !.fld = t].halt = s.halt /\ [s EXCEPT !.fld = t].base = s.base
         /\ [s EXCEPT !.fld = t].err = s.err /\ [s EXCEPT !.fld = t].fld = t
  <1> DEFINE e == [s EXCEPT !.fld = t]
             a == [s EXCEPT !.alarm = t]
  <1>1. s \in RtcT /\ s.upt <= rnow
    BY DEF RInv
  <1>2. e \in RtcT /\ a \in RtcT
    BY <1>1 DEF RtcT
  <1>3. SameRegs(s, e) /\ SameRegs(s, a)
    BY <1>1 DEF RtcT, SameRegs
  <1>4. /\ SameCallout(s, e) /\ e.upt = s.upt /\ e.base = s.base /\ e.c = s.c /\ e.irqf = s.irqf
        /\ e.fld = t
    BY <1>1 DEF RtcT, SameCallout
  <1>5. SameCallout(s, a) /\ a.upt = s.upt /\ a.base = s.base /\ a.c = s.c /\ a.irqf = s.irqf
    BY <1>1 DEF RtcT, SameCallout
  <1> HIDE DEF e, a
  <1>6. Enabled(e) = Enabled(s) /\ Enabled(a) = Enabled(s)
    BY <1>3, SameEnabled DEF SameRegs
  <1>7. (Signalled(s) => Signalled(e)) /\ (Signalled(s) => Signalled(a))
    BY <1>4, <1>5, <1>6, StaysSignalled
  <1>8. Updated(s, e) /\ Updated(s, a)
    BY <1>1, <1>2, <1>3, <1>4, <1>5, <1>7 DEF Updated
  <1>9. RInv(e, rnow) /\ RInv(a, rnow)
    BY <1>8, UpdatedInv
  <1> QED BY <1>3, <1>4, <1>9 DEF e, a, SameRegs

\* The century sets the time of a clock that runs, or fails.
LEMMA CenturyInv ==
  ASSUME rnow \in Nat, RInv(rtc, rnow), NEW t \in Times, WriteCentury(t)
  PROVE  RInv(rtc', rnow)
  <1> DEFINE s == [CurrentFields EXCEPT !.fld = t]
             u == vrtc_time_update(s, rtc_to_secs(s), rnow)
             b == (t = Broken)
             e == [u EXCEPT !.err = b]
  <1>1. /\ ~rtc.err
        /\ rtc' = IF rtc.halt THEN s ELSE e
    BY DEF WriteCentury
  <1>2. t \in Nat \cup {Broken}
    BY RtcConstants
  <1>3. /\ RInv(CurrentFields, rnow) /\ CurrentFields.err = rtc.err
        /\ CurrentFields.halt = rtc.halt
    BY CurrentIs DEF Updated, SameRegs
  <1>4. RInv(s, rnow) /\ s.halt = rtc.halt /\ s.err = rtc.err /\ s.fld = t
    BY <1>2, <1>3, FieldInv
  <1> HIDE DEF s
  <1>5. CASE rtc.halt
    BY <1>1, <1>4, <1>5
  <1>6. CASE ~rtc.halt
    <2>1. s \in RtcT /\ Signalled(s) /\ Matches(s) /\ s.base # Broken
      BY <1>1, <1>4, <1>6 DEF RInv, Clock
    <2>2. rtc_to_secs(s) = t
      BY <1>4 DEF rtc_to_secs
    <2>3. /\ u \in RtcT /\ SameRegs(s, u) /\ SameCallout(s, u)
          /\ u.upt = rnow
          /\ u.base = IF t # Broken /\ s.halt THEN s.base ELSE t
          /\ Signalled(s) => Signalled(u)
      BY <1>2, <2>1, <2>2, TimeUpdateIs
    <2>4. b \in BOOLEAN /\ (b <=> t = Broken)
      OBVIOUS
    <2> HIDE DEF u, b
    <2>5. e \in RtcT
      BY <2>3, <2>4 DEF RtcT
    <2>6. e.err = b /\ e.upt = u.upt /\ e.base = u.base /\ e.c = u.c /\ e.irqf = u.irqf
      BY <2>3, <2>4 DEF RtcT
    <2>7. /\ e.div = u.div /\ e.rate = u.rate /\ e.halt = u.halt
          /\ e.pie = u.pie /\ e.aie = u.aie /\ e.uie = u.uie
      BY <2>3 DEF RtcT
    <2>8. SameCallout(u, e)
      BY <2>3 DEF RtcT, SameCallout
    <2> HIDE DEF e
    <2>9. CASE b = TRUE
      <3>1. e.err = TRUE /\ rnow <= rnow
        BY <2>6, <2>9
      <3> QED BY <1>1, <1>6, <2>3, <2>5, <2>6, <3>1 DEF RInv
    <2>10. CASE b = FALSE
      <3>0. u.err = FALSE
        <4>1. u.err = rtc.err /\ u.err \in BOOLEAN
          BY <1>4, <2>3 DEF SameRegs, RtcT
        <4> QED BY <1>1, <4>1
      <3>1. SameRegs(u, e)
        BY <2>6, <2>7, <2>10, <3>0 DEF SameRegs
      <3>2. SameRegs(s, e) /\ SameCallout(s, e)
        BY <2>3, <2>8, <3>1, SameTwice
      <3>3. Enabled(e) = Enabled(u)
        BY <3>1, SameEnabled DEF SameRegs
      <3>4. Signalled(e)
        BY <2>1, <2>3, <2>6, <3>3, StaysSignalled
      <3>5. e.base # Broken
        BY <1>4, <1>6, <2>3, <2>4, <2>6, <2>10
      <3>6. Updated(s, e)
        BY <2>1, <2>3, <2>5, <2>6, <3>2, <3>4, <3>5 DEF Updated
      <3> QED BY <1>1, <1>4, <1>6, <3>6, UpdatedInv
    <2> QED BY <2>4, <2>9, <2>10
  <1> QED BY <1>5, <1>6

\* The handler flags what has occurred and arms the callout again at the frequency it
\* then finds; one that was stopped or armed again meanwhile is turned away.
LEMMA RtcHandlerInv ==
  ASSUME rnow \in Nat, RInv(rtc, rnow), vrtc_callout_handler
  PROVE  RInv(rtc', rnow)
  <1> DEFINE s0 == [rtc EXCEPT !.hnd = FALSE, !.active = FALSE]
             s1 == IF rtc.pie THEN Flag(s0, "PERIOD") ELSE s0
             s2 == IF rtc.aie \/ rtc.uie
                   THEN vrtc_time_update(s1, vrtc_curtime(s1), Basetime(s1)) ELSE s1
             d == [rtc EXCEPT !.hnd = FALSE]
             r == vrtc_callout_reset(s2, vrtc_freq(s2))
             Ok(u) == /\ u \in RtcT /\ SameRegs(rtc, u) /\ u.upt <= rnow /\ Signalled(u)
                      /\ ~u.halt => u.base # Broken
  <1>1. /\ ~rtc.err
        /\ rtc' = IF rtc.pending \/ ~rtc.active THEN d ELSE r
    BY DEF vrtc_callout_handler
  <1>2. /\ rtc \in RtcT /\ rtc.upt <= rnow /\ Matches(rtc) /\ Signalled(rtc)
        /\ ~rtc.halt => rtc.base # Broken
    BY <1>1 DEF RInv, Clock
  <1>3. CASE rtc.pending \/ ~rtc.active
    <2>1. d \in RtcT
      BY <1>2 DEF RtcT
    <2>2. SameRegs(rtc, d)
      BY <1>2 DEF RtcT, SameRegs
    <2>3. d.upt = rtc.upt /\ d.base = rtc.base /\ d.c = rtc.c /\ d.irqf = rtc.irqf
      BY <1>2 DEF RtcT
    <2>4. d.active = rtc.active /\ d.pending = rtc.pending
      BY <1>2 DEF RtcT
    <2> HIDE DEF d
    <2>5. vrtc_freq(d) = vrtc_freq(rtc)
      BY <2>2, <2>3, SameFreq
    <2>6. Enabled(d) = Enabled(rtc)
      BY <2>2, SameEnabled DEF SameRegs
    <2>7. Matches(d)
      BY <1>2, <1>3, <2>4, <2>5 DEF Matches
    <2>8. Signalled(d) /\ Clock(d, rnow)
      BY <1>2, <2>2, <2>3, <2>6, StaysSignalled DEF Clock, SameRegs
    <2> QED BY <1>1, <1>2, <1>3, <2>1, <2>3, <2>7, <2>8 DEF RInv
  <1>4. CASE ~(rtc.pending \/ ~rtc.active)
    <2>1. Ok(s0)
      <3>1. s0 \in RtcT
        BY <1>2 DEF RtcT
      <3>2. SameRegs(rtc, s0)
        BY <1>2 DEF RtcT, SameRegs
      <3>3. s0.upt = rtc.upt /\ s0.base = rtc.base /\ s0.c = rtc.c /\ s0.irqf = rtc.irqf
        BY <1>2 DEF RtcT
      <3> HIDE DEF s0
      <3>4. Enabled(s0) = Enabled(rtc)
        BY <3>2, SameEnabled DEF SameRegs
      <3>5. Signalled(s0)
        BY <1>2, <3>3, <3>4, StaysSignalled
      <3>6. ~s0.halt => s0.base # Broken
        BY <1>2, <3>2, <3>3 DEF SameRegs
      <3> QED BY <1>2, <3>1, <3>2, <3>3, <3>5, <3>6
    <2> HIDE DEF s0
    <2>2. Ok(s1)
      <3>1. CASE ~rtc.pie
        BY <2>1, <3>1
      <3>2. CASE rtc.pie
        <4>1. s0 \in RtcT /\ "PERIOD" \in Causes
          BY <2>1 DEF Causes
        <4>2. /\ s1 \in RtcT /\ SameRegs(s0, s1)
              /\ s1.upt = s0.upt /\ s1.base = s0.base /\ Signalled(s1)
          BY <3>2, <4>1, FlagIs
        <4> HIDE DEF s1
        <4>3. SameRegs(rtc, s1) /\ s1.halt = s0.halt
          BY <2>1, <4>2 DEF SameRegs
        <4> QED BY <2>1, <4>2, <4>3
      <3> QED BY <3>1, <3>2
    <2> HIDE DEF s1
    <2>3. Ok(s2)
      <3>1. CASE ~(rtc.aie \/ rtc.uie)
        BY <2>2, <3>1
      <3>2. CASE rtc.aie \/ rtc.uie
        <4>1. s1 \in RtcT /\ s1.upt <= rnow
          BY <2>2
        <4>2. Updated(s1, s2)
          BY <3>2, <4>1, UpToDate
        <4> HIDE DEF s2
        <4>3. SameRegs(rtc, s2) /\ s2.halt = s1.halt
          BY <2>2, <4>2 DEF SameRegs, Updated
        <4> QED BY <2>2, <4>2, <4>3 DEF Updated
      <3> QED BY <3>1, <3>2
    <2> HIDE DEF s2
    <2> DEFINE f == vrtc_freq(s2)
    <2>4. /\ r \in RtcT /\ SameRegs(s2, r)
          /\ r.upt = s2.upt /\ r.base = s2.base /\ r.c = s2.c /\ r.irqf = s2.irqf
          /\ r.active <=> f # 0
          /\ r.active => r.pending
      <3>1. s2 \in RtcT
        BY <2>3
      <3> HIDE DEF f
      <3>2. r = vrtc_callout_reset(s2, f)
        BY DEF f
      <3> HIDE DEF r
      <3> QED BY <3>1, <3>2, CalloutResetIs
    <2> HIDE DEF r, f
    <2>5. vrtc_freq(r) = f
      BY <2>4, SameFreq DEF f
    <2>6. Enabled(r) = Enabled(s2)
      BY <2>4, SameEnabled DEF SameRegs
    <2>7. Matches(r)
      BY <2>4, <2>5 DEF Matches
    <2>8. Signalled(r)
      BY <2>3, <2>4, <2>6, StaysSignalled
    <2>9. Clock(r, rnow)
      BY <2>3, <2>4 DEF Clock, SameRegs
    <2> QED BY <1>1, <1>4, <2>4, <2>7, <2>8, <2>9 DEF RInv, Clock
  <1> QED BY <1>3, <1>4

\* The callout thread takes the callout: it is being handled from then on.
LEMMA RtcDispatchInv ==
  ASSUME RInv(rtc, rnow), RtcDispatch
  PROVE  RInv(rtc', rnow)
  <1> DEFINE e == [rtc EXCEPT !.pending = FALSE, !.hnd = TRUE]
  <1>1. ~rtc.err /\ rtc' = e
    BY DEF RtcDispatch
  <1>2. rtc \in RtcT /\ rtc.upt <= rnow /\ Matches(rtc) /\ Signalled(rtc) /\ Clock(rtc, rnow)
    BY <1>1 DEF RInv
  <1>3. e \in RtcT
    BY <1>2 DEF RtcT
  <1>4. SameRegs(rtc, e)
    BY <1>2 DEF RtcT, SameRegs
  <1>5. e.upt = rtc.upt /\ e.base = rtc.base /\ e.c = rtc.c /\ e.irqf = rtc.irqf
    BY <1>2 DEF RtcT
  <1>6. e.active = rtc.active /\ e.hnd = TRUE
    BY <1>2 DEF RtcT
  <1> HIDE DEF e
  <1>7. vrtc_freq(e) = vrtc_freq(rtc)
    BY <1>4, <1>5, SameFreq
  <1>8. Enabled(e) = Enabled(rtc)
    BY <1>4, SameEnabled DEF SameRegs
  <1>9. Matches(e)
    BY <1>2, <1>6, <1>7 DEF Matches
  <1>10. Signalled(e) /\ Clock(e, rnow)
    BY <1>2, <1>4, <1>5, <1>8, StaysSignalled DEF Clock, SameRegs
  <1> QED BY <1>1, <1>2, <1>3, <1>5, <1>9, <1>10 DEF RInv

\* vrtc_init.
LEMMA RtcInitially == RtcInit => RtcInv
  <1> SUFFICES ASSUME RtcInit PROVE rnow \in Nat /\ RInv(rtc, rnow)
    BY RInvIs
  <1>1. rnow = 0 /\ rtc.upt = 0 /\ rtc.base = 0 /\ rtc.active = FALSE /\ rtc.c = {}
    BY DEF RtcInit
  <1>2. rtc.pie = FALSE /\ rtc.aie = FALSE /\ rtc.uie = FALSE
    BY DEF RtcInit
  <1>3. rtc \in RtcT
    <2>1. 0 \in Rates /\ 0 \in Nat /\ {} \in SUBSET Causes
      BY RtcConstants
    <2> QED BY <2>1 DEF RtcInit, RtcT
  <1>4. Matches(rtc)
    BY <1>1, <1>2 DEF Matches, vrtc_freq
  <1>5. Signalled(rtc) /\ Clock(rtc, rnow)
    BY <1>1 DEF Signalled, Clock, Broken
  <1> QED BY <1>1, <1>3, <1>4, <1>5 DEF RInv

\* Every step keeps the invariant.
LEMMA RtcSteps == RtcInv /\ [RtcNext]_rtcvars => RtcInv'
  <1> SUFFICES ASSUME RtcInv, [RtcNext]_rtcvars PROVE rnow' \in Nat /\ RInv(rtc', rnow')
    BY RInvIsNext
  <1>1. rnow \in Nat /\ RInv(rtc, rnow) /\ rtc \in RtcT
    BY RInvIs DEF RInv
  <1>2. /\ RInv(Current, rnow) /\ RInv(CurrentFields, rnow)
        /\ Current.err = rtc.err
    BY <1>1, CurrentIs
  <1>3. ASSUME RtcTick PROVE rnow' \in Nat /\ RInv(rtc', rnow')
    <2>1. rtc' = rtc /\ rnow' = rnow + 1 /\ rtc.upt \in Nat
      BY <1>1, <1>3 DEF RtcTick, RtcT
    <2> QED BY <1>1, <2>1 DEF RInv, Clock
  <1>4. ASSUME RtcDispatch PROVE rnow' \in Nat /\ RInv(rtc', rnow')
    BY <1>1, <1>4, RtcDispatchInv DEF RtcDispatch
  <1>5. ASSUME vrtc_callout_handler PROVE rnow' \in Nat /\ RInv(rtc', rnow')
    BY <1>1, <1>5, RtcHandlerInv DEF vrtc_callout_handler
  <1>6. ASSUME vrtc_reset PROVE rnow' \in Nat /\ RInv(rtc', rnow')
    <2> DEFINE e == vrtc_set_reg_b(rtc, rtc.halt, FALSE, FALSE, FALSE)
    <2>1. rtc.halt \in BOOLEAN /\ ~rtc.err /\ rtc' = vrtc_set_reg_c(e, {}) /\ rnow' = rnow
      BY <1>1, <1>6 DEF vrtc_reset, RtcT
    <2>2. RInv(e, rnow)
      BY <1>1, <2>1, SetBInv
    <2> HIDE DEF e
    <2>3. {} \in SUBSET Causes
      OBVIOUS
    <2> QED BY <1>1, <2>1, <2>2, <2>3, SetCInv
  <1>7. ASSUME ReadFields PROVE rnow' \in Nat /\ RInv(rtc', rnow')
    BY <1>1, <1>2, <1>7 DEF ReadFields
  <1>8. ASSUME ReadC PROVE rnow' \in Nat /\ RInv(rtc', rnow')
    <2>1. {} \in SUBSET Causes
      OBVIOUS
    <2> QED BY <1>1, <1>2, <1>8, <2>1, SetCInv DEF ReadC
  <1>9. ASSUME NEW div \in BOOLEAN, NEW rate \in Rates, WriteA(div, rate)
        PROVE  rnow' \in Nat /\ RInv(rtc', rnow')
    <2>1. ~rtc.err /\ rtc' = vrtc_set_reg_a(Current, div, rate) /\ rnow' = rnow
      BY <1>9 DEF WriteA
    <2> QED BY <1>1, <1>2, <2>1, SetAInv
  <1>10. ASSUME NEW halt \in BOOLEAN, NEW pie \in BOOLEAN, NEW aie \in BOOLEAN, NEW uie \in BOOLEAN,
                WriteB(halt, pie, aie, uie)
         PROVE  rnow' \in Nat /\ RInv(rtc', rnow')
    <2>1. ~rtc.err /\ rtc' = vrtc_set_reg_b(Current, halt, pie, aie, uie) /\ rnow' = rnow
      BY <1>10 DEF WriteB
    <2> QED BY <1>1, <1>2, <2>1, SetBInv
  <1>11. ASSUME NEW t \in Times, WriteAlarm(t) \/ WriteField(t)
         PROVE  rnow' \in Nat /\ RInv(rtc', rnow')
    <2>1. t \in Nat \cup {Broken}
      BY RtcConstants
    <2> DEFINE a == [CurrentFields EXCEPT !.alarm = t]
               e == [CurrentFields EXCEPT !.fld = t]
    <2>2. rnow' = rnow /\ (rtc' = a \/ rtc' = e)
      BY <1>11 DEF WriteAlarm, WriteField
    <2>3. RInv(e, rnow) /\ RInv(a, rnow)
      BY <1>2, <2>1, FieldInv
    <2> HIDE DEF a, e
    <2> QED BY <1>1, <2>2, <2>3
  <1>12. ASSUME NEW t \in Times, WriteCentury(t)
         PROVE  rnow' \in Nat /\ RInv(rtc', rnow')
    <2>1. rnow' = rnow
      BY <1>12 DEF WriteCentury
    <2> QED BY <1>1, <1>12, <2>1, CenturyInv
  <1>13. ASSUME UNCHANGED rtcvars PROVE rnow' \in Nat /\ RInv(rtc', rnow')
    BY <1>1, <1>13 DEF rtcvars
  <1> QED
    BY <1>3, <1>4, <1>5, <1>6, <1>7, <1>8, <1>9, <1>10, <1>11, <1>12, <1>13 DEF RtcNext

\* The invariant of the RTC, for all rates and times.
THEOREM RtcInvariant == RtcSpec => []RtcInv
  <1>1. RtcInit => RtcInv
    BY RtcInitially
  <1>2. RtcInv /\ [RtcNext]_rtcvars => RtcInv'
    BY RtcSteps
  <1> QED BY <1>1, <1>2, PTL DEF RtcSpec

-----------------------------------------------------------------------------
\* The periodic timers of the three devices, whatever the guest writes and
\* however late or early the callout thread is: the rate generator of the PIT
\* is armed, at most a period ahead and one more for each time the thread was
\* early, a periodic timer of the HPET for its next period; the RTC has a
\* callout exactly when its registers ask for one, and an enabled condition of
\* the RTC that has occurred is signalled.
THEOREM TicksAreArmed ==
  HpetConstantsOK => (PitSpec /\ HpetSpec /\ RtcSpec => TicksArmed)
  <1> SUFFICES ASSUME HpetConstantsOK PROVE PitSpec /\ HpetSpec /\ RtcSpec => TicksArmed
    OBVIOUS
  <1>1. HpetSpec => []PeriodAhead
    BY PeriodIsAhead
  <1>2. PitInv => RateGeneratorRuns /\ PeriodsAhead
    BY DEF PitInv
  <1>3. PitInv /\ [PitNext]_pitvars => [AheadOfTime]_pitvars
    BY PitSteps
  <1>4. RtcInv => CalloutMatchesFreq /\ FlaggedIsSignalled
    BY DEF RtcInv
  <1> QED BY <1>1, <1>2, <1>3, <1>4, PitInvariant, RtcInvariant, PTL DEF PitSpec, RtcSpec, TicksArmed
=============================================================================
