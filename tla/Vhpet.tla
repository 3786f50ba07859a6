-------------------------------- MODULE Vhpet --------------------------------
(***************************************************************************)
(* The HPET (vhpet.c).  Register writes and the callout handler run with   *)
(* the lock of the HPET; the callout thread takes an expired callout off   *)
(* its queue first and waits for that lock afterwards (hnd).               *)
(*                                                                         *)
(* Time is counted in ticks of the main counter.  h is struct vhpet, with  *)
(* the lines of the I/O APIC it asserts; of a timer's callout, pending and *)
(* active are the flags and cbt is callout_sbt.  owed is not in the code:  *)
(* the comparator has matched and no interrupt has been considered yet.    *)
(***************************************************************************)
EXTENDS Integers, FiniteSets

CONSTANTS
  NumTimers,     \* VHPET_NUM_TIMERS
  WC,            \* the main counter wraps around here
  Values,        \* what the guest writes to the comparators and the counter
  Configs,       \* the timer configurations the guest writes
  MaxNow         \* bound on the time

VARIABLES hnow, h
hpetvars == <<hnow, h>>

Timers == 1 .. NumTimers
Pins == {20, 21}       \* allowed_irqs, two of them

timer0 == [enb |-> FALSE, level |-> FALSE, msi |-> FALSE, pin |-> 0, periodic |-> FALSE,
           valset |-> FALSE, compval |-> WC - 1, comprate |-> 0, cbt |-> 0,
           pending |-> FALSE, active |-> FALSE, owed |-> FALSE]

\* vhpet_init.
HpetInit ==
  /\ hnow = 0
  /\ h = [en |-> FALSE, countbase |-> 0, base |-> 0, isr |-> {}, hnd |-> 0,
          line |-> [p \in Pins |-> 0], t |-> [n \in Timers |-> timer0]]

-----------------------------------------------------------------------------
vhpet_counter(s) == IF s.en THEN (s.countbase + hnow - s.base) % WC ELSE s.countbase

\* With MSI the timer is not connected to the I/O APIC.
vhpet_timer_ioapic_pin(t) == IF t.msi THEN 0 ELSE t.pin

vhpet_timer_edge_trig(t) == ~t.msi /\ ~t.level

\* vhpet_timer_clear_isr.
vhpet_timer_clear_isr(s, n) ==
  IF n \notin s.isr THEN s
  ELSE [s EXCEPT !.isr = @ \ {n}, !.line[vhpet_timer_ioapic_pin(s.t[n])] = @ - 1]

\* The interrupt of a timer is level triggered, and is not asserted yet.
Asserts(s, n) ==
  /\ s.t[n].enb /\ n \notin s.isr
  /\ ~s.t[n].msi /\ s.t[n].pin # 0 /\ ~vhpet_timer_edge_trig(s.t[n])

\* vhpet_timer_interrupt, for each timer of N.
vhpet_timer_interrupt(s, N) ==
  LET up == {n \in N : Asserts(s, n)}
  IN [s EXCEPT
        !.t = [n \in Timers |-> [s.t[n] EXCEPT !.owed = @ /\ n \notin N]],
        !.isr = @ \cup up,
        !.line = [p \in Pins |-> s.line[p] + Cardinality({n \in up : s.t[n].pin = p})]]

\* vhpet_adjust_compval.
vhpet_adjust_compval(t, counter) ==
  (t.compval + ((((counter - t.compval) % WC) \div t.comprate) + 1) * t.comprate) % WC

\* vhpet_start_timer, with callout_reset_sbt, for each timer of N.
vhpet_start_timer(s, N, counter) ==
  LET c(t) == IF t.comprate # 0 THEN vhpet_adjust_compval(t, counter) ELSE t.compval
  IN [s EXCEPT !.t = [n \in Timers |->
        IF n \notin N THEN s.t[n]
        ELSE [s.t[n] EXCEPT !.compval = c(s.t[n]), !.cbt = hnow + ((c(s.t[n]) - counter) % WC),
                            !.pending = TRUE, !.active = TRUE, !.owed = FALSE]]]

\* callout_stop, for every timer.
Stopped(s) ==
  [s EXCEPT !.t = [n \in Timers |-> [s.t[n] EXCEPT !.pending = FALSE, !.active = FALSE]]]

\* Mutant: a timer that has expired is just stopped.
StopForgets(s) == Stopped(s)

\* vhpet_stop_timer, for every timer.
vhpet_stop_timer(s) ==
  vhpet_timer_interrupt(Stopped(s), {n \in Timers : s.t[n].cbt < hnow})

vhpet_start_counting(s) == vhpet_start_timer([s EXCEPT !.base = hnow], Timers, s.countbase)

vhpet_stop_counting(s, counter) == vhpet_stop_timer([s EXCEPT !.countbase = counter])

-----------------------------------------------------------------------------
(* Register writes (vhpet_mmio_write).                                     *)

WriteConfig(en) ==
  /\ h' = IF en = h.en THEN h
          ELSE IF en THEN vhpet_start_counting([h EXCEPT !.en = TRUE])
          ELSE vhpet_stop_counting([h EXCEPT !.en = FALSE], vhpet_counter(h))
  /\ UNCHANGED hnow

WriteIsr(n) == h' = vhpet_timer_clear_isr(h, n) /\ UNCHANGED hnow

WriteCounter(v) ==
  LET s == [h EXCEPT !.countbase = v]
  IN h' = (IF s.en THEN vhpet_start_counting(s) ELSE s) /\ UNCHANGED hnow

\* Mutant: the interrupt stays asserted at the old pin.
UpdateKeepsIsr(n, c) ==
  LET t == [h.t[n] EXCEPT !.enb = c.enb, !.level = c.level, !.msi = c.msi,
                          !.periodic = c.periodic, !.valset = c.valset,
                          !.pin = IF c.pin \in Pins THEN c.pin ELSE 0,
                          !.comprate = IF c.periodic THEN @ ELSE 0]
  IN h' = [h EXCEPT !.t[n] = t, !.isr = IF t.enb THEN @ ELSE @ \ {n}] /\ UNCHANGED hnow

\* vhpet_timer_update_config.
vhpet_timer_update_config(n, c) ==
  LET o == h.t[n]
      t == [o EXCEPT !.enb = c.enb, !.level = c.level, !.msi = c.msi, !.periodic = c.periodic,
                     !.valset = c.valset,
                     !.pin = IF c.msi \/ c.pin \in Pins THEN c.pin ELSE 0,
                     !.comprate = IF c.periodic THEN @ ELSE 0]
      old_pin == vhpet_timer_ioapic_pin(o)
      clear_isr == n \in h.isr /\ (~t.enb \/ t.msi \/ vhpet_timer_edge_trig(t)
                                      \/ vhpet_timer_ioapic_pin(t) # old_pin)
      s == [h EXCEPT !.t[n] = t]
  IN /\ h' = IF clear_isr THEN [s EXCEPT !.isr = @ \ {n}, !.line[old_pin] = @ - 1] ELSE s
     /\ UNCHANGED hnow

\* The comparator; in periodic mode, it is the rate.
WriteComparator(n, v) ==
  LET o == h.t[n]
      t == [o EXCEPT !.comprate = IF o.periodic THEN v ELSE @,
                     !.compval = IF o.periodic /\ ~o.valset THEN @ ELSE v,
                     !.valset = FALSE]
      s == [h EXCEPT !.t[n] = t]
      changed == t.compval # o.compval \/ t.comprate # o.comprate
  IN /\ h' = IF changed /\ h.en THEN vhpet_start_timer(s, {n}, vhpet_counter(h)) ELSE s
     /\ UNCHANGED hnow

-----------------------------------------------------------------------------
(* Time and the callout thread.                                            *)

HpetTick ==
  /\ hnow < MaxNow /\ hnow' = hnow + 1
  /\ h' = [h EXCEPT !.t = [n \in Timers |->
             [h.t[n] EXCEPT !.owed = @ \/ (h.t[n].pending /\ h.t[n].cbt <= hnow)]]]

\* callout_thread_func takes the callout off its queue when a timed wait ends,
\* which may be before its time (Callout!NeverEarly).
HpetDispatch(n) ==
  /\ h.hnd = 0 /\ h.t[n].pending
  /\ h' = [h EXCEPT !.hnd = n, !.t[n].pending = FALSE]
  /\ UNCHANGED hnow

\* callout_active.
callout_active(n) == h.t[n].active

\* vhpet_handler.
vhpet_handler ==
  /\ h.hnd # 0
  /\ LET n == h.hnd
         s == [h EXCEPT !.hnd = 0, !.t[n].active = FALSE]
     IN h' = IF h.t[n].pending \/ ~callout_active(n) THEN [h EXCEPT !.hnd = 0]
             ELSE IF ~h.en THEN [h EXCEPT !.hnd = -1]
             ELSE vhpet_timer_interrupt(vhpet_start_timer(s, {n}, vhpet_counter(h)), {n})
  /\ UNCHANGED hnow

HpetNext ==
  \/ HpetTick \/ vhpet_handler
  \/ \E en \in BOOLEAN : WriteConfig(en)
  \/ \E v \in Values : WriteCounter(v)
  \/ \E n \in Timers :
       \/ HpetDispatch(n) \/ WriteIsr(n)
       \/ \E c \in Configs : vhpet_timer_update_config(n, c)
       \/ \E v \in Values : WriteComparator(n, v)

HpetSpec == HpetInit /\ [][HpetNext]_hpetvars

-----------------------------------------------------------------------------
\* "This is to ensure that this timer's level triggered interrupt does not
\* remain asserted forever": a pin of the I/O APIC is asserted by exactly the
\* timers that are routed to it with their status bit set; and a timer with an
\* edge or MSI never has its status bit set (vhpet_timer_update_config would
\* abort).
LinesMatchIsr ==
  /\ \A n \in h.isr : h.t[n].level /\ ~h.t[n].msi
  /\ \A p \in Pins : h.line[p] = Cardinality({n \in h.isr : vhpet_timer_ioapic_pin(h.t[n]) = p})

\* A comparator that has matched will interrupt: its callout is queued, or
\* the handler is about to run and will not be turned away.  And the handler
\* never meets a disabled counter (it would abort the process): the callout
\* that was on its way when the guest stopped the counter is recognised.
MatchNotMissed ==
  /\ h.hnd # -1
  /\ \A n \in Timers : h.t[n].owed => h.t[n].pending \/ (h.hnd = n /\ h.t[n].active)

\* In periodic mode the next match is at most one period away, whatever the
\* guest did to counter, comparator and rate ("rounded up such that is ahead
\* of 'counter'").
PeriodAhead ==
  \A n \in Timers :
    LET t == h.t[n] IN h.en /\ t.pending /\ t.comprate # 0 /\ hnow <= t.cbt => t.cbt - hnow <= t.comprate

-----------------------------------------------------------------------------
(* What makes LinesMatchIsr and MatchNotMissed inductive.                  *)

\* What the guest can write: values of the width of the counter.
HpetConstantsOK ==
  /\ NumTimers \in Nat /\ WC \in Nat \ {0} /\ MaxNow \in Nat
  /\ Values \subseteq 0 .. WC - 1
  /\ Configs \subseteq [enb : BOOLEAN, level : BOOLEAN, msi : BOOLEAN, pin : Nat,
                        periodic : BOOLEAN, valset : BOOLEAN]

\* The comparator, the rate and the counter have the width of the counter.
HpetTypeOK ==
  /\ hnow \in Nat
  /\ h \in [en : BOOLEAN, countbase : 0 .. WC - 1, base : Nat, isr : SUBSET Timers,
            hnd : Timers \cup {0}, line : [Pins -> Int],
            t : [Timers -> [enb : BOOLEAN, level : BOOLEAN, msi : BOOLEAN, pin : Nat,
                            periodic : BOOLEAN, valset : BOOLEAN, compval : 0 .. WC - 1,
                            comprate : 0 .. WC - 1, cbt : Nat, pending : BOOLEAN,
                            active : BOOLEAN, owed : BOOLEAN]]]

\* A callout is armed only while the counter runs, and what it owes is due.
ArmedRuns ==
  \A n \in Timers :
    /\ h.t[n].pending => h.t[n].active
    /\ h.t[n].active => h.en
    /\ h.t[n].owed => h.t[n].cbt < hnow

\* A timer without MSI is routed to a pin it may use or to none, and one with
\* its status bit set to a pin.
Routed ==
  \A n \in Timers :
    /\ ~h.t[n].msi => h.t[n].pin \in Pins \cup {0}
    /\ n \in h.isr => h.t[n].pin \in Pins

HpetInv ==
  /\ HpetTypeOK /\ ArmedRuns /\ Routed
  /\ LinesMatchIsr /\ MatchNotMissed
=============================================================================
