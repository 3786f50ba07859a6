------------------------------- MODULE Vatpit -------------------------------
(***************************************************************************)
(* One channel of the 8254 timer (vatpit.c); channel 0 drives IRQ 0 with a *)
(* callout.  Port accesses and the callout handler hold the lock of the    *)
(* PIT; the callout thread takes an expired callout off its queue first    *)
(* and waits for the lock afterwards (hnd).                                *)
(*                                                                         *)
(* Time is counted in ticks of the PIT and a byte has ByteVals values.     *)
(* pit is struct channel: at is now_sbt, cbt is callout_sbt, ol the bytes  *)
(* still latched (olbyte of them), null and out the bits of status.  Two   *)
(* fields are not in the code: fresh, a count other than 0 was loaded in   *)
(* this mode; early, how often since the last count the callout thread     *)
(* took the callout before its time.                                       *)
(***************************************************************************)
EXTENDS Integers, Sequences

CONSTANTS
  ByteVals,      \* the number of values of a byte
  PitMaxNow,     \* bound on the time
  MaxEarly       \* bound on early, for each count

ASSUME PitConstants == ByteVals \in Nat \ {0, 1} /\ PitMaxNow \in Nat /\ MaxEarly \in Nat

VARIABLES pnow, pit
pitvars == <<pnow, pit>>

Modes == {"INTTC", "RATEGEN", "SQWAVE", "SWSTROBE"}
Hz100 == ByteVals  \* TIMER_DIV(PIT_8254_FREQ, 100)

\* vatpit_init; no is the number of the channel.
PitInit ==
  /\ pnow = 0
  /\ \E no \in {0, 2} :
       pit = [no |-> no, mode |-> "INTTC", initial |-> 0, at |-> 0, cr |-> <<>>, ol |-> <<>>,
              slatched |-> FALSE, null |-> FALSE, out |-> FALSE, frbyte |-> 0, cbt |-> 0,
              pending |-> FALSE, active |-> FALSE, hnd |-> FALSE, fresh |-> FALSE, early |-> 0]

-----------------------------------------------------------------------------
vatpit_get_out(d) == d.mode = "INTTC" /\ d.initial - (pnow - d.at) <= 0

\* pit_timer_start_cntr0, with callout_reset_sbt.
pit_timer_start_cntr0(d) ==
  LET cbt == d.cbt + d.initial
  IN IF d.initial = 0 THEN d
     ELSE [d EXCEPT !.cbt = IF cbt < pnow THEN pnow + d.initial ELSE cbt,
                    !.pending = TRUE, !.active = TRUE]

\* pit_update_counter: a channel that was never loaded runs at 100 Hz.
Counting(d) ==
  IF d.initial # 0 THEN d ELSE [d EXCEPT !.initial = Hz100, !.at = pnow, !.null = FALSE]

pit_update_counter(d) ==
  LET e == Counting(d)
      lval == e.initial - ((pnow - e.at) % e.initial)
  IN IF d.ol # <<>> THEN d ELSE [e EXCEPT !.ol = <<lval % ByteVals, lval \div ByteVals>>]

\* pit_readback1.
pit_readback1(lctr, lstatus) ==
  LET d == IF lctr THEN pit_update_counter(pit) ELSE pit
  IN /\ pit' = IF lstatus /\ ~d.slatched
               THEN [d EXCEPT !.slatched = TRUE, !.out = vatpit_get_out(d)] ELSE d
     /\ UNCHANGED pnow

\* vatpit_update_mode: the latch command, or a new mode.
LatchCommand == pit' = pit_update_counter(pit) /\ UNCHANGED pnow

vatpit_update_mode(mode) ==
  /\ pit' = [pit EXCEPT !.mode = mode, !.ol = <<>>, !.null = TRUE, !.fresh = FALSE]
  /\ UNCHANGED pnow

\* vatpit_handler, in: the latched status, a latched byte, or the running count.
ReadCount ==
  /\ pit' = IF pit.slatched THEN [pit EXCEPT !.slatched = FALSE, !.null = FALSE, !.out = FALSE]
            ELSE IF pit.ol # <<>> THEN [pit EXCEPT !.ol = Tail(@)]
            ELSE [Counting(pit) EXCEPT !.frbyte = 1 - @]
  /\ UNCHANGED pnow

\* vatpit_handler, out: the low byte, then the high byte of the count.
WriteCount(byte) ==
  LET initial == pit.cr[1] + ByteVals * byte
      d == [pit EXCEPT !.null = FALSE, !.frbyte = 0, !.cr = <<>>, !.initial = initial,
                       !.at = pnow, !.cbt = IF pit.no = 0 THEN pnow ELSE @,
                       !.fresh = initial # 0, !.early = 0]
      e == IF pit.no = 0 THEN pit_timer_start_cntr0(d) ELSE d
  IN /\ pit' = IF pit.cr = <<>> THEN [pit EXCEPT !.cr = <<byte>>]
               ELSE [e EXCEPT !.initial = IF @ = 0 THEN ByteVals * ByteVals - 1 ELSE @]
     /\ UNCHANGED pnow

-----------------------------------------------------------------------------
PitTick == pnow < PitMaxNow /\ pnow' = pnow + 1 /\ UNCHANGED pit

\* callout_thread_func takes the callout off its queue when a timed wait ends.
\* It does not look at the time again: a callout armed anew during the wait is
\* taken before its time (Callout!NeverEarly).
PitDispatch ==
  /\ ~pit.hnd /\ pit.pending /\ (pit.cbt > pnow => pit.early < MaxEarly)
  /\ pit' = [pit EXCEPT !.pending = FALSE, !.hnd = TRUE,
                        !.early = IF pit.cbt > pnow THEN @ + 1 ELSE @]
  /\ UNCHANGED pnow

Restarts(d) == d.mode = "RATEGEN"

\* vatpit_callout_handler.
vatpit_callout_handler ==
  /\ pit.hnd
  /\ LET d == [pit EXCEPT !.hnd = FALSE, !.active = FALSE]
     IN pit' = IF pit.pending \/ ~pit.active THEN [pit EXCEPT !.hnd = FALSE]
               ELSE IF Restarts(d) THEN pit_timer_start_cntr0(d) ELSE d
  /\ UNCHANGED pnow

PitNext ==
  \/ PitTick \/ PitDispatch \/ vatpit_callout_handler \/ LatchCommand \/ ReadCount
  \/ \E lctr, lstatus \in BOOLEAN : pit_readback1(lctr, lstatus)
  \/ \E mode \in Modes : vatpit_update_mode(mode)
  \/ \E byte \in 0 .. ByteVals - 1 : WriteCount(byte)

PitSpec == PitInit /\ [][PitNext]_pitvars

-----------------------------------------------------------------------------
\* The periodic timer of channel 0 never stops by itself: while the channel is
\* a rate generator with a count, its callout is queued, or the handler is
\* about to run and will queue it.
RateGeneratorRuns ==
  pit.no = 0 /\ pit.fresh /\ pit.mode = "RATEGEN" => pit.pending \/ (pit.hnd /\ pit.active)

\* "Reset 'callout_sbt' if the time that the callout was supposed to fire is
\* more than 'c->initial' ticks in the past": when the timer is restarted
\* after the thread was late, its next expiry is not in the past again.
AheadOfTime == ~pit.pending /\ pit'.pending => pit'.cbt >= pnow'

\* Nor does it run away: the next expiry is at most one period ahead, and one
\* more for every time the callout was taken early since the count was loaded,
\* as the handler adds a period to a time that is still to come.
PeriodsAhead == pit.pending => pit.cbt - pnow <= (pit.early + 1) * pit.initial

-----------------------------------------------------------------------------
(* What makes them inductive.                                              *)

PitTypeOK ==
  /\ pnow \in Nat
  /\ pit \in [no : {0, 2}, mode : Modes, initial : Nat, at : Nat,
              cr : {<<>>} \cup {<<b>> : b \in 0 .. ByteVals - 1}, ol : Seq(Int),
              slatched : BOOLEAN, null : BOOLEAN, out : BOOLEAN, frbyte : {0, 1}, cbt : Nat,
              pending : BOOLEAN, active : BOOLEAN, hnd : BOOLEAN, fresh : BOOLEAN, early : Nat]

\* A queued callout is active, one that is not queued was early for as many
\* periods as it is ahead, a count other than 0 stays loaded, and only channel
\* 0 has a callout.
PitInv ==
  /\ PitTypeOK /\ RateGeneratorRuns /\ PeriodsAhead
  /\ pit.pending => pit.active
  /\ ~pit.pending => pit.cbt - pnow <= pit.early * pit.initial
  /\ pit.fresh => pit.initial # 0
  /\ pit.no # 0 => ~pit.pending /\ ~pit.hnd /\ pit.cbt = 0
=============================================================================
