-------------------------------- MODULE Vrtc --------------------------------
(***************************************************************************)
(* The real time clock (vrtc.c).  Accesses of the data port and the        *)
(* callout handler hold the lock of the clock; the callout thread takes an *)
(* expired callout off its queue first and waits for the lock afterwards   *)
(* (hnd).                                                                  *)
(*                                                                         *)
(* rnow is the uptime in seconds and, the host clock being set to it, the  *)
(* host's time.  rtc is struct vrtc: div and rate are register A, halt,    *)
(* pie, aie and uie register B, c and irqf register C, base and upt the    *)
(* time of the clock and the uptime it belongs to; the date and time       *)
(* fields are one number, fld, as is the alarm.  err: the access failed    *)
(* and the machine stops.                                                  *)
(***************************************************************************)
EXTENDS Integers

CONSTANTS
  Rates,         \* rate selections the guest writes, with 0
  Times,         \* times the guest writes to the fields
  RtcMaxNow      \* bound on the time

VARIABLES rnow, rtc
rtcvars == <<rnow, rtc>>

Broken == -1               \* VRTC_BROKEN_TIME
OneSecond == 99            \* a frequency other than all rates

ASSUME RtcConstants ==
  /\ Rates \subseteq Nat /\ 0 \in Rates /\ OneSecond \notin Rates
  /\ Times \subseteq Nat \cup {Broken} /\ RtcMaxNow \in Nat

\* secs_to_rtc: the fields are filled from the clock of the host.
secs_to_rtc(s, rtctime, force_update) ==
  IF rtctime = Broken \/ (s.halt /\ ~force_update) THEN s ELSE [s EXCEPT !.fld = rnow]

\* rtc_to_secs: a time before 1970, or fields that are no date, are Broken.
rtc_to_secs(s) == s.fld

update_enabled(s) == s.div /\ ~s.halt /\ s.base # Broken

vrtc_curtime(s) == IF update_enabled(s) THEN s.base + (rnow - s.upt) ELSE s.base
Basetime(s) == IF update_enabled(s) THEN rnow ELSE s.upt

Enabled(s) == {i \in {"PERIOD", "ALARM", "UPDATE"} :
                 \/ i = "PERIOD" /\ s.pie
                 \/ i = "ALARM" /\ s.aie
                 \/ i = "UPDATE" /\ s.uie}

\* vrtc_set_reg_c; the interrupt is pulsed when irqf is set.
vrtc_set_reg_c(s, c) == [s EXCEPT !.c = c, !.irqf = c \cap Enabled(s) # {}]

Flag(s, i) == vrtc_set_reg_c(s, s.c \cup {i})

\* vrtc_time_update.
vrtc_time_update(s, newtime, newbase) ==
  LET s0 == [s EXCEPT !.upt = newbase]
      s1 == [s0 EXCEPT !.base = newtime]
      s2 == IF s.aie THEN secs_to_rtc(s1, newtime, FALSE) ELSE s1
      s3 == IF s.aie /\ s2.alarm = s2.fld THEN Flag(s2, "ALARM") ELSE s2
  IN IF newtime = s.base THEN s0
     ELSE IF newtime = Broken THEN s1
     ELSE IF s.halt THEN s0
     ELSE IF s.uie THEN Flag(s3, "UPDATE") ELSE s3

\* vrtc_freq.
vrtc_freq(s) ==
  IF s.pie /\ s.div THEN s.rate
  ELSE IF (s.aie \/ s.uie) /\ update_enabled(s) THEN OneSecond ELSE 0

\* vrtc_callout_reset, with callout_reset_sbt and callout_stop.
vrtc_callout_reset(s, freq) ==
  IF freq = 0 THEN [s EXCEPT !.pending = FALSE, !.active = FALSE]
  ELSE [s EXCEPT !.pending = TRUE, !.active = TRUE,
                 !.cbt = IF freq = OneSecond THEN rnow + 1 ELSE rnow]

\* The end of vrtc_set_reg_a and vrtc_set_reg_b, oldfreq being the frequency
\* before the change.
NewFreq(s, oldfreq) ==
  IF vrtc_freq(s) # oldfreq THEN vrtc_callout_reset(s, vrtc_freq(s)) ELSE s

\* changed & RTCSB_ALL_INTRS.
IntrsChanged(s, pie, aie, uie) == pie # s.pie \/ aie # s.aie \/ uie # s.uie

\* Mutant: the callout is left alone when the guest halts the clock.
SetBNoHaltStop(s, halt, pie, aie, uie) ==
  LET s1 == [s EXCEPT !.halt = halt, !.pie = pie, !.aie = aie, !.uie = uie]
      s2 == IF halt = s.halt THEN NewFreq(vrtc_set_reg_c(s1, s1.c), vrtc_freq(s))
            ELSE IF halt
            THEN vrtc_time_update([s1 EXCEPT !.uie = FALSE], Broken, rnow)
            ELSE NewFreq(vrtc_time_update(s1, rtc_to_secs(s1), rnow), vrtc_freq(s))
  IN IF halt # s.halt /\ ~halt /\ rtc_to_secs(s1) = Broken THEN [s1 EXCEPT !.err = TRUE] ELSE s2

\* vrtc_set_reg_b.
vrtc_set_reg_b(s, halt, pie, aie, uie) ==
  LET s1 == [s EXCEPT !.halt = halt, !.pie = pie, !.aie = aie, !.uie = uie]
      halted == [secs_to_rtc(s1, vrtc_curtime(s1), TRUE) EXCEPT !.uie = FALSE]
      s2 == IF halt = s.halt THEN s1
            ELSE IF halt THEN vrtc_time_update(halted, Broken, Basetime(s1))
            ELSE vrtc_time_update(s1, rtc_to_secs(s1), rnow)
      s3 == IF IntrsChanged(s, pie, aie, uie) THEN vrtc_set_reg_c(s2, s2.c) ELSE s2
  IN IF halt # s.halt /\ ~halt /\ rtc_to_secs(s1) = Broken THEN [s1 EXCEPT !.err = TRUE]
     ELSE NewFreq(s3, vrtc_freq(s))

\* vrtc_set_reg_a.
vrtc_set_reg_a(s, div, rate) ==
  NewFreq([s EXCEPT !.div = div, !.rate = rate,
                    !.upt = IF div /\ ~s.div THEN rnow ELSE @], vrtc_freq(s))

\* vrtc_init, and rtc_init: the clock shows the time of the host.
RtcInit ==
  /\ rnow = 0
  /\ rtc = [div |-> TRUE, rate |-> 0, halt |-> FALSE, pie |-> FALSE, aie |-> FALSE,
            uie |-> FALSE, base |-> 0, upt |-> 0, c |-> {}, irqf |-> FALSE, fld |-> 0,
            alarm |-> 0, pending |-> FALSE, active |-> FALSE, cbt |-> 0, hnd |-> FALSE,
            err |-> FALSE]

-----------------------------------------------------------------------------
(* vrtc_data_handler; every access brings the time up to date first.       *)

Current == vrtc_time_update(rtc, vrtc_curtime(rtc), Basetime(rtc))
CurrentFields == secs_to_rtc(Current, vrtc_curtime(rtc), FALSE)

ReadFields == ~rtc.err /\ rtc' = CurrentFields /\ UNCHANGED rnow

ReadC == ~rtc.err /\ rtc' = vrtc_set_reg_c(Current, {}) /\ UNCHANGED rnow

WriteA(div, rate) == ~rtc.err /\ rtc' = vrtc_set_reg_a(Current, div, rate) /\ UNCHANGED rnow

WriteB(halt, pie, aie, uie) ==
  ~rtc.err /\ rtc' = vrtc_set_reg_b(Current, halt, pie, aie, uie) /\ UNCHANGED rnow

WriteAlarm(t) == ~rtc.err /\ rtc' = [CurrentFields EXCEPT !.alarm = t] /\ UNCHANGED rnow

\* A field; outside HALT the next access overwrites it.
WriteField(t) == ~rtc.err /\ rtc' = [CurrentFields EXCEPT !.fld = t] /\ UNCHANGED rnow

\* The century, which outside HALT sets the time from the fields.  With the
\* alarm enabled the code would count up to an earlier time for ever: the
\* guest is assumed not to go back.
WriteCentury(t) ==
  LET s == [CurrentFields EXCEPT !.fld = t]
      u == vrtc_time_update(s, rtc_to_secs(s), rnow)
  IN /\ ~rtc.err
     /\ ~rtc.halt /\ s.aie => t >= s.base
     /\ rtc' = IF rtc.halt THEN s ELSE [u EXCEPT !.err = t = Broken]
     /\ UNCHANGED rnow

\* vrtc_reset.
vrtc_reset ==
  /\ ~rtc.err
  /\ rtc' = vrtc_set_reg_c(vrtc_set_reg_b(rtc, rtc.halt, FALSE, FALSE, FALSE), {})
  /\ UNCHANGED rnow

-----------------------------------------------------------------------------
RtcTick == rnow < RtcMaxNow /\ ~rtc.err /\ rnow' = rnow + 1 /\ UNCHANGED rtc

\* callout_thread_func takes the callout off its queue when a timed wait ends,
\* which may be before its time (Callout!NeverEarly).
RtcDispatch ==
  /\ ~rtc.hnd /\ rtc.pending /\ ~rtc.err
  /\ rtc' = [rtc EXCEPT !.pending = FALSE, !.hnd = TRUE]
  /\ UNCHANGED rnow

\* vrtc_callout_handler.
vrtc_callout_handler ==
  /\ rtc.hnd /\ ~rtc.err
  /\ LET s0 == [rtc EXCEPT !.hnd = FALSE, !.active = FALSE]
         s1 == IF rtc.pie THEN Flag(s0, "PERIOD") ELSE s0
         s2 == IF rtc.aie \/ rtc.uie
               THEN vrtc_time_update(s1, vrtc_curtime(s1), Basetime(s1)) ELSE s1
     IN rtc' = IF rtc.pending \/ ~rtc.active THEN [rtc EXCEPT !.hnd = FALSE]
               ELSE vrtc_callout_reset(s2, vrtc_freq(s2))
  /\ UNCHANGED rnow

RtcNext ==
  \/ RtcTick \/ RtcDispatch \/ vrtc_callout_handler \/ vrtc_reset \/ ReadFields \/ ReadC
  \/ \E div \in BOOLEAN, rate \in Rates : WriteA(div, rate)
  \/ \E halt, pie, aie, uie \in BOOLEAN : WriteB(halt, pie, aie, uie)
  \/ \E t \in Times : WriteAlarm(t) \/ WriteField(t) \/ WriteCentury(t)

RtcSpec == RtcInit /\ [][RtcNext]_rtcvars

-----------------------------------------------------------------------------
\* vrtc_callout_check and the assertions of the handler: the clock has a live
\* callout exactly when its registers ask for one, in whatever order the
\* guest changed divider, rate, HALT and interrupt enables, and a live
\* callout is queued or being handled.
CalloutMatchesFreq ==
  ~rtc.err => /\ rtc.active <=> vrtc_freq(rtc) # 0
              /\ rtc.active => rtc.pending \/ rtc.hnd

\* An interrupt condition the guest enabled is signalled, also when the guest
\* enables it after the condition arose.
FlaggedIsSignalled == ~rtc.err /\ rtc.c \cap Enabled(rtc) # {} => rtc.irqf

\* "visit all the seconds between 'oldtime' and 'newtime' to check for the
\* alarm condition": when the time that ran on is brought up to date and passes
\* the second of the alarm, the alarm is flagged (a read of register C clears it
\* again).
AlarmVisited ==
  [][rtc.aie /\ rtc'.aie /\ rtc.base # Broken /\ rtc'.base = vrtc_curtime(rtc) /\ rtc'.alarm = rtc.alarm
       /\ rtc.base < rtc.alarm /\ rtc.alarm <= rtc'.base => "ALARM" \in rtc'.c \/ ReadC]_rtcvars

-----------------------------------------------------------------------------
(* What makes the first two inductive.                                     *)

RtcTypeOK ==
  /\ rnow \in Nat
  /\ rtc \in [div : BOOLEAN, rate : Rates, halt : BOOLEAN, pie : BOOLEAN, aie : BOOLEAN,
              uie : BOOLEAN, base : Nat \cup {Broken}, upt : Nat,
              c : SUBSET {"PERIOD", "ALARM", "UPDATE"}, irqf : BOOLEAN,
              fld : Nat \cup {Broken}, alarm : Nat \cup {Broken}, pending : BOOLEAN,
              active : BOOLEAN, cbt : Nat, hnd : BOOLEAN, err : BOOLEAN]

\* Time does not run back, and a clock that is not halted has one.
RtcInv ==
  /\ RtcTypeOK /\ CalloutMatchesFreq /\ FlaggedIsSignalled
  /\ rtc.upt <= rnow
  /\ ~rtc.err /\ ~rtc.halt => rtc.base # Broken
=============================================================================
