------------------------------ MODULE MCTimers ------------------------------
(***************************************************************************)
(* The callout service and the timer devices that use it: small instances  *)
(* for TLC.  `which' says which of them a behaviour is about; the others   *)
(* rest.                                                                   *)
(***************************************************************************)
EXTENDS Callout, Ticks

VARIABLES which, first, day, secs, bin, h24

Config(enb, level, msi, pin, periodic, valset) ==
  [enb |-> enb, level |-> level, msi |-> msi, pin |-> pin, periodic |-> periodic,
   valset |-> valset]

\* Level triggered one-shot and periodic, edge triggered, MSI, a pin that is
\* not allowed, disabled.
MCConfigs ==
  {Config(TRUE, TRUE, FALSE, 20, FALSE, FALSE), Config(TRUE, TRUE, FALSE, 21, TRUE, TRUE),
   Config(TRUE, FALSE, FALSE, 20, FALSE, FALSE), Config(TRUE, TRUE, TRUE, 20, TRUE, FALSE),
   Config(TRUE, TRUE, FALSE, 5, FALSE, FALSE), Config(FALSE, TRUE, FALSE, 20, TRUE, FALSE)}

ASSUME HpetConstants == HpetConstantsOK

\* A time, and fields that are none.
MCTimes == {1, Broken}

\* From 1970, across February 2000 and across February 2100.
Clock == INSTANCE VrtcClock WITH
  FirstDays <- {0, 10900, 47400}, Length <- 450, SecsOfDay <- {0, 3599, 43200, 46799, 86399}

clock == <<first, day, secs, bin, h24>>
allvars == <<vars, hpetvars, pitvars, rtcvars, which, clock>>

NoClock == first = 0 /\ day = 0 /\ secs = 0 /\ bin = FALSE /\ h24 = FALSE

MCInit ==
  /\ which \in {"callout", "hpet", "pit", "rtc", "clock"}
  /\ Init /\ HpetInit /\ RtcInit
  /\ PitInit /\ (which # "pit" => pit.no = 0)
  /\ IF which = "clock" THEN Clock!Init ELSE NoClock

CalloutStep == which = "callout" /\ Next /\ UNCHANGED <<which, hpetvars, pitvars, rtcvars, clock>>
HpetStep == which = "hpet" /\ HpetNext /\ UNCHANGED <<which, vars, pitvars, rtcvars, clock>>
PitStep == which = "pit" /\ PitNext /\ UNCHANGED <<which, vars, hpetvars, rtcvars, clock>>
RtcStep == which = "rtc" /\ RtcNext /\ UNCHANGED <<which, vars, hpetvars, pitvars, clock>>
ClockStep == which = "clock" /\ Clock!Next /\ UNCHANGED <<which, vars, hpetvars, pitvars, rtcvars>>

MCNext == CalloutStep \/ HpetStep \/ PitStep \/ RtcStep \/ ClockStep

\* The fairness of Callout!FairSpec.
MCSpec ==
  /\ MCInit /\ [][MCNext]_allvars
  /\ WF_allvars(which = "callout" /\ ThreadStep /\ UNCHANGED <<which, hpetvars, pitvars, rtcvars, clock>>)
  /\ WF_allvars(which = "callout" /\ Tick /\ UNCHANGED <<which, hpetvars, pitvars, rtcvars, clock>>)

-----------------------------------------------------------------------------
\* VrtcClock!CalendarExact: the conversions agree with the calendar.
CalendarExact == which = "clock" => Clock!CalendarExact
=============================================================================
