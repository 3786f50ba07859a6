-------------------------------- MODULE Ticks --------------------------------
(***************************************************************************)
(* What the three timer devices (Vatpit, Vhpet, Vrtc) promise together:    *)
(* they share nothing but the callout service (Callout).                   *)
(***************************************************************************)
EXTENDS Vatpit, Vhpet, Vrtc

\* A periodic timer never stops by itself, nor piles up expiries when its thread
\* is late, nor runs away further than a period for each time it was early
\* (vatpit.c, vhpet.c); no timer runs that the registers do not ask for, and an
\* enabled condition of the clock that has occurred is signalled (vrtc.c).
TicksArmed ==
  /\ [](RateGeneratorRuns /\ PeriodsAhead /\ PeriodAhead /\ CalloutMatchesFreq /\ FlaggedIsSignalled)
  /\ [][AheadOfTime]_pitvars
=============================================================================
