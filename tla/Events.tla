------------------------------- MODULE Events -------------------------------
(***************************************************************************)
(* The two clients of the event library that change what it watches while  *)
(* the machine runs: the console and the power button.                     *)
(***************************************************************************)
EXTENDS Uart, Pm

\* An event that the kernel was given is watched exactly while its device can
\* take it, whenever the mevent thread comes round to the changes that vcpus
\* asked for (WatchedIfRoom, ButtonWatched); what comes in keeps its order
\* (InputInOrder) and the interrupt of the power button follows its registers
\* (SciMatches).
EventsWatched == WatchedIfRoom /\ InputInOrder /\ ButtonWatched /\ SciMatches
=============================================================================
