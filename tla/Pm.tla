--------------------------------- MODULE Pm ---------------------------------
(***************************************************************************)
(* Power management (pm.c): the power button, which is SIGTERM while ACPI  *)
(* is enabled, and the level triggered SCI.  The guest enables and         *)
(* disables ACPI through the SMI command port, the mevent thread receives  *)
(* the signal.                                                             *)
(***************************************************************************)
EXTENDS Mevent

CONSTANTS
  MaxToggles, MaxSignals   \* bounds on the times that ACPI is enabled, SIGTERM sent

VARIABLES sigq, pm, sig, toggles, sent
pmvars == <<sigq, pm, sig, toggles, sent>>

\* button: power_button is not NULL; handler: the disposition of SIGTERM, old
\* the one that ACPI_DISABLE restores (old_power_handler).
PmInit ==
  /\ sigq = MeventInit({"term"})
  /\ pm = [enable |-> {}, status |-> {}, active |-> FALSE, irq |-> 0, sci_en |-> FALSE,
           button |-> FALSE, handler |-> "default", old |-> "default", killed |-> FALSE]
  /\ sig = FALSE /\ toggles = 0 /\ sent = 0

\* sci_update with sci_assert and sci_deassert, under pm_lock.
sci_update(p) ==
  LET need == p.enable \cap p.status # {}
  IN [p EXCEPT !.active = need,
               !.irq = IF need /\ ~p.active THEN @ + 1 ELSE IF ~need /\ p.active THEN @ - 1 ELSE @]

pm1_enable_handler ==
  /\ \E v \in SUBSET {"PWRBTN", "GBL"} : pm' = sci_update([pm EXCEPT !.enable = v])
  /\ UNCHANGED <<sigq, sig, toggles, sent>>

\* Writing a one clears the status; the global status is never set.
pm1_status_handler ==
  /\ pm' = sci_update([pm EXCEPT !.status = @ \ {"PWRBTN"}])
  /\ UNCHANGED <<sigq, sig, toggles, sent>>

\* smi_cmd_handler.  With ACPI enabled SIGTERM is ignored but for the kqueue;
\* mevent_add returns NULL while the event of the last time is still listed.
AcpiEnable ==
  /\ toggles < MaxToggles /\ toggles' = toggles + 1
  /\ IF pm.button THEN pm' = [pm EXCEPT !.sci_en = TRUE] /\ UNCHANGED sigq
     ELSE /\ sigq' = mevent_add(sigq, "term")
          /\ pm' = [pm EXCEPT !.sci_en = TRUE, !.button = (sigq.ev["term"] = "none"),
                              !.old = pm.handler, !.handler = "ignore"]
  /\ UNCHANGED <<sig, sent>>

AcpiDisable ==
  /\ IF pm.button
     THEN /\ sigq' = mevent_delete(sigq, "term")
          /\ pm' = [pm EXCEPT !.sci_en = FALSE, !.button = FALSE, !.handler = pm.old]
     ELSE pm' = [pm EXCEPT !.sci_en = FALSE] /\ UNCHANGED sigq
  /\ UNCHANGED <<sig, toggles, sent>>

\* SIGTERM: the kqueue takes note of it; unless it is ignored it is fatal.
SigTerm ==
  /\ sent < MaxSignals /\ sent' = sent + 1
  /\ sig' = (sig \/ sigq.kq["term"] = "on")
  /\ pm' = [pm EXCEPT !.killed = (pm.handler = "default")]
  /\ UNCHANGED <<sigq, toggles>>

\* power_button_handler and push_power_button, in the mevent thread.
push_power_button ==
  /\ sigq.pc = "handle" /\ "term" \in sigq.hot
  /\ sigq' = Handled(sigq, "term")
  /\ pm' = sci_update([pm EXCEPT !.status = @ \cup {"PWRBTN"}])
  /\ UNCHANGED <<sig, toggles, sent>>

SigPipeRead ==
  /\ sigq.pc = "handle" /\ "pipe" \in sigq.hot /\ sigq' = Handled(sigq, "pipe")
  /\ UNCHANGED <<pm, sig, toggles, sent>>

SigBuild ==
  /\ CanBuild(sigq) /\ sigq' = Build(sigq) /\ sig' = (sig /\ sigq'.kq["term"] # "none")
  /\ UNCHANGED <<pm, toggles, sent>>
SigReady == IF sig THEN {"term"} ELSE {}
SigWake ==
  /\ CanWake(sigq, SigReady) /\ sigq' = Wake(sigq, SigReady)
  /\ sig' = (sig /\ "term" \notin sigq'.hot)
  /\ UNCHANGED <<pm, toggles, sent>>

SigThread == SigBuild \/ SigWake \/ push_power_button \/ SigPipeRead

PmNext ==
  /\ ~pm.killed
  /\ \/ SigThread \/ SigTerm
     \/ pm1_enable_handler \/ pm1_status_handler \/ AcpiEnable \/ AcpiDisable

PmSpec == PmInit /\ [][PmNext]_pmvars

-----------------------------------------------------------------------------
\* Once the mevent thread has caught up, the signal is watched exactly while
\* there is a power button, which there is with ACPI enabled only; and SIGTERM
\* does not kill a machine that has one.
ButtonWatched ==
  /\ Settled(sigq) => (sigq.kq["term"] = "on" <=> pm.button)
  /\ pm.button => pm.sci_en /\ ~pm.killed

\* "The only power management event supported is a power button upon
\* receiving SIGTERM": with ACPI enabled the signal is watched.  The code does
\* not keep it: an event that is added again before the mevent thread has
\* deleted the last one is refused, and SIGTERM ignored all the same.
PowerButton == Settled(sigq) /\ pm.sci_en => sigq.kq["term"] = "on"

\* The interrupt is asserted once, exactly while an enabled event is set.
SciMatches == pm.irq = IF pm.enable \cap pm.status # {} THEN 1 ELSE 0

(* The inductive invariant of the proofs.                                  *)

PmTypeOK ==
  /\ pm \in [enable : SUBSET {"PWRBTN", "GBL"}, status : SUBSET {"PWRBTN"}, active : BOOLEAN,
             irq : {0, 1}, sci_en : BOOLEAN, button : BOOLEAN, handler : {"default", "ignore"},
             old : {"default", "ignore"}, killed : BOOLEAN]
  /\ sigq \in [ev : [{"term"} -> {"none", "ADD", "DEL_PENDING"}], kq : [{"term"} -> {"none", "on"}],
               change : {<<>>, <<"term">>}, pipe : BOOLEAN, pc : {"start", "build", "wait", "handle"},
               hot : SUBSET {"term", "pipe"}]

\* The event of the signal is on its way into the kernel, in it, on its way
\* out of it, or unknown; and a change that is listed wakes the thread.
SignalFollows ==
  /\ pm.button => pm.sci_en /\ pm.handler = "ignore" /\ ~pm.killed
  /\ pm.button <=> sigq.ev["term"] = "ADD"
  /\ sigq.ev["term"] = "none" => sigq.kq["term"] = "none" /\ sigq.change = <<>>
  /\ sigq.ev["term"] = "ADD" => (sigq.kq["term"] = "on" <=> sigq.change = <<>>)
  /\ sigq.ev["term"] = "DEL_PENDING" => sigq.change # <<>>
  /\ sigq.pc = "wait" /\ sigq.change # <<>> => sigq.pipe

SciFollows ==
  /\ pm.active <=> pm.enable \cap pm.status # {}
  /\ pm.irq = IF pm.active THEN 1 ELSE 0

PmInv == PmTypeOK /\ SignalFollows /\ SciFollows
=============================================================================
