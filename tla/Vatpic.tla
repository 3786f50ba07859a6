------------------------------- MODULE Vatpic -------------------------------
(***************************************************************************)
(* The pair of cascaded 8259 interrupt controllers (vatpic.c): chip 0 is   *)
(* the master, chip 1 the slave, wired to pin 2 of the master.  Devices    *)
(* assert and deassert lines <<chip, pin>>; the guest initialises the      *)
(* chips (ICW1 to ICW4), masks, acknowledges and polls them; the vcpu asks *)
(* for the vector of an ExtINT and then accepts it, with the lock released *)
(* in between.  LINT0 of that vcpu is ExtINT and unmasked throughout.      *)
(* `pdev' is what the devices really hold asserted, so that acnt can be    *)
(* compared with it.                                                       *)
(***************************************************************************)
EXTENDS Integers

CONSTANTS
  Lines,      \* the wired lines, without the cascade
  Level,      \* the lines the guest may make level-triggered
  Features,   \* what the guest uses: of "AEOI", "SFNM", "SMM", "ROTATE", "POLL", "REINIT"
  MaxHeld     \* bound on the assertions of a line outstanding at a time

Chips == {0, 1}

\* Pin 2 of the master is the cascade.
ASSUME PicConstants ==
  /\ Lines \subseteq (Chips \X (0 .. 7)) \ {<<0, 2>>}
  /\ Level \subseteq Lines /\ MaxHeld \in Nat

VARIABLES
  atpic,      \* struct atpic of each chip; acnt is kept apart
  pacnt,      \* acnt: sum of asserts and deasserts of each line
  elc,        \* lines set to level in the ELCR
  pextint,    \* an ExtINT is pending for the vcpu
  pvec,       \* line vatpic_pending_intr reported to the vcpu, or NoLine
  pdev,
  strayed     \* the guest has polled a chip, or set one up again or out of order

picvars == <<atpic, pacnt, elc, pextint, pvec, pdev, strayed>>
NoLine == <<0, 8>>

\* vatpic_init.
PicInit ==
  /\ atpic = [k \in Chips |->
       [icw |-> 0, ready |-> FALSE, req |-> {}, srv |-> {}, msk |-> {},
        low |-> 0, rotate |-> FALSE, smm |-> FALSE, sfn |-> FALSE,
        aeoi |-> FALSE, poll |-> FALSE, raised |-> FALSE]]
  /\ pacnt = [l \in Lines |-> 0] /\ pdev = [l \in Lines |-> 0]
  /\ elc = {} /\ pextint = FALSE /\ pvec = NoLine /\ strayed = FALSE

-----------------------------------------------------------------------------
(* Priorities and notification.                                            *)

\* ATPIC_PIN_FOREACH visits the pins from the one after lowprio.
Rank(p, low) == (p - low + 7) % 8

First(S, low) ==
  IF S = {} THEN -1
  ELSE CHOOSE p \in S : \A q \in S : Rank(p, low) <= Rank(q, low)

vatpic_get_highest_isrpin(a) ==
  First(IF a.smm THEN a.srv \ a.msk ELSE a.srv, a.low)

vatpic_get_highest_irrpin(a) ==
  LET serviced == IF a.smm THEN {} ELSE IF a.sfn THEN a.srv \ {2} ELSE a.srv
  IN First({p \in a.req \ a.msk :
              \A q \in serviced : Rank(p, a.low) < Rank(q, a.low)}, a.low)

Eligible(a) == vatpic_get_highest_irrpin(a) # -1

\* vatpic_notify_intr on the chips A: first the slave, whose request pulses
\* pin 2 of the master, then the master, whose request raises LINT0.
Cascaded(A) ==
  IF ~A[1].raised /\ Eligible(A[1])
  THEN [A EXCEPT ![1].raised = TRUE, ![0].req = @ \cup {2}]
  ELSE A

Notified(A) == [Cascaded(A) EXCEPT ![0].raised = @ \/ Eligible(Cascaded(A)[0])]

vatpic_notify_intr(A) ==
  /\ atpic' = Notified(A)
  /\ pextint' = (pextint \/ (Notified(A)[0].raised /\ ~A[0].raised))

-----------------------------------------------------------------------------
(* Devices.                                                                *)

\* The request of line l when its count goes from old to new.
vatpic_set_pinstate(A, l, old, new) ==
  LET level == l \in elc
      set == (old = 0 /\ new = 1) \/ (new > 0 /\ level)
      clr == ~set /\ old = 1 /\ new = 0 /\ level
  IN [A EXCEPT ![l[1]].req = IF set THEN @ \cup {l[2]} ELSE IF clr THEN @ \ {l[2]} ELSE @]

\* vatpic_set_irqstate: ignored while the chip is not ready.
vatpic_set_irqstate(l, d) ==
  IF atpic[l[1]].ready
  THEN /\ pacnt' = [pacnt EXCEPT ![l] = @ + d]
       /\ vatpic_notify_intr(vatpic_set_pinstate(atpic, l, pacnt[l], pacnt[l] + d))
  ELSE UNCHANGED <<pacnt, atpic, pextint>>

vatpic_assert_irq(l) ==
  /\ pdev[l] < MaxHeld
  /\ pdev' = [pdev EXCEPT ![l] = @ + 1]
  /\ vatpic_set_irqstate(l, 1)
  /\ UNCHANGED <<elc, pvec, strayed>>

vatpic_deassert_irq(l) ==
  /\ pdev[l] > 0
  /\ pdev' = [pdev EXCEPT ![l] = @ - 1]
  /\ vatpic_set_irqstate(l, -1)
  /\ UNCHANGED <<elc, pvec, strayed>>

\* Both changes under one lock, with a notification after each.
vatpic_pulse_irq(l) ==
  /\ atpic[l[1]].ready
  /\ LET up == Notified(vatpic_set_pinstate(atpic, l, pacnt[l], pacnt[l] + 1)) IN
     /\ atpic' = Notified(vatpic_set_pinstate(up, l, pacnt[l] + 1, pacnt[l]))
     /\ pextint' = (pextint \/ (atpic'[0].raised /\ ~atpic[0].raised))
  /\ UNCHANGED <<pacnt, elc, pvec, pdev, strayed>>

-----------------------------------------------------------------------------
(* Guest accesses; with one vcpu none comes between the two steps of an    *)
(* acceptance.                                                             *)

\* The guest initialises a chip again, or the slave first.
Again(k) == atpic[k].ready \/ atpic[k].icw # 0 \/ (k = 1 /\ ~atpic[0].ready)

\* ICW1 forgets requests and masks, but neither what is in service nor that
\* an interrupt was raised.  Guests initialise the master first, and once
\* unless "REINIT".
vatpic_icw1(k) ==
  /\ pvec = NoLine
  /\ Again(k) => "REINIT" \in Features
  /\ strayed' = (strayed \/ Again(k))
  /\ atpic' = [atpic EXCEPT ![k] = [atpic[k] EXCEPT !.ready = FALSE, !.icw = 2,
                 !.req = {}, !.msk = {}, !.low = 7, !.poll = FALSE, !.smm = FALSE]]
  /\ UNCHANGED <<pacnt, elc, pextint, pvec, pdev>>

\* ICW2 and ICW3 only move on; the base of the vectors is not told apart.
vatpic_icw23(k) ==
  /\ pvec = NoLine /\ atpic[k].icw \in {2, 3}
  /\ atpic' = [atpic EXCEPT ![k].icw = @ + 1]
  /\ UNCHANGED <<pacnt, elc, pextint, pvec, pdev, strayed>>

vatpic_icw4(k, auto, nested) ==
  /\ pvec = NoLine /\ atpic[k].icw = 4
  /\ auto => "AEOI" \in Features
  /\ nested => "SFNM" \in Features
  /\ LET a == atpic[k] IN
     vatpic_notify_intr([atpic EXCEPT ![k] = [a EXCEPT !.icw = 0, !.ready = TRUE,
       !.aeoi = a.aeoi \/ auto, !.sfn = a.sfn \/ (nested /\ k = 0)]])
  /\ UNCHANGED <<pacnt, elc, pvec, pdev, strayed>>

\* Mutant: unmasking does not re-evaluate the chips.
MaskOnly(k, S) ==
  /\ pvec = NoLine /\ atpic[k].icw = 0 /\ S # atpic[k].msk
  /\ atpic' = [atpic EXCEPT ![k].msk = S]
  /\ UNCHANGED <<pacnt, elc, pextint, pvec, pdev, strayed>>

\* OCW1, the mask register.
vatpic_ocw1(k, S) ==
  /\ pvec = NoLine /\ atpic[k].icw = 0 /\ S # atpic[k].msk
  /\ LET A == [atpic EXCEPT ![k].msk = S] IN
     IF A[k].ready THEN vatpic_notify_intr(A) ELSE atpic' = A /\ UNCHANGED pextint
  /\ UNCHANGED <<pacnt, elc, pvec, pdev, strayed>>

\* OCW2: an EOI of the pin named, or of the highest one in service (-1), which
\* with rotation becomes the lowest priority; without EOI, rotation on or off
\* for the automatic EOIs, and a lowest priority if one is named.
vatpic_ocw2(k, eoi, named, rot) ==
  LET a == atpic[k]
      p == IF eoi /\ named = -1 THEN vatpic_get_highest_isrpin(a) ELSE named
  IN
  /\ pvec = NoLine /\ atpic[k].ready
  /\ rot \/ ~eoi => "ROTATE" \in Features
  /\ vatpic_notify_intr([atpic EXCEPT ![k] =
       [a EXCEPT !.rotate = rot,
                 !.srv = IF eoi THEN a.srv \ {p} ELSE a.srv,
                 !.low = IF rot /\ p # -1 THEN p ELSE a.low]])
  /\ UNCHANGED <<pacnt, elc, pvec, pdev, strayed>>

\* OCW3: special mask mode, and the poll command.
vatpic_ocw3(k, what) ==
  /\ pvec = NoLine /\ atpic[k].ready
  /\ what \in Features
  /\ LET a == atpic[k] IN
     vatpic_notify_intr([atpic EXCEPT ![k] =
       IF what = "SMM" THEN [a EXCEPT !.smm = ~a.smm] ELSE [a EXCEPT !.poll = TRUE]])
  /\ UNCHANGED <<pacnt, elc, pvec, pdev, strayed>>

\* vatpic_elc_handler, or a device by vatpic_set_irq_trigger: lines 0, 1, 2, 8 and 13 stay edge-triggered.
vatpic_elc_handler(l) ==
  /\ pvec = NoLine
  /\ l \in Level \ {<<0, 0>>, <<0, 1>>, <<0, 2>>, <<1, 0>>, <<1, 5>>}
  /\ elc' = IF l \in elc THEN elc \ {l} ELSE elc \cup {l}
  /\ UNCHANGED <<atpic, pacnt, pextint, pvec, pdev, strayed>>

-----------------------------------------------------------------------------
(* Acceptance.                                                             *)

\* vatpic_pin_accepted: the request of a line still asserted stays.
vatpic_pin_accepted(A, k, p) ==
  LET a == A[k]
      held == <<k, p>> \in Lines /\ pacnt[<<k, p>>] # 0
  IN [A EXCEPT ![k] = [a EXCEPT
        !.raised = FALSE,
        !.req = IF held THEN a.req ELSE a.req \ {p},
        !.srv = IF a.aeoi THEN a.srv ELSE a.srv \cup {p},
        !.low = IF a.aeoi /\ a.rotate THEN p ELSE a.low]]

\* A read after the poll command accepts, without re-evaluating the chips.
PollRead(k) ==
  LET p == vatpic_get_highest_irrpin(atpic[k])
      A == [atpic EXCEPT ![k].poll = FALSE]
  IN /\ pvec = NoLine /\ atpic[k].poll
     /\ atpic' = IF p = -1 THEN A ELSE vatpic_pin_accepted(A, k, p)
     /\ strayed' = TRUE
     /\ UNCHANGED <<pacnt, elc, pextint, pvec, pdev>>

\* vatpic_pending_intr: pin 7 when nothing is eligible any more.
vatpic_pending_intr ==
  LET m == vatpic_get_highest_irrpin(atpic[0])
      k == IF m = 2 THEN 1 ELSE 0
      p == vatpic_get_highest_irrpin(atpic[k])
  IN /\ pextint /\ pvec = NoLine
     /\ pvec' = <<k, IF p = -1 THEN 7 ELSE p>>
     /\ UNCHANGED <<atpic, pacnt, elc, pextint, pdev, strayed>>

\* vmx_inject_interrupts clears the ExtINT and calls vatpic_intr_accepted.
vatpic_intr_accepted ==
  LET A == vatpic_pin_accepted(atpic, pvec[1], pvec[2]) IN
     /\ pvec # NoLine
     /\ atpic' = Notified(IF pvec[1] = 1 THEN vatpic_pin_accepted(A, 0, 2) ELSE A)
     /\ pextint' = atpic'[0].raised
     /\ pvec' = NoLine
     /\ UNCHANGED <<pacnt, elc, pdev, strayed>>

\* The masks the guest writes: nothing, everything wired, the cascade only.
Masks(k) == {{}, {l[2] : l \in {x \in Lines : x[1] = k}}}
              \cup (IF k = 0 THEN {{2}} ELSE {})

PicNext ==
  \/ \E l \in Lines : \/ vatpic_assert_irq(l) \/ vatpic_deassert_irq(l)
                      \/ vatpic_pulse_irq(l) \/ vatpic_elc_handler(l)
  \/ \E k \in Chips :
       \/ vatpic_icw1(k) \/ vatpic_icw23(k) \/ PollRead(k)
       \/ \E auto, nested \in BOOLEAN : vatpic_icw4(k, auto, nested)
       \/ \E S \in Masks(k) : vatpic_ocw1(k, S)
       \/ \E eoi, rot \in BOOLEAN, p \in {-1} \cup atpic[k].srv : vatpic_ocw2(k, eoi, p, rot)
       \/ \E what \in {"SMM", "POLL"} : vatpic_ocw3(k, what)
  \/ vatpic_pending_intr \/ vatpic_intr_accepted

PicSpec == PicInit /\ [][PicNext]_picvars

-----------------------------------------------------------------------------
(* Properties.                                                             *)

Chip ==
  [icw : {0, 2, 3, 4}, ready : BOOLEAN, req : SUBSET (0 .. 7), srv : SUBSET (0 .. 7),
   msk : SUBSET (0 .. 7), low : 0 .. 7, rotate : BOOLEAN, smm : BOOLEAN, sfn : BOOLEAN,
   aeoi : BOOLEAN, poll : BOOLEAN, raised : BOOLEAN]

PicTypeOK ==
  /\ atpic \in [Chips -> Chip]
  /\ pacnt \in [Lines -> Int] /\ pdev \in [Lines -> Nat] /\ elc \subseteq Lines
  /\ pextint \in BOOLEAN /\ strayed \in BOOLEAN
  /\ pvec \in (Chips \X (0 .. 7)) \cup {NoLine}

\* No eligible request is left waiting for the next event: after whatever
\* mixture of edges, masking, EOIs and acceptances, a ready chip with an
\* eligible request has raised its interrupt, and a raised slave has its
\* request at the master (until the guest polls or re-initialises).
EligibleRaised ==
  ~strayed =>
    /\ \A k \in Chips : atpic[k].ready /\ Eligible(atpic[k]) => atpic[k].raised
    /\ atpic[1].raised => 2 \in atpic[0].req

\* intr_raised of the master is exactly "an ExtINT is on its way": were it
\* left set, no interrupt of the 8259s would ever reach a vcpu again.
RaisedHasExtint == ~strayed => (atpic[0].raised <=> pextint)

\* Fully nested: a line other than the spurious one goes in service only if
\* nothing of its chip at the same or a higher priority is in service.
Nested ==
  \A k \in Chips : \A p \in atpic'[k].srv \ atpic[k].srv :
    atpic[k].smm \/ atpic[k].sfn \/ p = 7
    \/ \A q \in atpic[k].srv : Rank(p, atpic[k].low) < Rank(q, atpic[k].low)

\* The three of them: no eligible request of the 8259s waits for the next event,
\* a raised interrupt has its ExtINT on the way, and service nests (vatpic.c).
EligibleServed == [](EligibleRaised /\ RaisedHasExtint) /\ [][Nested]_picvars

(* The inductive invariant of the proofs.                                  *)

\* A chip that is not initialised has no requests and has raised nothing, and
\* the slave is initialised after the master.
Unready(A) ==
  /\ \A k \in Chips : ~A[k].ready => A[k].req = {} /\ ~A[k].raised
  /\ A[1].icw # 0 \/ A[1].ready => A[0].ready

\* Pin p may go in service at chip a, but for the spurious one.
Above(a, p) ==
  \/ a.smm \/ a.sfn \/ p = 7
  \/ \A q \in a.srv : Rank(p, a.low) < Rank(q, a.low)

\* What vatpic_pending_intr reported may still go in service: while the vcpu
\* holds no lock, devices change requests only.
Reported ==
  pvec # NoLine =>
    /\ pvec[1] = 0 => pvec[2] # 2
    /\ Above(atpic[pvec[1]], pvec[2])
    /\ pvec[1] = 1 => Above(atpic[0], 2)

PicInv ==
  /\ PicTypeOK /\ EligibleRaised /\ RaisedHasExtint
  /\ ~strayed => Unready(atpic)
  /\ Reported

(* A statement of the source that the code does not keep.                  *)

\* struct atpic: acnt is the "sum of pin asserts and deasserts".
AcntIsSum == \A l \in Lines : atpic[l[1]].ready => pacnt[l] = pdev[l]
=============================================================================
