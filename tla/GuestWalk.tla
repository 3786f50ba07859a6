---------------------------- MODULE GuestWalk ----------------------------
(***************************************************************************)
(* vm_gla2gpa() of vmm_instruction_emul.c: the walk of the guest's page    *)
(* tables that emulates the processor's, with the accessed and dirty bits  *)
(* set by compare-and-set, while other vcpus of the guest (and their       *)
(* processors) change the same entries.  What a walk may do to the entries *)
(* is PageTable.                                                           *)
(***************************************************************************)
EXTENDS PageTable

VARIABLES walk,     \* the walker: [pc, level, pte, prot, user, path]
          held      \* per level, the values the entry held since the walk began

vars == <<pt, walk, held, changes>>

Begin(prot, user) == [pc |-> "read", level |-> Top, pte |-> Full, prot |-> prot,
                      user |-> user, path |-> {}]

Init == /\ TableInit
        /\ walk \in {Begin(p, u) : p \in {"read", "write"}, u \in BOOLEAN}
        /\ held = [l \in Levels |-> {pt[l]}]

-----------------------------------------------------------------------------

Restart == walk' = Begin(walk.prot, walk.user)
End(how) == walk' = [walk EXCEPT !.pc = how]

(* atomic_cmpset: the entry changes only if it is still the one read.      *)
Cmpset(l, new) ==
    /\ pt' = [pt EXCEPT ![l] = new]
    /\ held' = [held EXCEPT ![l] = @ \cup {new}]

Denied(e) == \/ ~e.v
             \/ HasFlags(walk.level) /\ walk.user /\ ~e.u
             \/ HasFlags(walk.level) /\ walk.prot = "write" /\ ~e.rw

(* The entry is read and its permissions checked.                          *)
Read == /\ walk.pc = "read"
        /\ LET e == pt[walk.level]
           IN  walk' = [walk EXCEPT !.pte = e,
                          !.path = @ \cup {[level |-> walk.level, pte |-> e]},
                          !.pc = IF Denied(e) THEN "fault" ELSE "accessed"]
        /\ UNCHANGED <<pt, held, changes>>

(* After an entry: a large page ends the walk (there is none above 1 GB),  *)
(* an entry that points outside the memory is an error.                    *)
Down == LET l == walk.level
        IN  IF HasFlags(l) /\ l > 0 /\ walk.pte.ps
            THEN End(IF l = 3 THEN "fault" ELSE "dirty")
            ELSE IF l = 0 THEN End("dirty")
            ELSE IF ~walk.pte.memory THEN End("error")
            ELSE walk' = [walk EXCEPT !.level = l - 1, !.pc = "read"]

(* Mutant: the entry is stored, not compared and set.                      *)
SetAccessedAnyway ==
    LET l == walk.level
    IN  /\ walk.pc = "accessed"
        /\ IF walk.pte.a \/ ~HasFlags(l)
           THEN Down /\ UNCHANGED <<pt, held>>
           ELSE Cmpset(l, [walk.pte EXCEPT !.a = TRUE]) /\ Down
        /\ UNCHANGED changes

(* The accessed bit is set at every level; a lost race restarts the walk.  *)
SetAccessed ==
    LET l == walk.level
    IN  /\ walk.pc = "accessed"
        /\ IF walk.pte.a \/ ~HasFlags(l)
           THEN Down /\ UNCHANGED <<pt, held>>
           ELSE IF pt[l] = walk.pte
           THEN Cmpset(l, [walk.pte EXCEPT !.a = TRUE]) /\ Down
           ELSE Restart /\ UNCHANGED <<pt, held>>
        /\ UNCHANGED changes

(* The dirty bit at the last level.  The comparison is with the value that *)
(* was read, before the accessed bit was set: when this walk set it, the   *)
(* compare fails and the walk starts over.                                 *)
SetDirty ==
    LET l == walk.level
    IN  /\ walk.pc = "dirty"
        /\ IF walk.prot = "read" \/ walk.pte.m
           THEN End("ok") /\ UNCHANGED <<pt, held>>
           ELSE IF pt[l] = walk.pte
           THEN Cmpset(l, [walk.pte EXCEPT !.m = TRUE]) /\ End("ok")
           ELSE Restart /\ UNCHANGED <<pt, held>>
        /\ UNCHANGED changes

Walker == Read \/ SetAccessed \/ SetDirty

-----------------------------------------------------------------------------
\* The rest of the guest.

Guest == /\ walk.pc \in {"read", "accessed", "dirty"}
         /\ \E l \in Levels : /\ Stored(l)
                              /\ held' = [held EXCEPT ![l] = @ \cup {pt'[l]}]
         /\ UNCHANGED walk

Ended == walk.pc \in {"ok", "fault", "error"} /\ UNCHANGED vars

Next == Walker \/ Guest \/ Ended

Spec == Init /\ [][Next]_vars

-----------------------------------------------------------------------------

(* A translation that is used was one the processor could have made: every *)
(* entry on the way permitted the access and was in memory during the walk *)
(* with its accessed bit set, the last one also with its dirty bit set for *)
(* a write.  (Another vcpu may clear either bit again before the walk      *)
(* ends.)                                                                  *)
Recorded(p, bit) == \E e \in held[p.level] :
                        e[bit] /\ [e EXCEPT !.a = p.pte.a, !.m = p.pte.m] = p.pte

Permits(p) == /\ p.pte.v
              /\ HasFlags(p.level) /\ walk.prot = "write" => p.pte.rw
              /\ HasFlags(p.level) /\ walk.user => p.pte.u

TranslationRecorded ==
    walk.pc = "ok" =>
        \A p \in walk.path :
           /\ Permits(p)
           /\ HasFlags(p.level) => Recorded(p, "a")
           /\ walk.prot = "write" /\ p.level = walk.level => Recorded(p, "m")

(* The walk implements PageTable (Spec => TableSpec): it changes nothing   *)
(* but accessed and dirty bits, of entries that are present and for a      *)
(* write writable, and never undoes what another vcpu stored meanwhile.    *)
KeepsTable == [TableNext]_<<pt, changes>>

(* The inductive invariant of the proofs.                                  *)

Walks == [pc : {"read", "accessed", "dirty", "ok", "fault", "error"}, level : Levels,
          pte : Entry, prot : {"read", "write"}, user : BOOLEAN,
          path : SUBSET [level : Levels, pte : Entry]]

TypeOK ==
    /\ pt \in [Levels -> Entry]
    /\ changes \in Nat
    /\ held \in [Levels -> SUBSET Entry]
    /\ walk \in Walks

(* What the walker has read and not yet finished with was permitted; the   *)
(* levels above have their accessed bits recorded.                         *)
PathInv ==
    /\ \A l \in Levels : pt[l] \in held[l]
    /\ walk.pc \in {"accessed", "dirty"} =>
           [level |-> walk.level, pte |-> walk.pte] \in walk.path
    /\ walk.pc \in {"dirty", "ok"} => HasFlags(walk.level)
    /\ \A p \in walk.path :
           /\ p.pte \in held[p.level]
           /\ walk.pc \notin {"fault", "error"} => Permits(p)
           /\ p.level = walk.level => walk.pc # "read" /\ p.pte = walk.pte
           /\ p.level >= walk.level
           /\ HasFlags(p.level) /\ (p.level > walk.level \/ walk.pc \in {"dirty", "ok"})
                 => Recorded(p, "a")
           /\ walk.pc = "ok" /\ walk.prot = "write" /\ p.level = walk.level => Recorded(p, "m")

IInv == TypeOK /\ PathInv
=============================================================================
