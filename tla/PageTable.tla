---------------------------- MODULE PageTable ----------------------------
(***************************************************************************)
(* What may happen to the page-table entries that one linear address       *)
(* selects: the rest of the guest stores entries, and a processor that     *)
(* walks them sets accessed bits, and dirty bits for writes.  This is all  *)
(* the architecture lets a walk do to memory; GuestWalk, the walk of       *)
(* vm_gla2gpa(), implements it.  pt[l] is the entry at level l; level 0    *)
(* maps 4K pages.                                                          *)
(***************************************************************************)
EXTENDS Integers

CONSTANTS Paging,      \* "32", "PAE" or "64"
          MaxChanges   \* bound: stores of entries by the guest

VARIABLES pt,       \* the entries in guest memory
          changes   \* stores by the guest

Top == CASE Paging = "32" -> 1 [] Paging = "PAE" -> 2 [] OTHER -> 3
Levels == 0 .. Top

(* V, RW, U, A, M and PS of an entry, and whether what it points to is     *)
(* memory of the virtual machine.                                          *)
Entry == [v : BOOLEAN, rw : BOOLEAN, u : BOOLEAN, a : BOOLEAN, m : BOOLEAN, ps : BOOLEAN,
          memory : BOOLEAN]
Full == [v |-> TRUE, rw |-> TRUE, u |-> TRUE, a |-> FALSE, m |-> FALSE, ps |-> FALSE,
         memory |-> TRUE]

(* The top level of PAE has no flags but V.                                *)
HasFlags(l) == ~(Paging = "PAE" /\ l = 2)

TableInit == /\ pt \in [Levels -> {Full, [Full EXCEPT !.a = TRUE]}]
             /\ changes = 0

-----------------------------------------------------------------------------

(* A walk goes through a present entry, or writes through a writable one.  *)
Accessed(l) == /\ HasFlags(l) /\ pt[l].v
               /\ pt' = [pt EXCEPT ![l] = [@ EXCEPT !.a = TRUE]]
               /\ UNCHANGED changes

Dirtied(l) == /\ HasFlags(l) /\ pt[l].v /\ pt[l].rw
              /\ pt' = [pt EXCEPT ![l] = [@ EXCEPT !.m = TRUE]]
              /\ UNCHANGED changes

(* An entry is unmapped, write-protected, hidden from user mode, cleared   *)
(* of its accessed and dirty bits, made a large page or pointed elsewhere. *)
Changed(e) == {[e EXCEPT !.v = ~@], [e EXCEPT !.rw = ~@], [e EXCEPT !.u = ~@],
               [e EXCEPT !.a = FALSE, !.m = FALSE], [e EXCEPT !.ps = ~@],
               [e EXCEPT !.memory = ~@]}

Stored(l) == /\ changes < MaxChanges
             /\ \E e \in Changed(pt[l]) \ {pt[l]} : pt' = [pt EXCEPT ![l] = e]
             /\ changes' = changes + 1

TableNext == \E l \in Levels : Accessed(l) \/ Dirtied(l) \/ Stored(l)

TableSpec == TableInit /\ [][TableNext]_<<pt, changes>>
=============================================================================
