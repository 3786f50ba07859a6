-------------------------------- MODULE Prio --------------------------------
(***************************************************************************)
(* Interrupt vectors as vlapic.c orders them: the priority class of a      *)
(* vector and the search of the IRR and ISR words from the top.            *)
(***************************************************************************)
EXTENDS Naturals

PRIO(v) == v \div 16

Highest(S) == CHOOSE v \in S : \A w \in S : w <= v
=============================================================================
