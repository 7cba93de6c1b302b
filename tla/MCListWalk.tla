----------------------------- MODULE MCListWalk -----------------------------
(***************************************************************************)
(* ListWalk for TLC: four rows.                                            *)
(***************************************************************************)
EXTENDS ListWalk

\* Two rows are created in the same instant, between two others.
Times == [i \in Row |-> IF i > 2 THEN i - 1 ELSE i]
=============================================================================
