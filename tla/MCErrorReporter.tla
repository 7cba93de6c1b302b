-------------------------- MODULE MCErrorReporter --------------------------
(***************************************************************************)
(* Instances of ErrorReporter for TLC.  Workers are interchangeable: every *)
(* action quantifies over them and no property singles one out.            *)
(***************************************************************************)
EXTENDS ErrorReporter, TLC

Symmetry == Permutations(Workers)
=============================================================================
