-------------------------- MODULE SchemaEvolution --------------------------
(***************************************************************************)
(* What the migration runners promise: the schema is the outcome of the    *)
(* migrations 1, 2, 3, ..., each applied once, in the order of their files. *)
(***************************************************************************)
EXTENDS Naturals, Sequences

CONSTANT Files    \* how many migration files there are

VARIABLE log      \* the migrations applied to the schema, oldest first

Init == log = << >>

Migrate ==
  /\ Len(log) < Files
  /\ log' = Append(log, Len(log) + 1)

Next == Migrate

Spec == Init /\ [][Next]_log
=============================================================================
