------------------------------- MODULE Schema -------------------------------
(***************************************************************************)
(* How the tables of the service come to be: the first migration, which    *)
(* makes the extension for UUIDs and all the tables in one transaction, and *)
(* the older action create-tables, which makes each table by a connection  *)
(* and a transaction of its own, logs what fails and goes on; and the seeds, *)
(* which rely on the unique names of the migrated tables.                  *)
(*                                                                         *)
(* Both say CREATE TABLE IF NOT EXISTS.  PostgreSQL (external) looks for   *)
(* the table first; who then finds its name taken by an open transaction   *)
(* waits for its end, and fails if it commits.  REFERENCES takes a lock on *)
(* the table referred to (SHARE ROW EXCLUSIVE, which two cannot have), held *)
(* to the end of the transaction; of the processes that wait for each other *)
(* in a circle PostgreSQL ends one.  Migrations has the lock that lets one *)
(* migration run at a time.                                                *)
(***************************************************************************)
EXTENDS Naturals, Sequences, FiniteSets

CONSTANTS
  Creators,   \* the processes that are run with --action=create-tables
  Migrator,   \* the process of scripts/migrate.sh
  MaxRuns,    \* bound: how often processes and seeds are run, together
  MayFail     \* whether connections may fail

Processes == Creators \cup {Migrator}

Nobody == "nobody"

ASSUME SchemaAssumption ==
  /\ Migrator \notin Creators
  /\ Nobody \notin Processes /\ "seeds" \notin Processes
  /\ MaxRuns \in Nat
  /\ MayFail \in BOOLEAN

Links == {"user_permissions", "role_permissions"}

Tables == {"users", "roles", "permissions"} \cup Links

\* Mutant: the links are made before the tables they refer to.
LinksFirst == <<"users", "user_permissions", "role_permissions", "roles", "permissions">>

\* createTables() of main.cc
CreateOrder == <<"users", "roles", "permissions", "user_permissions", "role_permissions">>

\* 001_initial_schema.sql
MigrationOrder == <<"users", "roles", "permissions", "role_permissions", "user_permissions">>

Order(p) == IF p = Migrator THEN MigrationOrder ELSE CreateOrder

\* REFERENCES, in the order of the columns: role_permissions has a user_id, in both.
Parents(t) ==
  CASE t = "user_permissions" -> <<"users", "permissions">>
    [] t = "role_permissions" -> <<"users", "roles">>
    [] OTHER -> << >>

VARIABLES
  extension,  \* uuid-ossp is there
  shape,      \* what made each table: "none", "created" or "migrated"
  maker,      \* who has made a table and not committed it yet
  recorded,   \* the version in schema_migrations
  seeded,     \* the reference data is there
  at,         \* the table a process is at: 0 before and after a run
  waits,      \* the processes that wait for the name of a table another makes
  holder,     \* whose reference has locked each table
  linked,     \* how many parents of its table a process has locked
  outcome,    \* the exit status of a process's last run
  whole,      \* the runs that had the extension and no failed connection
  victims,    \* history: the processes whose run a deadlock has ended a statement of
  runs        \* how often processes and seeds were run

locks == <<holder, linked>>

vars == <<extension, shape, maker, recorded, seeded, at, waits, locks, outcome, whole,
          victims, runs>>

Init ==
  /\ extension \in BOOLEAN
  /\ shape = [t \in Tables |-> "none"]
  /\ maker = [t \in Tables |-> Nobody]
  /\ recorded = FALSE /\ seeded = FALSE
  /\ at = [p \in Processes |-> 0]
  /\ waits = {}
  /\ holder = [t \in Tables |-> Nobody]
  /\ linked = [p \in Processes |-> 0]
  /\ victims = {}
  /\ outcome = [p \in Processes \cup {"seeds"} |-> "none"]
  /\ whole = [p \in Processes |-> FALSE]
  /\ runs = 0

-----------------------------------------------------------------------------
Table(p) == Order(p)[at[p]]

InTable(p) == at[p] \in 1..Len(CreateOrder)

There(t) == shape[t] # "none"

\* The process sees what is committed and what it has made itself.
Sees(p, t) == There(t) \/ maker[t] = p

Making(p) == InTable(p) /\ maker[Table(p)] = p

\* The parents of the table it makes that a process has still to lock.
Linking(p) == Making(p) /\ linked[p] < Len(Parents(Table(p)))

NextParent(p) == Parents(Table(p))[linked[p] + 1]

\* What the table needs is not there: the function that the migration brings
\* along itself, or the table that the next REFERENCES names.
Lacks(p) ==
  \/ p # Migrator /\ Table(p) \notin Links /\ ~extension
  \/ Linking(p) /\ ~Sees(p, NextParent(p))

Begin(p) ==
  /\ at[p] = 0 /\ runs < MaxRuns
  /\ runs' = runs + 1
  /\ whole' = [whole EXCEPT ![p] = extension]
  /\ victims' = victims \ {p}
  /\ IF p = Migrator /\ recorded
     THEN outcome' = [outcome EXCEPT ![p] = "0"] /\ UNCHANGED at
     ELSE at' = [at EXCEPT ![p] = 1] /\ outcome' = [outcome EXCEPT ![p] = "none"]
  /\ UNCHANGED <<extension, shape, maker, recorded, seeded, waits, locks>>

GoesOn(p) == at' = [at EXCEPT ![p] = @ + 1]

\* IF NOT EXISTS: a table that is there is taken as it is, whatever its shape,
\* and what it refers to is not looked at.
Skip(p) ==
  /\ InTable(p) /\ p \notin waits
  /\ There(Table(p))
  /\ GoesOn(p)
  /\ UNCHANGED <<extension, shape, maker, recorded, seeded, waits, locks, outcome,
                 whole, victims, runs>>

\* The table has its name in the transaction.
Make(p) ==
  /\ InTable(p)
  /\ ~There(Table(p)) /\ maker[Table(p)] = Nobody
  /\ maker' = [maker EXCEPT ![Table(p)] = p]
  /\ waits' = waits \ {p}
  /\ UNCHANGED <<extension, shape, recorded, seeded, at, locks, outcome, whole, victims,
                 runs>>

Wait(p) ==
  /\ InTable(p) /\ p \notin waits
  /\ ~There(Table(p)) /\ maker[Table(p)] \notin {Nobody, p}
  /\ waits' = waits \cup {p}
  /\ UNCHANGED <<extension, shape, maker, recorded, seeded, at, locks, outcome, whole,
                 victims, runs>>

\* Then its references, one after the other.
Refer(p) ==
  /\ Linking(p) /\ ~Lacks(p)
  /\ holder[NextParent(p)] \in {Nobody, p}
  /\ holder' = [holder EXCEPT ![NextParent(p)] = p]
  /\ linked' = [linked EXCEPT ![p] = @ + 1]
  /\ UNCHANGED <<extension, shape, maker, recorded, seeded, at, waits, outcome, whole,
                 victims, runs>>

Made(p) == Making(p) /\ ~Linking(p) /\ ~Lacks(p)

\* The migration makes them all in its transaction.
NextStatement ==
  /\ Made(Migrator)
  /\ linked' = [linked EXCEPT ![Migrator] = 0]
  /\ GoesOn(Migrator)
  /\ UNCHANGED <<extension, shape, maker, recorded, seeded, waits, holder, outcome,
                 whole, victims, runs>>

\* The end of a transaction gives back its locks.
Releases(p) ==
  /\ holder' = [t \in Tables |-> IF holder[t] = p THEN Nobody ELSE holder[t]]
  /\ linked' = [linked EXCEPT ![p] = 0]

\* txn.commit(): the connection is closed, and the next table has its own.
CommitTable(c) ==
  /\ Made(c)
  /\ shape' = [shape EXCEPT ![Table(c)] = "created"]
  /\ maker' = [maker EXCEPT ![Table(c)] = Nobody]
  /\ Releases(c)
  /\ GoesOn(c)
  /\ UNCHANGED <<extension, recorded, seeded, waits, outcome, whole, victims, runs>>

\* Mutant: without ON_ERROR_STOP the migration goes on and is recorded.
FailsButGoesOn(p) ==
  /\ waits' = waits \ {p}
  /\ Releases(p)
  /\ GoesOn(p)
  /\ UNCHANGED <<maker, outcome>>

\* An exception ends the transaction.  create() catches and logs it, and
\* createTables() goes on to the next table; psql stops the migration.
Fails(p) ==
  /\ maker' = [t \in Tables |-> IF maker[t] = p THEN Nobody ELSE maker[t]]
  /\ waits' = waits \ {p}
  /\ Releases(p)
  /\ IF p = Migrator
     THEN at' = [at EXCEPT ![p] = 0] /\ outcome' = [outcome EXCEPT ![p] = "failed"]
     ELSE GoesOn(p) /\ UNCHANGED outcome

\* The name is taken now, or what the table needs is not there.
Refused(p) ==
  /\ \/ InTable(p) /\ p \in waits /\ There(Table(p))
     \/ Making(p) /\ Lacks(p)
  /\ Fails(p)
  /\ UNCHANGED <<extension, shape, recorded, seeded, whole, victims, runs>>

\* Whose end a process waits for: of who makes its table, or has locked what
\* it refers to.
Blocker(p) ==
  CASE p \in waits -> maker[Table(p)]
    [] p \notin waits /\ Linking(p) /\ holder[NextParent(p)] # p -> holder[NextParent(p)]
    [] OTHER -> Nobody

Deadlocked(p) == \E S \in SUBSET Processes : p \in S /\ S = {Blocker(q) : q \in S}

\* Any one of them may be the first to have waited for deadlock_timeout.
DeadlockVictim(p) ==
  /\ Deadlocked(p)
  /\ Fails(p)
  /\ victims' = victims \cup {p}
  /\ UNCHANGED <<extension, shape, recorded, seeded, whole, runs>>

ConnectionLost(p) ==
  /\ MayFail /\ InTable(p)
  /\ whole' = [whole EXCEPT ![p] = FALSE]
  /\ Fails(p)
  /\ UNCHANGED <<extension, shape, recorded, seeded, victims, runs>>

AfterTheLast(p) == at[p] = Len(CreateOrder) + 1

\* main() returns 0, whatever was caught.
EndCreate(c) ==
  /\ AfterTheLast(c)
  /\ at' = [at EXCEPT ![c] = 0]
  /\ outcome' = [outcome EXCEPT ![c] = "0"]
  /\ UNCHANGED <<extension, shape, maker, recorded, seeded, waits, locks, whole, victims,
                 runs>>

CommitMigration ==
  /\ AfterTheLast(Migrator)
  /\ shape' = [t \in Tables |-> IF maker[t] = Migrator THEN "migrated" ELSE shape[t]]
  /\ maker' = [t \in Tables |-> IF maker[t] = Migrator THEN Nobody ELSE maker[t]]
  /\ extension' = TRUE
  /\ recorded' = TRUE
  /\ at' = [at EXCEPT ![Migrator] = 0]
  /\ outcome' = [outcome EXCEPT ![Migrator] = "0"]
  /\ Releases(Migrator)
  /\ UNCHANGED <<seeded, waits, whole, victims, runs>>

\* ON CONFLICT (name) needs the unique names, and an insert without created_at
\* its default: the created tables have neither.  One transaction for all.
Seed ==
  /\ runs < MaxRuns
  /\ runs' = runs + 1
  /\ LET works == \A t \in {"roles", "permissions"} : shape[t] = "migrated"
     IN /\ seeded' = (seeded \/ works)
        /\ outcome' = [outcome EXCEPT !["seeds"] = IF works THEN "0" ELSE "failed"]
  /\ UNCHANGED <<extension, shape, maker, recorded, at, waits, locks, whole, victims>>

Next ==
  \/ \E p \in Processes :
       \/ Begin(p) \/ Skip(p) \/ Make(p) \/ Wait(p) \/ Refer(p) \/ Refused(p)
       \/ DeadlockVictim(p) \/ ConnectionLost(p)
  \/ \E c \in Creators : CommitTable(c) \/ EndCreate(c)
  \/ NextStatement \/ CommitMigration
  \/ Seed

Spec == Init /\ [][Next]_vars

-----------------------------------------------------------------------------
TypeOK ==
  /\ extension \in BOOLEAN /\ recorded \in BOOLEAN /\ seeded \in BOOLEAN
  /\ shape \in [Tables -> {"none", "created", "migrated"}]
  /\ maker \in [Tables -> Processes \cup {Nobody}]
  /\ at \in [Processes -> 0..Len(CreateOrder) + 1]
  /\ waits \subseteq Processes /\ victims \subseteq Processes
  /\ holder \in [Tables -> Processes \cup {Nobody}]
  /\ linked \in [Processes -> 0..2]
  /\ outcome \in [Processes \cup {"seeds"} -> {"none", "0", "failed"}]
  /\ whole \in [Processes -> BOOLEAN]
  /\ runs \in 0..MaxRuns

\* A version that is recorded has all its tables, also when create-tables makes
\* some of them while the migration runs, and however often either fails.
RecordedIsComplete == recorded => extension /\ \A t \in Tables : There(t)

\* create-tables may run next to itself and to a migration: whatever it
\* swallows, a run that found the extension and lost no connection leaves every
\* table there, but for user_permissions where a deadlock made it the victim:
\* the migration makes the links in the other order, and may roll back itself
\* (main.cc:37-57, 001_initial_schema.sql:37-51).
CreateTablesCompletes ==
  \A c \in Creators : outcome[c] = "0" /\ whole[c] =>
    \A t \in Tables : There(t) \/ (t = "user_permissions" /\ c \in victims)
=============================================================================
