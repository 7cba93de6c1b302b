----------------------------- MODULE Migrations -----------------------------
(***************************************************************************)
(* scripts/migrate.sh and its twin scripts/docker-migrate.sh: runners that *)
(* apply the files of db/migrations/ to one PostgreSQL database, each file *)
(* by a psql process of its own, in one transaction that begins by taking  *)
(* an advisory lock.  Runners of several releases may run at the same time, *)
(* fail at a statement, crash, and be run again.                           *)
(*                                                                         *)
(* What a transaction does is seen by others when it commits, and undone   *)
(* when it does not; the lock is held until either.                        *)
(***************************************************************************)
EXTENDS Naturals, Sequences

CONSTANTS Runners,  \* the hosts that run the script
          Files,    \* how many migration files the newest release has
          MaxRuns,  \* bound: how many times the script is run
          NoRunner

ASSUME MigrationsAssumption ==
  /\ Files \in Nat \ {0}
  /\ MaxRuns \in Nat
  /\ NoRunner \notin Runners

\* A file is known by its place in the glob's order; a release is its first
\* files.
File == 1..Files

VARIABLES
  table,    \* schema_migrations exists
  recorded, \* the versions in it
  log,      \* history: the migrations whose effects were committed
  lock,     \* the runner that holds the advisory lock
  pc,       \* what each runner does next, "idle" if it does not run
  release,  \* the number of files of its release
  file,     \* the file it is at
  ran,      \* its transaction has run the file
  noted,    \* its transaction has inserted the version
  outcome,  \* how its latest run ended
  runs      \* how many runs there have been

dbVars == << table, recorded, log, lock >>
vars == << dbVars, pc, release, file, ran, noted, outcome, runs >>

Init ==
  /\ table \in BOOLEAN
  /\ recorded = {}
  /\ log = << >>
  /\ lock = NoRunner
  /\ pc = [r \in Runners |-> "idle"]
  /\ release = [r \in Runners |-> 1]
  /\ file = [r \in Runners |-> 1]
  /\ ran = [r \in Runners |-> FALSE]
  /\ noted = [r \in Runners |-> FALSE]
  /\ outcome = [r \in Runners |-> "none"]
  /\ runs = 0

Applied == {log[i] : i \in DOMAIN log}

-----------------------------------------------------------------------------
Start(r, n) ==
  /\ pc[r] = "idle"
  /\ runs < MaxRuns
  /\ runs' = runs + 1
  /\ pc' = [pc EXCEPT ![r] = "table"]
  /\ release' = [release EXCEPT ![r] = n]
  /\ file' = [file EXCEPT ![r] = 1]
  /\ outcome' = [outcome EXCEPT ![r] = "none"]
  /\ UNCHANGED << dbVars, ran, noted >>

\* set -e: the script stops at the first psql that fails.
Stops(r, o) ==
  /\ pc' = [pc EXCEPT ![r] = "idle"]
  /\ outcome' = [outcome EXCEPT ![r] = o]
  /\ UNCHANGED << release, file, runs >>

\* CREATE TABLE IF NOT EXISTS, before any lock is taken.
TableIsThere(r) ==
  /\ pc[r] = "table"
  /\ table
  /\ pc' = [pc EXCEPT ![r] = "begin"]
  /\ UNCHANGED << dbVars, release, file, ran, noted, outcome, runs >>

CreateBegins(r) ==
  /\ pc[r] = "table"
  /\ ~ table
  /\ pc' = [pc EXCEPT ![r] = "create"]
  /\ UNCHANGED << dbVars, release, file, ran, noted, outcome, runs >>

CreateCommits(r) ==
  /\ pc[r] = "create"
  /\ ~ table
  /\ table' = TRUE
  /\ pc' = [pc EXCEPT ![r] = "begin"]
  /\ UNCHANGED << recorded, log, lock, release, file, ran, noted, outcome, runs >>

\* PostgreSQL checks for the table before it creates it: who finds the name
\* taken only then gets a unique violation of the catalog.
CreateCollides(r) ==
  /\ pc[r] = "create"
  /\ table
  /\ Stops(r, "tableCollision")
  /\ UNCHANGED << dbVars, ran, noted >>

-----------------------------------------------------------------------------
(* The transaction of one file.                                            *)

LockIsFree == lock = NoRunner

Lock(r) ==
  /\ pc[r] = "begin"
  /\ LockIsFree
  /\ lock' = r
  /\ pc' = [pc EXCEPT ![r] = "check"]
  /\ UNCHANGED << table, recorded, log, release, file, ran, noted, outcome, runs >>

\* SELECT EXISTS, \if: a statement after the lock sees all that was committed.
Check(r) ==
  /\ pc[r] = "check"
  /\ pc' = [pc EXCEPT ![r] = IF file[r] \in recorded THEN "commit" ELSE "run"]
  /\ UNCHANGED << dbVars, release, file, ran, noted, outcome, runs >>

\* Mutant: without --single-transaction the file commits by itself.
RunFileAlone(r) ==
  /\ log' = Append(log, file[r])
  /\ UNCHANGED ran

\* \i of the file, within the transaction.
RunFile(r) ==
  /\ ran' = [ran EXCEPT ![r] = TRUE]
  /\ UNCHANGED log

Run(r) ==
  /\ pc[r] = "run"
  /\ RunFile(r)
  /\ pc' = [pc EXCEPT ![r] = "record"]
  /\ UNCHANGED << table, recorded, lock, release, file, noted, outcome, runs >>

\* Mutant: a failed transaction leaves the lock behind.
UnlockByCommitOnly(r) == UNCHANGED lock

\* The end of its transaction takes the lock from a runner that has it.
Unlock(r) == lock' = IF lock = r THEN NoRunner ELSE lock

Rollback(r) ==
  /\ Unlock(r)
  /\ ran' = [ran EXCEPT ![r] = FALSE]
  /\ noted' = [noted EXCEPT ![r] = FALSE]
  /\ UNCHANGED << table, recorded, log >>

\* The primary key makes an INSERT wait for another of the same version, and
\* fail if that one was committed.
Record(r) ==
  /\ pc[r] = "record"
  /\ \A s \in Runners : noted[s] => file[s] # file[r]
  /\ IF file[r] \in recorded
       THEN Rollback(r) /\ Stops(r, "collision")
       ELSE /\ noted' = [noted EXCEPT ![r] = TRUE]
            /\ pc' = [pc EXCEPT ![r] = "commit"]
            /\ UNCHANGED << dbVars, release, file, ran, outcome, runs >>

\* ON_ERROR_STOP: a statement of the file fails.
RunFails(r) ==
  /\ pc[r] = "run"
  /\ Rollback(r)
  /\ Stops(r, "sqlError")

\* The runner, its connection or the server goes away.
Crash(r) ==
  /\ pc[r] # "idle"
  /\ Rollback(r)
  /\ Stops(r, "crash")

\* Mutant: the last file of the release is left out.
NextFileEarly(r) ==
  IF file[r] + 1 < release[r]
    THEN /\ file' = [file EXCEPT ![r] = @ + 1]
         /\ pc' = [pc EXCEPT ![r] = "begin"]
         /\ UNCHANGED << release, outcome, runs >>
    ELSE Stops(r, "done")

\* The loop over the files, and the script's end.
NextFile(r) ==
  IF file[r] < release[r]
    THEN /\ file' = [file EXCEPT ![r] = @ + 1]
         /\ pc' = [pc EXCEPT ![r] = "begin"]
         /\ UNCHANGED << release, outcome, runs >>
    ELSE Stops(r, "done")

Commit(r) ==
  /\ pc[r] = "commit"
  /\ recorded' = IF noted[r] THEN recorded \cup {file[r]} ELSE recorded
  /\ log' = IF ran[r] THEN Append(log, file[r]) ELSE log
  /\ lock' = IF lock = r THEN NoRunner ELSE lock
  /\ ran' = [ran EXCEPT ![r] = FALSE]
  /\ noted' = [noted EXCEPT ![r] = FALSE]
  /\ NextFile(r)
  /\ UNCHANGED table

-----------------------------------------------------------------------------
\* What a runner does without waiting for another.
Step(r) ==
  \/ TableIsThere(r) \/ CreateBegins(r) \/ CreateCommits(r) \/ CreateCollides(r)
  \/ Check(r) \/ Run(r) \/ RunFails(r) \/ Record(r) \/ Commit(r)

Next ==
  \E r \in Runners :
    (\E n \in File : Start(r, n)) \/ Lock(r) \/ Step(r) \/ Crash(r)

Spec == Init /\ [][Next]_vars

\* A runner that is not waiting goes on; PostgreSQL queues who waits for the
\* lock, so a lock that comes to be free again and again is granted.
Fairness ==
  \A r \in Runners : WF_vars(Step(r)) /\ SF_vars(Lock(r))

FairSpec == Spec /\ Fairness

-----------------------------------------------------------------------------
TypeOK ==
  /\ table \in BOOLEAN
  /\ recorded \subseteq File
  /\ log \in Seq(File)
  /\ lock \in Runners \cup {NoRunner}
  /\ pc \in [Runners -> {"idle", "table", "create", "begin", "check", "run",
                         "record", "commit"}]
  /\ release \in [Runners -> File]
  /\ file \in [Runners -> File]
  /\ \A r \in Runners : file[r] <= release[r]
  /\ ran \in [Runners -> BOOLEAN]
  /\ noted \in [Runners -> BOOLEAN]
  /\ outcome \in [Runners -> {"none", "done", "tableCollision", "collision", "sqlError",
                             "crash"}]
  /\ runs \in 0..MaxRuns

\* "Each migration is applied once and recorded in schema_migrations": whatever
\* fails or crashes, the table tells exactly which migrations the schema has.
RecordedIffApplied == recorded = Applied

\* A run that exits with 0 leaves the schema of its release, or a newer one, for
\* the replicas that are started next.
MigratedWhenDone ==
  \A r \in Runners : outcome[r] = "done" => 1..release[r] \subseteq Applied

\* "concurrent migration runners serialize safely": no INSERT meets a version
\* that another runner has recorded.
NoCollision == \A r \in Runners : outcome[r] # "collision"

\* Every run ends: no runner waits for ever for another's lock.
RunsEnd == \A r \in Runners : pc[r] # "idle" ~> pc[r] = "idle"

\* Each migration is applied once, and in the order of the files.
Schema == INSTANCE SchemaEvolution
ImplementsSchema == Schema!Spec

-----------------------------------------------------------------------------
(* Strengthenings: the inductive invariant behind the properties above.    *)

InTransaction == {"check", "run", "record", "commit"}

\* What was applied are the first files.
LogIsInitialSegment ==
  /\ \A i \in DOMAIN log : log[i] = i
  /\ recorded = 1..Len(log)

\* Who is between lock and commit has the lock, and nobody else has it.
LockHeld == \A r \in Runners : pc[r] \in InTransaction <=> lock = r

\* A runner gets to a file when the files before it are applied, and runs it
\* when it is the next one.
Progress ==
  \A r \in Runners :
    /\ pc[r] # "idle" => file[r] <= Len(log) + 1
    /\ pc[r] \in {"run", "record"} => file[r] = Len(log) + 1
    /\ pc[r] = "commit" => IF noted[r] THEN file[r] = Len(log) + 1
                                       ELSE file[r] <= Len(log)
    /\ ran[r] <=> pc[r] = "record" \/ (pc[r] = "commit" /\ noted[r])
    /\ noted[r] => pc[r] = "commit"
    /\ outcome[r] = "done" => release[r] <= Len(log)
=============================================================================
