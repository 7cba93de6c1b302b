-------------------------- MODULE MigrationsProofs --------------------------
(***************************************************************************)
(* Proofs about the migration runners, for any number of runners, files    *)
(* and runs.                                                               *)
(***************************************************************************)
EXTENDS Migrations, TLAPS

\* The applied migrations are one fact about the log and the table.
LEMMA SegmentFacts ==
  ASSUME TypeOK, LogIsInitialSegment
  PROVE  /\ Len(log) \in Nat /\ Len(log) <= Files
         /\ Applied = 1..Len(log)
         /\ recorded = 1..Len(log)
<1>1. Len(log) \in Nat /\ DOMAIN log = 1..Len(log) /\ \A i \in 1..Len(log) : log[i] \in File
  BY DEF TypeOK
<1>2. Applied = 1..Len(log)
  BY <1>1 DEF Applied, LogIsInitialSegment
<1>3. Len(log) <= Files
  <2>1. CASE Len(log) = 0
    BY <2>1, MigrationsAssumption
  <2>2. CASE Len(log) # 0
    <3>1. log[Len(log)] = Len(log) /\ Len(log) \in 1..Len(log)
      BY <1>1, <2>2 DEF LogIsInitialSegment
    <3> QED
      BY <1>1, <3>1, MigrationsAssumption DEF File
  <2> QED
    BY <2>1, <2>2
<1> QED
  BY <1>1, <1>2, <1>3 DEF LogIsInitialSegment

-----------------------------------------------------------------------------
(* Types.                                                                  *)

\* No runner runs at the start.
LEMMA TypeInit == Init => TypeOK
  BY MigrationsAssumption DEF Init, TypeOK, File

\* The places where a runner can be.
Pcs == {"idle", "table", "create", "begin", "check", "run", "record", "commit"}

\* How a run can have ended.
Outcomes == {"none", "done", "tableCollision", "collision", "sqlError", "crash"}

\* The end of a run or of a transaction keeps the types.
LEMMA TypeOfEnds ==
  ASSUME TypeOK, NEW r \in Runners, NEW o \in Outcomes
  PROVE  /\ Stops(r, o) => /\ pc' \in [Runners -> Pcs]
                           /\ outcome' \in [Runners -> Outcomes]
                           /\ release' \in [Runners -> File]
                           /\ file' \in [Runners -> File]
                           /\ \A s \in Runners : file'[s] <= release'[s]
                           /\ runs' \in 0..MaxRuns
         /\ Rollback(r) => /\ table' \in BOOLEAN /\ recorded' \subseteq File
                           /\ log' \in Seq(File)
                           /\ lock' \in Runners \cup {NoRunner}
                           /\ ran' \in [Runners -> BOOLEAN]
                           /\ noted' \in [Runners -> BOOLEAN]
<1>1. ASSUME Stops(r, o)
      PROVE  /\ pc' \in [Runners -> Pcs]
             /\ outcome' \in [Runners -> Outcomes]
             /\ release' \in [Runners -> File]
             /\ file' \in [Runners -> File]
             /\ \A s \in Runners : file'[s] <= release'[s]
             /\ runs' \in 0..MaxRuns
  BY <1>1 DEF Stops, TypeOK, Pcs, Outcomes
<1>2. ASSUME Rollback(r)
      PROVE  /\ table' \in BOOLEAN /\ recorded' \subseteq File
             /\ log' \in Seq(File)
             /\ lock' \in Runners \cup {NoRunner}
             /\ ran' \in [Runners -> BOOLEAN]
             /\ noted' \in [Runners -> BOOLEAN]
  BY <1>2 DEF Rollback, Unlock, TypeOK
<1> QED
  BY <1>1, <1>2

\* The next file, if the release has one, is a file.
LEMMA TypeOfNextFile ==
  ASSUME TypeOK, NEW r \in Runners, NextFile(r)
  PROVE  /\ pc' \in [Runners -> Pcs]
         /\ outcome' \in [Runners -> Outcomes]
         /\ release' \in [Runners -> File]
         /\ file' \in [Runners -> File]
         /\ \A s \in Runners : file'[s] <= release'[s]
         /\ runs' \in 0..MaxRuns
<1>1. CASE file[r] < release[r]
  <2>1. file[r] \in File /\ release[r] \in File /\ file[r] + 1 \in File
    BY <1>1, MigrationsAssumption DEF TypeOK, File
  <2>2. /\ file' = [file EXCEPT ![r] = file[r] + 1]
        /\ pc' = [pc EXCEPT ![r] = "begin"]
        /\ UNCHANGED << release, outcome, runs >>
    BY <1>1 DEF NextFile
  <2>3. \A s \in Runners : file'[s] <= release'[s]
    <3>1. \A s \in Runners : file'[s] = IF s = r THEN file[r] + 1 ELSE file[s]
      BY <2>2 DEF TypeOK
    <3>2. file[r] + 1 <= release[r]
      BY <1>1, <2>1 DEF File
    <3> QED
      BY <2>2, <3>1, <3>2 DEF TypeOK
  <2> QED
    BY <2>1, <2>2, <2>3 DEF TypeOK, Pcs, Outcomes
<1>2. CASE ~ (file[r] < release[r])
  BY <1>2, TypeOfEnds DEF NextFile, Outcomes
<1> QED
  BY <1>1, <1>2

\* Every step of a runner keeps the types.
LEMMA TypeStep == TypeOK /\ [Next]_vars => TypeOK'
<1> SUFFICES ASSUME TypeOK, [Next]_vars PROVE TypeOK'
  OBVIOUS
<1>1. ASSUME NEW r \in Runners, NEW n \in File, Start(r, n) PROVE TypeOK'
  <2>1. runs + 1 \in 0..MaxRuns /\ 1 \in File /\ n \in File /\ 1 <= n
    BY <1>1, MigrationsAssumption DEF Start, TypeOK, File
  <2> QED
    BY <1>1, <2>1 DEF Start, TypeOK, dbVars
<1>2. ASSUME NEW r \in Runners, TableIsThere(r) PROVE TypeOK'
  BY <1>2 DEF TableIsThere, TypeOK, dbVars
<1>3. ASSUME NEW r \in Runners, CreateBegins(r) PROVE TypeOK'
  BY <1>3 DEF CreateBegins, TypeOK, dbVars
<1>4. ASSUME NEW r \in Runners, CreateCommits(r) PROVE TypeOK'
  BY <1>4 DEF CreateCommits, TypeOK
<1>5. ASSUME NEW r \in Runners, CreateCollides(r) PROVE TypeOK'
  BY <1>5 DEF CreateCollides, Stops, TypeOK, dbVars
<1>6. ASSUME NEW r \in Runners, Lock(r) PROVE TypeOK'
  BY <1>6 DEF Lock, TypeOK
<1>7. ASSUME NEW r \in Runners, Check(r) PROVE TypeOK'
  BY <1>7 DEF Check, TypeOK, dbVars
<1>8. ASSUME NEW r \in Runners, Run(r) PROVE TypeOK'
  BY <1>8 DEF Run, RunFile, TypeOK
<1>9. ASSUME NEW r \in Runners, Record(r) PROVE TypeOK'
  <2>1. CASE file[r] \in recorded
    <3>1. Rollback(r) /\ Stops(r, "collision")
      BY <1>9, <2>1 DEF Record
    <3> QED
      BY <3>1, TypeOfEnds DEF TypeOK, Pcs, Outcomes
  <2>2. CASE file[r] \notin recorded
    BY <1>9, <2>2 DEF Record, TypeOK, dbVars
  <2> QED
    BY <2>1, <2>2
<1>10. ASSUME NEW r \in Runners, RunFails(r) \/ Crash(r) PROVE TypeOK'
  <2>1. Rollback(r) /\ (Stops(r, "sqlError") \/ Stops(r, "crash"))
    BY <1>10 DEF RunFails, Crash
  <2> QED
    BY <2>1, TypeOfEnds DEF TypeOK, Pcs, Outcomes
<1>11. ASSUME NEW r \in Runners, Commit(r) PROVE TypeOK'
  <2>1. file[r] \in File
    BY DEF TypeOK
  <2>2. /\ table' \in BOOLEAN /\ recorded' \subseteq File
        /\ log' \in Seq(File)
        /\ lock' \in Runners \cup {NoRunner}
        /\ ran' \in [Runners -> BOOLEAN]
        /\ noted' \in [Runners -> BOOLEAN]
    BY <1>11, <2>1 DEF Commit, TypeOK
  <2>3. NextFile(r)
    BY <1>11 DEF Commit
  <2> QED
    BY <2>2, <2>3, TypeOfNextFile DEF TypeOK, Pcs, Outcomes
<1>12. CASE UNCHANGED vars
  BY <1>12 DEF vars, dbVars, TypeOK
<1> QED
  BY <1>1, <1>2, <1>3, <1>4, <1>5, <1>6, <1>7, <1>8, <1>9, <1>10, <1>11, <1>12
     DEF Next, Step

\* Every reachable state of the runners and of the database is well-typed.
THEOREM TypeCorrect == Spec => []TypeOK
  BY TypeInit, TypeStep, PTL DEF Spec

-----------------------------------------------------------------------------
(* The inductive invariant.                                                *)

Inv ==
  /\ TypeOK
  /\ LogIsInitialSegment
  /\ LockHeld
  /\ Progress
  /\ NoCollision

\* The invariant holds of a database without migrations.
LEMMA InvInit == Init => Inv
<1> SUFFICES ASSUME Init PROVE Inv
  OBVIOUS
<1>1. Len(log) = 0 /\ recorded = 1..Len(log) /\ DOMAIN log = {}
  BY DEF Init
<1> QED
  BY <1>1, TypeInit, MigrationsAssumption
     DEF Inv, Init, LogIsInitialSegment, LockHeld, InTransaction, Progress, NoCollision

\* What one runner knows of its file, its transaction and its last run, when n
\* migrations are applied.
Knows(r, n) ==
  /\ pc[r] # "idle" => file[r] <= n + 1
  /\ pc[r] \in {"run", "record"} => file[r] = n + 1
  /\ pc[r] = "commit" => IF noted[r] THEN file[r] = n + 1 ELSE file[r] <= n
  /\ ran[r] <=> pc[r] = "record" \/ (pc[r] = "commit" /\ noted[r])
  /\ noted[r] => pc[r] = "commit"
  /\ outcome[r] = "done" => release[r] <= n

\* A runner that has not moved knows no less when a migration is added, unless
\* it is in a transaction.
LEMMA KnowsMore ==
  ASSUME TypeOK, NEW r \in Runners, NEW n \in Nat, NEW m \in Nat, Knows(r, n),
         m = n \/ (m = n + 1 /\ pc[r] \notin InTransaction),
         pc'[r] = pc[r], file'[r] = file[r], release'[r] = release[r],
         ran'[r] = ran[r], noted'[r] = noted[r], outcome'[r] = outcome[r]
  PROVE  Knows(r, m)'
<1>1. file[r] \in Nat /\ release[r] \in Nat
  BY MigrationsAssumption DEF TypeOK, File
<1>2. CASE m = n
  BY <1>2 DEF Knows
<1>3. CASE m = n + 1 /\ pc[r] \notin InTransaction
  BY <1>1, <1>3 DEF Knows, InTransaction
<1> QED
  BY <1>2, <1>3

\* A step of one runner that leaves the log, the table's rows and the lock alone.
LEMMA InvOfOneRunner ==
  ASSUME Inv, TypeOK', NEW r \in Runners,
         UNCHANGED << recorded, log, lock >>,
         \A s \in Runners \ {r} :
           /\ pc'[s] = pc[s] /\ file'[s] = file[s] /\ release'[s] = release[s]
           /\ ran'[s] = ran[s] /\ noted'[s] = noted[s] /\ outcome'[s] = outcome[s],
         pc'[r] \in InTransaction <=> pc[r] \in InTransaction,
         Knows(r, Len(log))',
         outcome'[r] # "collision"
  PROVE  Inv'
<1>1. LogIsInitialSegment' /\ LockHeld'
  BY DEF Inv, LogIsInitialSegment, LockHeld
<1>2. Progress'
  <2>1. Len(log) \in Nat
    BY DEF Inv, TypeOK
  <2>2. ASSUME NEW s \in Runners PROVE Knows(s, Len(log))'
    <3>1. CASE s = r
      BY <3>1
    <3>2. CASE s # r
      <4>1. Knows(s, Len(log))
        BY DEF Inv, Progress, Knows
      <4> QED
        BY <2>1, <3>2, <4>1 DEF Inv, Knows
    <3> QED
      BY <3>1, <3>2
  <2> QED
    BY <2>2 DEF Progress, Knows
<1>3. NoCollision'
  BY DEF Inv, NoCollision
<1> QED
  BY <1>1, <1>2, <1>3 DEF Inv

\* A run that starts, creates the table or works on its file in its transaction.
LEMMA InvOfSteps ==
  ASSUME Inv, TypeOK', NEW r \in Runners,
         \/ \E n \in File : Start(r, n)
         \/ TableIsThere(r) \/ CreateBegins(r) \/ CreateCommits(r)
         \/ CreateCollides(r) \/ Check(r) \/ Run(r)
         \/ Record(r) /\ file[r] \notin recorded
  PROVE  Inv'
<1> USE DEF Knows, InTransaction
<1>1. Len(log) \in Nat /\ recorded = 1..Len(log) /\ file[r] \in Nat /\ file[r] >= 1
  BY MigrationsAssumption DEF Inv, LogIsInitialSegment, TypeOK, File
<1>2. Knows(r, Len(log)) /\ outcome[r] # "collision"
  BY DEF Inv, Progress, NoCollision
<1>3. CASE \E n \in File : Start(r, n)
  BY SMTT(30), <1>1, <1>2, <1>3, InvOfOneRunner DEF Start, dbVars, Inv, TypeOK
<1>4. CASE TableIsThere(r)
  BY <1>1, <1>2, <1>4, InvOfOneRunner DEF TableIsThere, dbVars, Inv, TypeOK
<1>5. CASE CreateBegins(r)
  BY <1>1, <1>2, <1>5, InvOfOneRunner DEF CreateBegins, dbVars, Inv, TypeOK
<1>6. CASE CreateCommits(r)
  BY <1>1, <1>2, <1>6, InvOfOneRunner DEF CreateCommits, dbVars, Inv, TypeOK
<1>7. CASE CreateCollides(r)
  BY <1>1, <1>2, <1>7, InvOfOneRunner DEF CreateCollides, Stops, dbVars, Inv, TypeOK
<1>8. CASE Check(r)
  BY <1>1, <1>2, <1>8, InvOfOneRunner DEF Check, dbVars, Inv, TypeOK
<1>9. CASE Run(r)
  <2>1. /\ pc[r] = "run" /\ pc' = [pc EXCEPT ![r] = "record"]
        /\ ran' = [ran EXCEPT ![r] = TRUE]
        /\ UNCHANGED << recorded, log, lock, release, file, noted, outcome >>
    BY <1>9 DEF Run, RunFile
  <2>2. pc'[r] = "record" /\ ran'[r]
    BY <2>1 DEF Inv, TypeOK
  <2>3. \A s \in Runners \ {r} : pc'[s] = pc[s] /\ ran'[s] = ran[s]
    BY <2>1 DEF Inv, TypeOK
  <2>4. Knows(r, Len(log))'
    BY <1>1, <1>2, <2>1, <2>2
  <2> QED
    BY <1>2, <2>1, <2>2, <2>3, <2>4, InvOfOneRunner
<1>10. CASE Record(r) /\ file[r] \notin recorded
  BY <1>1, <1>2, <1>10, InvOfOneRunner DEF Record, dbVars, Inv, TypeOK
<1> QED
  BY <1>3, <1>4, <1>5, <1>6, <1>7, <1>8, <1>9, <1>10

\* Once a runner holds the lock, no other is in a transaction.
LEMMA OthersOutside ==
  ASSUME Inv, NEW r \in Runners, lock = r \/ lock = NoRunner
  PROVE  \A s \in Runners \ {r} : pc[s] \notin InTransaction
BY MigrationsAssumption DEF Inv, LockHeld

\* The lock goes to a runner when nobody is in a transaction.
LEMMA InvOfLock ==
  ASSUME Inv, TypeOK', NEW r \in Runners, Lock(r)
  PROVE  Inv'
<1>1. /\ pc[r] = "begin" /\ lock = NoRunner /\ lock' = r
      /\ pc' = [pc EXCEPT ![r] = "check"]
      /\ UNCHANGED << table, recorded, log, release, file, ran, noted, outcome, runs >>
  BY DEF Lock, LockIsFree
<1>2. LogIsInitialSegment' /\ NoCollision'
  BY <1>1 DEF Inv, LogIsInitialSegment, NoCollision, TypeOK
<1>3. LockHeld'
  BY <1>1, OthersOutside DEF Inv, LockHeld, InTransaction, TypeOK
<1>4. Progress'
  BY <1>1 DEF Inv, Progress, InTransaction, TypeOK
<1> QED
  BY <1>2, <1>3, <1>4 DEF Inv

\* A transaction that is rolled back leaves no trace, and no lock.
LEMMA InvOfRollback ==
  ASSUME Inv, TypeOK', NEW r \in Runners, NEW o \in {"sqlError", "crash"},
         Rollback(r), Stops(r, o)
  PROVE  Inv'
<1>1. /\ lock' = IF lock = r THEN NoRunner ELSE lock
      /\ ran' = [ran EXCEPT ![r] = FALSE]
      /\ noted' = [noted EXCEPT ![r] = FALSE]
      /\ pc' = [pc EXCEPT ![r] = "idle"]
      /\ outcome' = [outcome EXCEPT ![r] = o]
      /\ UNCHANGED << table, recorded, log, release, file, runs >>
  BY DEF Rollback, Unlock, Stops
<1>2. LogIsInitialSegment'
  BY <1>1 DEF Inv, LogIsInitialSegment
<1>3. NoCollision'
  BY <1>1 DEF Inv, NoCollision, TypeOK
<1>4. LockHeld'
  BY <1>1, OthersOutside, MigrationsAssumption DEF Inv, LockHeld, InTransaction, TypeOK
<1>5. Progress'
  BY <1>1 DEF Inv, Progress, InTransaction, TypeOK
<1> QED
  BY <1>2, <1>3, <1>4, <1>5 DEF Inv

\* A commit adds the next migration to the log and to the table, or nothing to
\* either, and its runner goes on to a file that may be next.
LEMMA InvOfCommit ==
  ASSUME Inv, TypeOK', NEW r \in Runners, Commit(r)
  PROVE  Inv' /\ (log' = log \/ log' = Append(log, Len(log) + 1))
<1>1. /\ pc[r] = "commit" /\ lock = r
      /\ recorded' = IF noted[r] THEN recorded \cup {file[r]} ELSE recorded
      /\ log' = IF ran[r] THEN Append(log, file[r]) ELSE log
      /\ lock' = NoRunner
      /\ ran' = [ran EXCEPT ![r] = FALSE]
      /\ noted' = [noted EXCEPT ![r] = FALSE]
      /\ NextFile(r)
      /\ UNCHANGED table
  BY DEF Commit, Inv, LockHeld, InTransaction
<1>2. /\ file[r] \in Nat /\ release[r] \in Nat /\ Len(log) \in Nat /\ log \in Seq(File)
      /\ Knows(r, Len(log)) /\ recorded = 1..Len(log)
  BY MigrationsAssumption DEF Inv, TypeOK, File, Progress, Knows, LogIsInitialSegment
<1>3. ran[r] <=> noted[r]
  BY <1>1, <1>2 DEF Knows
<1>4. PICK n \in Nat : n = Len(log)
  BY <1>2
<1>5. PICK m \in Nat : m = IF noted[r] THEN n + 1 ELSE n
  BY <1>4
<1>6. /\ file[r] <= m
      /\ Len(log') = m /\ recorded' = 1..m
      /\ \A i \in 1..m : log'[i] = i
      /\ DOMAIN log' = 1..m
      /\ log' = log \/ log' = Append(log, Len(log) + 1)
  <2>1. CASE noted[r]
    <3>1. /\ file[r] = n + 1 /\ m = n + 1 /\ log' = Append(log, file[r])
          /\ file[r] \in File
      BY <1>1, <1>2, <1>3, <1>4, <1>5, <2>1 DEF Knows, Inv, TypeOK
    <3>2. /\ Len(log') = n + 1 /\ log'[n + 1] = n + 1
          /\ \A i \in 1..n : log'[i] = log[i]
          /\ DOMAIN log' = 1..(n + 1)
      BY <1>2, <1>4, <3>1
    <3>3. \A i \in 1..n : log[i] = i
      BY <1>2, <1>4 DEF Inv, LogIsInitialSegment
    <3>4. \A i \in 1..(n + 1) : log'[i] = i
      <4> SUFFICES ASSUME NEW i \in 1..(n + 1) PROVE log'[i] = i
        OBVIOUS
      <4>1. CASE i = n + 1
        BY <3>2, <4>1
      <4>2. CASE i \in 1..n
        BY <3>2, <3>3, <4>2
      <4> QED
        BY <4>1, <4>2
    <3>5. recorded' = 1..(n + 1)
      BY <1>1, <1>2, <1>4, <2>1, <3>1
    <3> QED
      BY <1>4, <3>1, <3>2, <3>4, <3>5
  <2>2. CASE ~ noted[r]
    BY <1>1, <1>2, <1>3, <1>4, <1>5, <2>2 DEF Knows, Inv, LogIsInitialSegment
  <2> QED
    BY <2>1, <2>2
<1>7. LogIsInitialSegment'
  BY <1>6 DEF LogIsInitialSegment
<1>8. \A s \in Runners \ {r} : pc[s] \notin InTransaction
  BY <1>1, OthersOutside
<1>9. /\ \A s \in Runners \ {r} :
           /\ pc'[s] = pc[s] /\ file'[s] = file[s] /\ release'[s] = release[s]
           /\ ran'[s] = ran[s] /\ noted'[s] = noted[s] /\ outcome'[s] = outcome[s]
      /\ ~ ran'[r] /\ ~ noted'[r] /\ release'[r] = release[r]
      /\ pc'[r] \in {"begin", "idle"}
      /\ pc'[r] = "begin" => file'[r] = file[r] + 1 /\ outcome'[r] = outcome[r]
                             /\ file[r] < release[r]
      /\ pc'[r] = "idle" => outcome'[r] = "done" /\ ~ (file[r] < release[r])
  <2>1. ~ ran'[r] /\ ~ noted'[r]
        /\ \A s \in Runners \ {r} : ran'[s] = ran[s] /\ noted'[s] = noted[s]
    BY <1>1 DEF Inv, TypeOK
  <2>2. CASE file[r] < release[r]
    BY <1>1, <2>1, <2>2 DEF NextFile, Inv, TypeOK
  <2>3. CASE ~ (file[r] < release[r])
    BY <1>1, <2>1, <2>3 DEF NextFile, Stops, Inv, TypeOK
  <2> QED
    BY <2>2, <2>3
<1>10. LockHeld'
  BY <1>1, <1>8, <1>9, MigrationsAssumption DEF LockHeld, InTransaction
<1>11. Progress'
  <2>1. ASSUME NEW s \in Runners PROVE Knows(s, m)'
    <3>1. CASE s # r
      <4>1. Knows(s, n)
        BY <1>4 DEF Inv, Progress, Knows
      <4>2. m = n \/ (m = n + 1 /\ pc[s] \notin InTransaction)
        BY <1>5, <1>8, <3>1
      <4> QED
        BY <1>9, <3>1, <4>1, <4>2, KnowsMore DEF Inv
    <3>2. CASE s = r
      <4>1. release[r] <= n => release[r] <= m
        BY <1>2, <1>5
      <4>2. outcome[r] = "done" => release[r] <= n
        BY <1>2, <1>4 DEF Knows
      <4>3. ~ (file[r] < release[r]) => release[r] <= m
        BY <1>2, <1>6
      <4>4. file[r] + 1 <= m + 1
        BY <1>2, <1>6
      <4> QED
        BY <1>9, <3>2, <4>1, <4>2, <4>3, <4>4 DEF Knows, InTransaction
    <3> QED
      BY <3>1, <3>2
  <2> QED
    BY <1>6, <2>1 DEF Progress, Knows
<1>12. NoCollision'
  BY <1>1, <1>9 DEF Inv, NoCollision
<1> QED
  BY <1>6, <1>7, <1>10, <1>11, <1>12 DEF Inv

\* Every step keeps the invariant, and the log or adds the next migration to it.
LEMMA InvStep ==
  ASSUME Inv, [Next]_vars
  PROVE  Inv' /\ (log' = log \/ log' = Append(log, Len(log) + 1))
<1>1. TypeOK'
  BY TypeStep DEF Inv
<1>2. CASE UNCHANGED vars
  BY <1>2, <1>1 DEF vars, dbVars, Inv, LogIsInitialSegment, LockHeld, Progress,
                    NoCollision
<1>3. ASSUME NEW r \in Runners, Record(r), file[r] \in recorded PROVE FALSE
  <2>1. file[r] = Len(log) + 1 /\ recorded = 1..Len(log) /\ Len(log) \in Nat
    BY <1>3 DEF Record, Inv, TypeOK, Progress, LogIsInitialSegment
  <2> QED
    BY <1>3, <2>1
<1>4. ASSUME NEW r \in Runners,
             \/ \E n \in File : Start(r, n)
             \/ TableIsThere(r) \/ CreateBegins(r) \/ CreateCommits(r)
             \/ CreateCollides(r) \/ Check(r) \/ Run(r) \/ Record(r)
      PROVE  Inv' /\ log' = log
  <2>1. Inv'
    BY <1>1, <1>3, <1>4, InvOfSteps
  <2>2. log' = log
    BY <1>3, <1>4 DEF Start, TableIsThere, CreateBegins, CreateCommits, CreateCollides,
                      Check, Run, RunFile, Record, dbVars
  <2> QED
    BY <2>1, <2>2
<1>5. ASSUME NEW r \in Runners, Lock(r) PROVE Inv' /\ log' = log
  BY <1>1, <1>5, InvOfLock DEF Lock
<1>6. ASSUME NEW r \in Runners, RunFails(r) \/ Crash(r) PROVE Inv' /\ log' = log
  BY <1>1, <1>6, InvOfRollback DEF RunFails, Crash, Rollback
<1>7. ASSUME NEW r \in Runners, Commit(r)
      PROVE  Inv' /\ (log' = log \/ log' = Append(log, Len(log) + 1))
  BY <1>1, <1>7, InvOfCommit
<1> QED
  BY <1>2, <1>4, <1>5, <1>6, <1>7 DEF Next, Step

\* The invariant holds in every reachable state.
LEMMA InvAlways == Spec => []Inv
  BY InvInit, InvStep, PTL DEF Spec

-----------------------------------------------------------------------------
\* schema_migrations tells exactly which migrations the schema has, whatever
\* fails, crashes or runs at the same time.
THEOREM TableIsTheTruth == Spec => []RecordedIffApplied
<1>1. Inv => RecordedIffApplied
  BY SegmentFacts DEF Inv, RecordedIffApplied
<1> QED
  BY <1>1, InvAlways, PTL

\* A run that reports success has brought the schema to its release.
THEOREM DoneIsMigrated == Spec => []MigratedWhenDone
<1>1. Inv => MigratedWhenDone
  <2> SUFFICES ASSUME Inv, NEW r \in Runners, outcome[r] = "done"
               PROVE  1..release[r] \subseteq Applied
    BY DEF MigratedWhenDone
  <2>1. release[r] \in Nat /\ release[r] <= Len(log)
    BY MigrationsAssumption DEF Inv, TypeOK, File, Progress
  <2>2. Len(log) \in Nat /\ Applied = 1..Len(log)
    BY SegmentFacts DEF Inv
  <2> QED
    BY <2>1, <2>2
<1> QED
  BY <1>1, InvAlways, PTL

\* The advisory lock serializes the runners: no INSERT of one of them meets a
\* version that another has recorded.
THEOREM RunsSerialize == Spec => []NoCollision
<1>1. Inv => NoCollision
  BY DEF Inv
<1> QED
  BY <1>1, InvAlways, PTL

\* The runners implement the abstract schema: each migration is applied once,
\* in the order of the files.
THEOREM AppliedInOrder == Spec => ImplementsSchema
<1>1. Init => Schema!Init
  BY DEF Init, Schema!Init
<1>2. ASSUME Inv, [Next]_vars PROVE [Schema!Next]_log
  <2>1. CASE log' = log
    BY <2>1
  <2>2. CASE log' = Append(log, Len(log) + 1)
    <3>1. Len(log) \in Nat /\ Len(log') = Len(log) + 1
      BY <2>2 DEF Inv, TypeOK
    <3>2. recorded' \subseteq 1..Files /\ recorded' = 1..Len(log')
      BY <1>2, InvStep DEF Inv, TypeOK, File, LogIsInitialSegment
    <3>3. Len(log) < Files
      <4>1. Len(log) + 1 \in 1..Files
        BY <3>1, <3>2
      <4> QED
        BY <3>1, <4>1, MigrationsAssumption
    <3> QED
      BY <2>2, <3>3 DEF Schema!Next, Schema!Migrate
  <2> QED
    BY <1>2, <2>1, <2>2, InvStep
<1> QED
  BY <1>1, <1>2, InvAlways, PTL DEF Spec, ImplementsSchema, Schema!Spec
=============================================================================
