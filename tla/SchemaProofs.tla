---------------------------- MODULE SchemaProofs ----------------------------
(***************************************************************************)
(* What Schema's runs check, for any number of processes and of runs:      *)
(* types, that a recorded version has all its tables, and that a run of    *)
(* create-tables completes them.                                           *)
(*                                                                         *)
(* The argument: tables are only ever added.  Behind the place of the      *)
(* migration in its list, every table is there or its own; behind the      *)
(* place of a creator that had the extension and lost no connection, every *)
(* table is there, for the tables that one refers to come before it, but   *)
(* the one a deadlock took: in a circle of processes each has locked a     *)
(* parent and waits, and a creator does so only at user_permissions, for   *)
(* who holds the parents of role_permissions then is done or not yet there. *)
(***************************************************************************)
EXTENDS Schema, TLAPS

LEMMA ListsOfTables ==
  /\ Len(CreateOrder) = 5
  /\ \A i \in 1..5 : CreateOrder[i] \in Tables
  /\ \A p \in Processes, i \in 1..5 : Order(p)[i] \in Tables
  /\ \A p \in Processes, t \in Tables : \E i \in 1..5 : Order(p)[i] = t
  /\ Links \subseteq Tables
<1>1. Len(CreateOrder) = 5
  BY DEF CreateOrder
<1>2. \A i \in 1..5 : CreateOrder[i] \in Tables /\ MigrationOrder[i] \in Tables
  BY DEF CreateOrder, MigrationOrder, Tables, Links
<1>3. \A t \in Tables : \E i \in 1..5 : CreateOrder[i] = t
  <2>1. CreateOrder[1] = "users" /\ CreateOrder[2] = "roles" /\ CreateOrder[3] = "permissions"
        /\ CreateOrder[4] = "user_permissions" /\ CreateOrder[5] = "role_permissions"
    BY DEF CreateOrder
  <2> QED BY <2>1 DEF Tables, Links
<1>4. \A t \in Tables : \E i \in 1..5 : MigrationOrder[i] = t
  <2>1. MigrationOrder[1] = "users" /\ MigrationOrder[2] = "roles"
        /\ MigrationOrder[3] = "permissions" /\ MigrationOrder[4] = "role_permissions"
        /\ MigrationOrder[5] = "user_permissions"
    BY DEF MigrationOrder
  <2> QED BY <2>1 DEF Tables, Links
<1> QED BY <1>1, <1>2, <1>3, <1>4 DEF Order, Tables

LEMMA ParentsOf ==
  /\ Len(Parents("users")) = 0 /\ Len(Parents("roles")) = 0 /\ Len(Parents("permissions")) = 0
  /\ Len(Parents("user_permissions")) = 2 /\ Len(Parents("role_permissions")) = 2
  /\ Parents("user_permissions")[1] = "users" /\ Parents("user_permissions")[2] = "permissions"
  /\ Parents("role_permissions")[1] = "users" /\ Parents("role_permissions")[2] = "roles"
BY DEF Parents

LEMMA ParentsTyped ==
  \A t \in Tables :
    /\ Len(Parents(t)) \in 0..2
    /\ \A k \in 1..Len(Parents(t)) : Parents(t)[k] \in Tables
    /\ Len(Parents(t)) # 0 => t \in Links
BY ParentsOf DEF Tables, Links

\* createTables() makes the tables that another refers to before it.
LEMMA ParentsComeFirst ==
  \A i \in 1..5 : \A k \in 1..Len(Parents(CreateOrder[i])) :
    \E j \in 1..3 : j < i /\ CreateOrder[j] = Parents(CreateOrder[i])[k]
<1>1. CreateOrder[1] = "users" /\ CreateOrder[2] = "roles" /\ CreateOrder[3] = "permissions"
      /\ CreateOrder[4] = "user_permissions" /\ CreateOrder[5] = "role_permissions"
  BY DEF CreateOrder
<1> SUFFICES ASSUME NEW i \in 1..5, NEW k \in 1..Len(Parents(CreateOrder[i]))
             PROVE  \E j \in 1..3 : j < i /\ CreateOrder[j] = Parents(CreateOrder[i])[k]
  OBVIOUS
<1>3. CASE i \in {1, 2, 3}
  BY <1>1, ParentsOf, <1>3
<1>4. CASE i = 4
  BY <1>1, ParentsOf, <1>4
<1>5. CASE i = 5
  BY <1>1, ParentsOf, <1>5
<1> QED BY <1>3, <1>4, <1>5

LEMMA Who ==
  /\ Migrator \in Processes /\ Creators \subseteq Processes /\ Migrator \notin Creators
  /\ Nobody # Migrator
BY SchemaAssumption DEF Processes

-----------------------------------------------------------------------------
(* Types *)

LEMMA InitTyped == Init => TypeOK
<1> SUFFICES ASSUME Init PROVE TypeOK
  OBVIOUS
<1>1. whole \in [Processes -> BOOLEAN]
  BY Zenon DEF Init
<1>2. extension \in BOOLEAN /\ recorded \in BOOLEAN /\ seeded \in BOOLEAN
  BY DEF Init
<1>3. at \in [Processes -> 0..Len(CreateOrder) + 1] /\ runs \in 0..MaxRuns
  BY SchemaAssumption, ListsOfTables DEF Init
<1>4. /\ holder \in [Tables -> Processes \cup {Nobody}] /\ linked \in [Processes -> 0..2]
      /\ victims \subseteq Processes
  BY DEF Init
<1> QED BY <1>1, <1>2, <1>3, <1>4 DEF Init, TypeOK

LEMMA PlacesTyped ==
  ASSUME TypeOK, NEW p \in Processes, InTable(p)
  PROVE  /\ at[p] \in 1..5 /\ Table(p) \in Tables
         /\ Linking(p) => NextParent(p) \in Tables /\ linked[p] \in {0, 1}
                          /\ Table(p) \in Links
<1>1. at[p] \in 1..5 /\ Table(p) \in Tables
  BY ListsOfTables DEF InTable, Table
<1>2. ASSUME Linking(p)
      PROVE  NextParent(p) \in Tables /\ linked[p] \in {0, 1} /\ Table(p) \in Links
  <2>1. /\ linked[p] \in 0..2 /\ linked[p] < Len(Parents(Table(p)))
        /\ Len(Parents(Table(p))) \in 0..2
    BY <1>1, <1>2, ParentsTyped DEF Linking, TypeOK
  <2> QED BY <1>1, <2>1, ParentsTyped DEF NextParent
<1> QED BY <1>1, <1>2

LEMMA ReleasesTyped ==
  ASSUME TypeOK, NEW p \in Processes, Releases(p)
  PROVE  /\ holder' \in [Tables -> Processes \cup {Nobody}]
         /\ linked' \in [Processes -> 0..2]
BY DEF Releases, TypeOK

LEMMA FailsTyped ==
  ASSUME TypeOK, NEW p \in Processes, InTable(p), Fails(p)
  PROVE  /\ maker' \in [Tables -> Processes \cup {Nobody}]
         /\ waits' \subseteq Processes
         /\ holder' \in [Tables -> Processes \cup {Nobody}]
         /\ linked' \in [Processes -> 0..2]
         /\ at' \in [Processes -> 0..Len(CreateOrder) + 1]
         /\ outcome' \in [Processes \cup {"seeds"} -> {"none", "0", "failed"}]
<1>1. /\ maker' \in [Tables -> Processes \cup {Nobody}] /\ waits' \subseteq Processes
      /\ holder' \in [Tables -> Processes \cup {Nobody}]
      /\ linked' \in [Processes -> 0..2]
  BY DEF Fails, Releases, TypeOK
<1>2. /\ at' \in [Processes -> 0..Len(CreateOrder) + 1]
      /\ outcome' \in [Processes \cup {"seeds"} -> {"none", "0", "failed"}]
  BY ListsOfTables DEF Fails, GoesOn, InTable, TypeOK
<1> QED BY <1>1, <1>2

\* Only who is at a table waits for anybody.
LEMMA WaitersAreAtWork ==
  ASSUME NEW p, Blocker(p) \in Processes
  PROVE  \/ p \in waits /\ Blocker(p) = maker[Table(p)]
         \/ /\ p \notin waits /\ Linking(p)
            /\ Blocker(p) = holder[NextParent(p)] /\ Blocker(p) # p
<1>1. Nobody \notin Processes
  BY SchemaAssumption
<1>2. CASE p \in waits
  BY <1>2 DEF Blocker
<1>3. CASE p \notin waits
  BY <1>1, <1>3 DEF Blocker
<1> QED BY <1>2, <1>3

\* In a circle each waits for one of it, and one of it waits for each.
LEMMA Circle ==
  ASSUME NEW p \in Processes, Deadlocked(p)
  PROVE  \E S \in SUBSET Processes :
           /\ p \in S
           /\ \A q \in S : Blocker(q) \in S
           /\ \A q \in S : \E r \in S : Blocker(r) = q
BY DEF Deadlocked

\* Who waits for a name is at its table, and is not the one that has it.
WaitersWait == \A p \in waits : InTable(p) /\ maker[Table(p)] # p

LEMMA NextTyped == TypeOK /\ WaitersWait /\ [Next]_vars => TypeOK'
<1> SUFFICES ASSUME TypeOK, WaitersWait, [Next]_vars
             PROVE  TypeOK'
  OBVIOUS
<1> USE ListsOfTables
<1>1. ASSUME NEW p \in Processes, Begin(p)
      PROVE  TypeOK'
  <2>1. at' \in [Processes -> 0..Len(CreateOrder) + 1]
        /\ outcome' \in [Processes \cup {"seeds"} -> {"none", "0", "failed"}]
    BY <1>1 DEF Begin, TypeOK
  <2>2. whole' \in [Processes -> BOOLEAN] /\ victims' \subseteq Processes /\ runs' \in 0..MaxRuns
    BY <1>1, SchemaAssumption DEF Begin, TypeOK
  <2> QED BY <1>1, <2>1, <2>2 DEF Begin, locks, TypeOK
<1>2. ASSUME NEW p \in Processes, Skip(p)
      PROVE  TypeOK'
  BY <1>2 DEF Skip, GoesOn, InTable, locks, TypeOK
<1>3. ASSUME NEW p \in Processes, Make(p)
      PROVE  TypeOK'
  BY <1>3 DEF Make, locks, TypeOK
<1>4. ASSUME NEW p \in Processes, Wait(p)
      PROVE  TypeOK'
  BY <1>4 DEF Wait, locks, TypeOK
<1>5. ASSUME NEW p \in Processes, Refer(p)
      PROVE  TypeOK'
  <2>1. NextParent(p) \in Tables /\ linked[p] \in {0, 1}
    BY <1>5, PlacesTyped DEF Refer, Linking, Making
  <2>2. /\ holder' \in [Tables -> Processes \cup {Nobody}]
        /\ linked' \in [Processes -> 0..2]
    BY <1>5, <2>1 DEF Refer, TypeOK
  <2> QED BY <1>5, <2>2 DEF Refer, TypeOK
<1>6. ASSUME NEW p \in Processes, Refused(p)
      PROVE  TypeOK'
  <2>1. InTable(p)
    BY <1>6 DEF Refused, Making
  <2> QED BY <1>6, <2>1, FailsTyped DEF Refused, TypeOK
<1>7. ASSUME NEW p \in Processes, DeadlockVictim(p)
      PROVE  TypeOK'
  <2>1. InTable(p)
    BY <1>7, Circle, WaitersAreAtWork
    DEF DeadlockVictim, WaitersWait, Linking, Making
  <2>2. Fails(p) /\ victims' \subseteq Processes
    BY <1>7 DEF DeadlockVictim, TypeOK
  <2> QED BY <1>7, <2>1, <2>2, FailsTyped DEF DeadlockVictim, TypeOK
<1>8. ASSUME NEW p \in Processes, ConnectionLost(p)
      PROVE  TypeOK'
  <2>1. InTable(p) /\ Fails(p) /\ whole' \in [Processes -> BOOLEAN]
    BY <1>8 DEF ConnectionLost, TypeOK
  <2> QED BY <1>8, <2>1, FailsTyped DEF ConnectionLost, TypeOK
<1>9. ASSUME NEW c \in Creators, CommitTable(c)
      PROVE  TypeOK'
  <2>1. /\ shape' \in [Tables -> {"none", "created", "migrated"}]
        /\ maker' \in [Tables -> Processes \cup {Nobody}]
    BY <1>9 DEF CommitTable, TypeOK
  <2>3. /\ holder' \in [Tables -> Processes \cup {Nobody}]
        /\ linked' \in [Processes -> 0..2]
    BY <1>9, Who, ReleasesTyped DEF CommitTable
  <2>2. at' \in [Processes -> 0..Len(CreateOrder) + 1]
    BY <1>9, Who DEF CommitTable, Made, Making, GoesOn, InTable, TypeOK
  <2> QED BY <1>9, <2>1, <2>2, <2>3 DEF CommitTable, TypeOK
<1>10. ASSUME NEW c \in Creators, EndCreate(c)
       PROVE  TypeOK'
  BY <1>10, Who DEF EndCreate, locks, TypeOK
<1>11. CASE NextStatement
  <2>1. /\ at' \in [Processes -> 0..Len(CreateOrder) + 1]
        /\ linked' \in [Processes -> 0..2]
    BY <1>11, Who DEF NextStatement, Made, Making, GoesOn, InTable, TypeOK
  <2> QED BY <1>11, <2>1 DEF NextStatement, TypeOK
<1>12. CASE CommitMigration
  <2>1. /\ shape' \in [Tables -> {"none", "created", "migrated"}]
        /\ maker' \in [Tables -> Processes \cup {Nobody}]
    BY <1>12 DEF CommitMigration, TypeOK
  <2>4. /\ holder' \in [Tables -> Processes \cup {Nobody}]
        /\ linked' \in [Processes -> 0..2]
    BY <1>12, Who, ReleasesTyped DEF CommitMigration
  <2>2. /\ at' \in [Processes -> 0..Len(CreateOrder) + 1]
        /\ outcome' \in [Processes \cup {"seeds"} -> {"none", "0", "failed"}]
    BY <1>12, Who DEF CommitMigration, TypeOK
  <2>3. /\ extension' \in BOOLEAN /\ recorded' \in BOOLEAN
        /\ UNCHANGED <<seeded, waits, whole, victims, runs>>
    BY <1>12 DEF CommitMigration
  <2> QED BY <2>1, <2>2, <2>3, <2>4 DEF TypeOK
<1>13. CASE Seed
  BY <1>13, SchemaAssumption DEF Seed, locks, TypeOK
<1>14. CASE UNCHANGED vars
  BY <1>14 DEF vars, locks, TypeOK
<1> QED
  BY <1>1, <1>2, <1>3, <1>4, <1>5, <1>6, <1>7, <1>8, <1>9, <1>10, <1>11, <1>12, <1>13,
     <1>14
  DEF Next

LEMMA WaitersKeepWaiting ==
  ASSUME TypeOK, WaitersWait, [Next]_vars
  PROVE  WaitersWait'
<1> SUFFICES ASSUME NEW q \in waits'
             PROVE  at'[q] \in 1..5 /\ maker'[Order(q)[at'[q]]] # q
  BY ListsOfTables DEF WaitersWait, InTable, Table
<1>0. q \in waits => /\ q \in Processes /\ q # Nobody
                     /\ at[q] \in 1..5 /\ Order(q)[at[q]] \in Tables
                     /\ maker[Order(q)[at[q]]] # q
  BY ListsOfTables, SchemaAssumption DEF WaitersWait, InTable, Table, TypeOK
\* It is enough that q waited, stays, and others only take or give back names.
<1>a. ASSUME q \in waits, at'[q] = at[q],
             \A t \in Tables : maker'[t] = q => maker[t] = q
      PROVE  at'[q] \in 1..5 /\ maker'[Order(q)[at'[q]]] # q
  BY <1>0, <1>a
<1>1. ASSUME NEW p \in Processes, Begin(p)
      PROVE  at'[q] \in 1..5 /\ maker'[Order(q)[at'[q]]] # q
  <2>1. q \in waits /\ q # p /\ maker' = maker
    BY <1>1, <1>0 DEF Begin
  <2>2. at'[q] = at[q]
    BY <1>1, <2>1 DEF Begin, TypeOK
  <2> QED BY <1>a, <2>1, <2>2
<1>2. ASSUME NEW p \in Processes, Skip(p)
      PROVE  at'[q] \in 1..5 /\ maker'[Order(q)[at'[q]]] # q
  <2>1. q \in waits /\ at'[q] = at[q] /\ maker' = maker
    BY <1>2, <1>0 DEF Skip, GoesOn, TypeOK
  <2> QED BY <1>a, <2>1
<1>3. ASSUME NEW p \in Processes, Make(p)
      PROVE  at'[q] \in 1..5 /\ maker'[Order(q)[at'[q]]] # q
  <2>1. q \in waits /\ q # p /\ at' = at /\ maker' = [maker EXCEPT ![Table(p)] = p]
    BY <1>3 DEF Make
  <2>2. \A t \in Tables : maker'[t] = q => maker[t] = q
    BY <2>1 DEF TypeOK
  <2> QED BY <1>a, <2>1, <2>2
<1>4. ASSUME NEW p \in Processes, Wait(p)
      PROVE  at'[q] \in 1..5 /\ maker'[Order(q)[at'[q]]] # q
  <2>1. CASE q = p
    BY <1>4, <2>1, ListsOfTables DEF Wait, InTable, Table
  <2>2. CASE q # p
    BY <1>4, <1>a, <2>2 DEF Wait
  <2> QED BY <2>1, <2>2
<1>5. ASSUME NEW p \in Processes, Refer(p)
      PROVE  at'[q] \in 1..5 /\ maker'[Order(q)[at'[q]]] # q
  BY <1>5, <1>a DEF Refer
<1>6. ASSUME NEW p \in Processes, Refused(p) \/ DeadlockVictim(p) \/ ConnectionLost(p)
      PROVE  at'[q] \in 1..5 /\ maker'[Order(q)[at'[q]]] # q
  <2>1. Fails(p)
    BY <1>6 DEF Refused, DeadlockVictim, ConnectionLost
  <2>2. q \in waits /\ q # p
    BY <2>1 DEF Fails
  <2>3. at'[q] = at[q] /\ \A t \in Tables : maker'[t] = q => maker[t] = q
    BY <1>0, <2>1, <2>2 DEF Fails, GoesOn, TypeOK
  <2> QED BY <1>a, <2>2, <2>3
<1>7. ASSUME NEW c \in Creators, CommitTable(c)
      PROVE  at'[q] \in 1..5 /\ maker'[Order(q)[at'[q]]] # q
  <2>1. q \in waits /\ maker[Table(c)] = c
    BY <1>7 DEF CommitTable, Made, Making
  <2>2. q # c
    BY <2>1, <1>0 DEF Table
  <2>3. at'[q] = at[q] /\ \A t \in Tables : maker'[t] = q => maker[t] = q
    BY <1>0, <1>7, <2>1, <2>2 DEF CommitTable, GoesOn, TypeOK
  <2> QED BY <1>a, <2>1, <2>3
<1>8. ASSUME NEW c \in Creators, EndCreate(c)
      PROVE  at'[q] \in 1..5 /\ maker'[Order(q)[at'[q]]] # q
  <2>1. q \in waits /\ q # c /\ maker' = maker
    BY <1>8, <1>0, ListsOfTables DEF EndCreate, AfterTheLast
  <2>2. at'[q] = at[q]
    BY <1>8, <2>1 DEF EndCreate, TypeOK
  <2> QED BY <1>a, <2>1, <2>2
<1>9. CASE NextStatement
  <2>1. q \in waits /\ maker' = maker /\ maker[Table(Migrator)] = Migrator
    BY <1>9 DEF NextStatement, Made, Making
  <2>2. q # Migrator
    BY <2>1, <1>0 DEF Table
  <2>3. at'[q] = at[q]
    BY <1>9, <1>0, <2>1, <2>2 DEF NextStatement, GoesOn, TypeOK
  <2> QED BY <1>a, <2>1, <2>3
<1>10. CASE CommitMigration
  <2>1. q \in waits /\ q # Migrator
    BY <1>10, <1>0, ListsOfTables DEF CommitMigration, AfterTheLast
  <2>2. at'[q] = at[q] /\ \A t \in Tables : maker'[t] = q => maker[t] = q
    BY <1>0, <1>10, <2>1 DEF CommitMigration, TypeOK
  <2> QED BY <1>a, <2>1, <2>2
<1>11. CASE Seed \/ UNCHANGED vars
  BY <1>11, <1>a DEF Seed, vars
<1> QED
  BY <1>1, <1>2, <1>3, <1>4, <1>5, <1>6, <1>7, <1>8, <1>9, <1>10, <1>11 DEF Next

-----------------------------------------------------------------------------
(* Who has which name, and which lock. *)

\* Only who is at a table has its name, and the table is not there.
NamesOwned ==
  \A t \in Tables : maker[t] # Nobody =>
    /\ ~There(t)
    /\ maker[t] \in Creators => InTable(maker[t]) /\ Table(maker[t]) = t
    /\ maker[t] = Migrator /\ t = "user_permissions" => at[Migrator] >= 5

\* A creator has locked parents of the table that it makes; the migration keeps
\* those of the links it has made.
LocksOwned ==
  \A u \in Tables :
    /\ holder[u] \in Creators =>
         /\ Making(holder[u])
         /\ \E j \in 1..linked[holder[u]] : Parents(Table(holder[u]))[j] = u
    /\ holder[u] = Migrator =>
         \/ maker["role_permissions"] = Migrator
         \/ maker["user_permissions"] = Migrator
    /\ holder[u] = Migrator /\ u = "permissions" => maker["user_permissions"] = Migrator

LEMMA OrdersOf ==
  /\ Order(Migrator) = MigrationOrder
  /\ \A c \in Creators : Order(c) = CreateOrder
BY Who DEF Order

LEMMA NamesStayOwned ==
  ASSUME TypeOK, WaitersWait, NamesOwned, [Next]_vars
  PROVE  NamesOwned'
<1> SUFFICES ASSUME NEW t \in Tables, maker'[t] # Nobody
             PROVE  /\ ~There(t)'
                    /\ maker'[t] \in Creators =>
                         at'[maker'[t]] \in 1..5 /\ CreateOrder[at'[maker'[t]]] = t
                    /\ maker'[t] = Migrator /\ t = "user_permissions" => at'[Migrator] >= 5
  BY ListsOfTables, OrdersOf DEF NamesOwned, InTable, Table
<1> DEFINE q == maker[t]
<1>0. q # Nobody => /\ ~There(t)
                    /\ q \in Creators => at[q] \in 1..5 /\ CreateOrder[at[q]] = t
                    /\ q = Migrator /\ t = "user_permissions" => at[Migrator] >= 5
  BY ListsOfTables, OrdersOf DEF NamesOwned, InTable, Table
<1>1. q \in Processes \cup {Nobody} /\ (q \in Processes => q \in Creators \/ q = Migrator)
  BY DEF TypeOK, Processes
<1>2. Migrator \in Processes /\ Creators \subseteq Processes /\ Migrator \notin Creators
      /\ \A p \in Processes : p # Nobody
  BY Who, SchemaAssumption
<1> HIDE DEF q
\* It is enough that its maker keeps its name and stays, or the migration goes on.
<1>a. ASSUME maker'[t] = q, There(t)' => There(t),
             at'[q] = at[q] \/ (q = Migrator /\ at'[q] = at[q] + 1)
      PROVE  /\ ~There(t)'
             /\ maker'[t] \in Creators =>
                  at'[maker'[t]] \in 1..5 /\ CreateOrder[at'[maker'[t]]] = t
             /\ maker'[t] = Migrator /\ t = "user_permissions" => at'[Migrator] >= 5
  <2>1. at[Migrator] \in Nat
    BY <1>2, ListsOfTables DEF TypeOK
  <2> QED BY <1>a, <1>0, <1>1, <1>2, <2>1
<1>3. ASSUME NEW p \in Processes, Begin(p)
      PROVE  maker'[t] = q /\ (There(t)' => There(t)) /\ (at'[q] = at[q] \/ (q = Migrator /\ at'[q] = at[q] + 1))
  BY <1>3, <1>0, <1>1 DEF Begin, There, TypeOK, q
<1>4. ASSUME NEW p \in Processes, Skip(p)
      PROVE  maker'[t] = q /\ (There(t)' => There(t)) /\ (at'[q] = at[q] \/ (q = Migrator /\ at'[q] = at[q] + 1))
  <2>1. maker'[t] = q /\ (There(t)' => There(t)) /\ at' = [at EXCEPT ![p] = @ + 1]
        /\ There(Table(p))
    BY <1>4 DEF Skip, There, GoesOn, q
  <2>2. p \in Creators => q # p
    BY <1>0, <1>2, <2>1, OrdersOf DEF Table
  <2> QED BY <2>1, <2>2, <1>1, <1>2 DEF TypeOK, Processes
<1>5. ASSUME NEW p \in Processes, Make(p)
      PROVE  /\ ~There(t)'
             /\ maker'[t] \in Creators =>
                  at'[maker'[t]] \in 1..5 /\ CreateOrder[at'[maker'[t]]] = t
             /\ maker'[t] = Migrator /\ t = "user_permissions" => at'[Migrator] >= 5
  <2>1. /\ maker' = [maker EXCEPT ![Table(p)] = p] /\ at' = at /\ shape' = shape
        /\ ~There(Table(p)) /\ at[p] \in 1..5
    BY <1>5, ListsOfTables DEF Make, InTable
  <2>2. CASE t # Table(p)
    BY <1>a, <2>1, <2>2 DEF There, q, TypeOK
  <2>3. CASE t = Table(p)
    <3>1. maker'[t] = p /\ ~There(t)'
      BY <2>1, <2>3 DEF There, TypeOK
    <3>2. p \in Creators => CreateOrder[at[p]] = t
      BY <2>3, OrdersOf DEF Table
    <3>3. p = Migrator /\ t = "user_permissions" => at[p] >= 5
      <4> SUFFICES ASSUME p = Migrator, t = "user_permissions", at[p] \in 1..4
                   PROVE  FALSE
        BY <2>1
      <4>1. MigrationOrder[at[p]] = "user_permissions"
        BY <2>3, OrdersOf DEF Table
      <4> QED BY <4>1 DEF MigrationOrder
    <3> QED BY <2>1, <3>1, <3>2, <3>3
  <2> QED BY <2>2, <2>3
<1>6. ASSUME NEW p \in Processes, Wait(p) \/ Refer(p)
      PROVE  maker'[t] = q /\ (There(t)' => There(t)) /\ (at'[q] = at[q] \/ (q = Migrator /\ at'[q] = at[q] + 1))
  BY <1>6 DEF Wait, Refer, There, q
<1>7. ASSUME NEW p \in Processes, Refused(p) \/ DeadlockVictim(p) \/ ConnectionLost(p)
      PROVE  maker'[t] = q /\ (There(t)' => There(t)) /\ (at'[q] = at[q] \/ (q = Migrator /\ at'[q] = at[q] + 1))
  <2>1. Fails(p) /\ shape' = shape
    BY <1>7 DEF Refused, DeadlockVictim, ConnectionLost
  <2>2. maker'[t] = q /\ q # p
    BY <2>1 DEF Fails, q
  <2> QED BY <2>1, <2>2, <1>1 DEF Fails, GoesOn, There, TypeOK
<1>8. ASSUME NEW c \in Creators, CommitTable(c)
      PROVE  maker'[t] = q /\ (There(t)' => There(t)) /\ (at'[q] = at[q] \/ (q = Migrator /\ at'[q] = at[q] + 1))
  <2>1. /\ t # Table(c) /\ maker'[t] = q
        /\ shape' = [shape EXCEPT ![Table(c)] = "created"]
        /\ at' = [at EXCEPT ![c] = @ + 1]
    BY <1>8 DEF CommitTable, GoesOn, TypeOK, q
  <2>2. q # c
    BY <2>1, <1>0, <1>2, OrdersOf DEF Table
  <2> QED BY <2>1, <2>2, <1>1 DEF There, TypeOK
<1>9. ASSUME NEW c \in Creators, EndCreate(c)
      PROVE  maker'[t] = q /\ (There(t)' => There(t)) /\ (at'[q] = at[q] \/ (q = Migrator /\ at'[q] = at[q] + 1))
  <2>1. at[c] = 6 /\ maker'[t] = q /\ shape' = shape /\ at' = [at EXCEPT ![c] = 0]
    BY <1>9, ListsOfTables DEF EndCreate, AfterTheLast, q
  <2>2. q # c
    BY <2>1, <1>0, <1>2
  <2> QED BY <2>1, <2>2, <1>1 DEF There, TypeOK
<1>10. CASE NextStatement
  <2>1. maker'[t] = q /\ shape' = shape /\ at' = [at EXCEPT ![Migrator] = @ + 1]
    BY <1>10 DEF NextStatement, GoesOn, q
  <2> QED BY <2>1, <1>1, <1>2, <1>a DEF There, TypeOK
<1>11. CASE CommitMigration
  <2>1. q # Migrator /\ maker'[t] = q /\ shape'[t] = shape[t] /\ at' = [at EXCEPT ![Migrator] = 0]
    BY <1>11 DEF CommitMigration, TypeOK, q
  <2> QED BY <2>1, <1>1, <1>2, <1>a DEF There, TypeOK
<1>12. CASE Seed \/ UNCHANGED vars
  BY <1>12, <1>a DEF Seed, vars, There, q
<1> QED
  BY <1>a, <1>3, <1>4, <1>5, <1>6, <1>7, <1>8, <1>9, <1>10, <1>11, <1>12 DEF Next

LEMMA LocksStayOwned ==
  ASSUME TypeOK, TypeOK', NamesOwned, LocksOwned, [Next]_vars
  PROVE  LocksOwned'
<1> SUFFICES ASSUME NEW u \in Tables
             PROVE  /\ holder'[u] \in Creators =>
                         /\ at'[holder'[u]] \in 1..5
                         /\ maker'[CreateOrder[at'[holder'[u]]]] = holder'[u]
                         /\ \E j \in 1..linked'[holder'[u]] :
                              Parents(CreateOrder[at'[holder'[u]]])[j] = u
                    /\ holder'[u] = Migrator =>
                         \/ maker'["role_permissions"] = Migrator
                         \/ maker'["user_permissions"] = Migrator
                    /\ holder'[u] = Migrator /\ u = "permissions" =>
                         maker'["user_permissions"] = Migrator
  BY ListsOfTables, OrdersOf DEF LocksOwned, Making, InTable, Table
<1> DEFINE h == holder[u]
<1>0. /\ h \in Creators =>
           /\ at[h] \in 1..5
           /\ maker[CreateOrder[at[h]]] = h
           /\ \E j \in 1..linked[h] : Parents(CreateOrder[at[h]])[j] = u
      /\ h = Migrator =>
           \/ maker["role_permissions"] = Migrator
           \/ maker["user_permissions"] = Migrator
      /\ h = Migrator /\ u = "permissions" => maker["user_permissions"] = Migrator
  BY ListsOfTables, OrdersOf DEF LocksOwned, Making, InTable, Table
<1>1. h \in Processes \cup {Nobody} /\ (h \in Processes => h \in Creators \/ h = Migrator)
  BY DEF TypeOK, Processes
<1>2. Migrator \in Processes /\ Creators \subseteq Processes /\ Migrator \notin Creators
      /\ \A p \in Processes : p # Nobody
  BY Who, SchemaAssumption
<1>3. Links \subseteq Tables /\ \A i \in 1..5 : CreateOrder[i] \in Tables
  BY ListsOfTables
<1> HIDE DEF h
\* It is enough that its holder keeps it, its names and its place.
<1> DEFINE Keeps ==
      /\ holder'[u] = h
      /\ h \in Creators => at'[h] = at[h] /\ linked'[h] = linked[h]
      /\ h \in Processes => \A t \in Tables : maker[t] = h => maker'[t] = h
<1>a. ASSUME Keeps
      PROVE  /\ holder'[u] \in Creators =>
                  /\ at'[holder'[u]] \in 1..5
                  /\ maker'[CreateOrder[at'[holder'[u]]]] = holder'[u]
                  /\ \E j \in 1..linked'[holder'[u]] :
                       Parents(CreateOrder[at'[holder'[u]]])[j] = u
             /\ holder'[u] = Migrator =>
                  \/ maker'["role_permissions"] = Migrator
                  \/ maker'["user_permissions"] = Migrator
             /\ holder'[u] = Migrator /\ u = "permissions" =>
                  maker'["user_permissions"] = Migrator
  BY <1>a, <1>0, <1>2, <1>3 DEF Links
\* Or that nobody has it any more.
<1>b. ASSUME holder'[u] = Nobody
      PROVE  holder'[u] \notin Creators /\ holder'[u] # Migrator
  BY <1>b, <1>2
<1>4. ASSUME NEW p \in Processes, Begin(p)
      PROVE  Keeps
  <2>1. holder' = holder /\ linked' = linked /\ maker' = maker /\ at[p] = 0
    BY <1>4 DEF Begin, locks
  <2>2. h \in Creators => at'[h] = at[h]
    BY <1>4, <2>1, <1>0, <1>1, <1>2 DEF Begin, TypeOK
  <2> QED BY <2>1, <2>2 DEF h
<1>5. ASSUME NEW p \in Processes, Skip(p)
      PROVE  Keeps
  <2>1. holder' = holder /\ linked' = linked /\ maker' = maker
        /\ at' = [at EXCEPT ![p] = @ + 1] /\ There(Table(p)) /\ at[p] \in 1..5
    BY <1>5, ListsOfTables DEF Skip, GoesOn, InTable, locks
  <2>2. maker[Table(p)] = Nobody
    BY <2>1, ListsOfTables DEF NamesOwned, Table
  <2>3. h \in Creators => h # p
    BY <2>2, <1>0, <1>2, OrdersOf DEF Table
  <2> QED BY <2>1, <2>3, <1>2 DEF h, TypeOK
<1>6. ASSUME NEW p \in Processes, Make(p)
      PROVE  Keeps
  <2>1. holder' = holder /\ linked' = linked /\ at' = at
        /\ maker' = [maker EXCEPT ![Table(p)] = p] /\ maker[Table(p)] = Nobody
    BY <1>6 DEF Make, locks
  <2> QED BY <2>1, <1>2 DEF h, TypeOK
<1>7. ASSUME NEW p \in Processes, Wait(p)
      PROVE  Keeps
  BY <1>7 DEF Wait, locks, h
<1>8. ASSUME NEW p \in Processes, Refer(p), u # NextParent(p)
      PROVE  Keeps \/ (p = h /\ p \in Creators)
  <2>1. /\ holder' = [holder EXCEPT ![NextParent(p)] = p] /\ at' = at /\ maker' = maker
        /\ linked' = [linked EXCEPT ![p] = @ + 1]
    BY <1>8 DEF Refer
  <2>2. holder'[u] = h
    BY <2>1, <1>8 DEF h, TypeOK
  <2> QED BY <2>1, <2>2, <1>2 DEF TypeOK
<1>9. ASSUME NEW p \in Processes, Refer(p), u # NextParent(p), p = h, p \in Creators
      PROVE  /\ holder'[u] = h /\ at' = at /\ maker' = maker
             /\ \E j \in 1..linked'[h] : Parents(CreateOrder[at[h]])[j] = u
  <2>1. /\ holder'[u] = h /\ at' = at /\ maker' = maker
        /\ linked'[h] = linked[h] + 1
    BY <1>9 DEF Refer, h, TypeOK
  <2>2. linked[h] \in 0..2
    BY <1>9, <1>2 DEF TypeOK
  <2>3. PICK j \in 1..linked[h] : Parents(CreateOrder[at[h]])[j] = u
    BY <1>9, <1>0
  <2>4. j \in 1..linked'[h]
    BY <2>1, <2>2
  <2> QED BY <2>1, <2>3, <2>4
<1>10. ASSUME NEW p \in Processes, Refer(p), u = NextParent(p)
       PROVE  /\ holder'[u] = p /\ at' = at /\ maker' = maker
              /\ p \in Creators =>
                   /\ at[p] \in 1..5
                   /\ maker[CreateOrder[at[p]]] = p
                   /\ \E j \in 1..linked'[p] : Parents(CreateOrder[at[p]])[j] = u
              /\ p = Migrator =>
                   \/ maker["role_permissions"] = Migrator
                   \/ maker["user_permissions"] = Migrator
              /\ p = Migrator /\ u = "permissions" => maker["user_permissions"] = Migrator
  <2>1. /\ holder'[u] = p /\ at' = at /\ maker' = maker
        /\ linked'[p] = linked[p] + 1
        /\ InTable(p) /\ maker[Table(p)] = p /\ Linking(p)
    BY <1>10 DEF Refer, Linking, Making, TypeOK
  <2>2. Table(p) \in Links /\ linked[p] \in {0, 1} /\ at[p] \in 1..5
    BY <2>1, PlacesTyped
  <2>3. Parents(Table(p))[linked[p] + 1] = u /\ linked[p] + 1 \in 1..linked'[p]
    BY <1>10, <2>1, <2>2 DEF NextParent
  <2>4. u = "permissions" => Table(p) = "user_permissions"
    BY <2>2, <2>3, ParentsOf DEF Links
  <2>5. p \in Creators => Table(p) = CreateOrder[at[p]]
    BY OrdersOf DEF Table
  <2> QED BY <2>1, <2>2, <2>3, <2>4, <2>5 DEF Links
<1>11. ASSUME NEW p \in Processes, Refused(p) \/ DeadlockVictim(p) \/ ConnectionLost(p)
       PROVE  Keeps \/ holder'[u] = Nobody
  <2>1. Fails(p)
    BY <1>11 DEF Refused, DeadlockVictim, ConnectionLost
  <2>2. CASE h = p
    BY <2>1, <2>2 DEF Fails, Releases, h
  <2>3. CASE h # p
    <3>1. holder'[u] = h
      BY <2>1, <2>3 DEF Fails, Releases, h
    <3>2. h \in Creators => at'[h] = at[h] /\ linked'[h] = linked[h]
      BY <2>1, <2>3, <1>2 DEF Fails, Releases, GoesOn, TypeOK
    <3>3. \A t \in Tables : maker[t] = h => maker'[t] = h
      BY <2>1, <2>3 DEF Fails
    <3> QED BY <3>1, <3>2, <3>3
  <2> QED BY <2>2, <2>3
<1>12. ASSUME NEW c \in Creators, CommitTable(c)
       PROVE  Keeps \/ holder'[u] = Nobody
  <2>1. Releases(c) /\ maker' = [maker EXCEPT ![Table(c)] = Nobody]
        /\ at' = [at EXCEPT ![c] = @ + 1] /\ maker[Table(c)] = c
    BY <1>12 DEF CommitTable, GoesOn, Made, Making
  <2>2. CASE h = c
    BY <2>1, <2>2 DEF Releases, h
  <2>3. CASE h # c
    BY <2>1, <2>3, <1>2 DEF Releases, h, TypeOK
  <2> QED BY <2>2, <2>3
<1>13. ASSUME NEW c \in Creators, EndCreate(c)
       PROVE  Keeps
  <2>1. holder' = holder /\ linked' = linked /\ maker' = maker /\ at[c] = 6
        /\ at' = [at EXCEPT ![c] = 0]
    BY <1>13, ListsOfTables DEF EndCreate, AfterTheLast, locks
  <2>2. h \in Creators => at'[h] = at[h]
    BY <2>1, <1>0, <1>2 DEF TypeOK
  <2> QED BY <2>1, <2>2 DEF h
<1>14. ASSUME NextStatement
       PROVE  Keeps
  BY <1>14, <1>2 DEF NextStatement, GoesOn, TypeOK, h
<1>15. ASSUME CommitMigration
       PROVE  Keeps \/ holder'[u] = Nobody
  <2>1. Releases(Migrator) /\ at' = [at EXCEPT ![Migrator] = 0]
        /\ maker' = [t \in Tables |-> IF maker[t] = Migrator THEN Nobody ELSE maker[t]]
    BY <1>15 DEF CommitMigration
  <2>2. CASE h = Migrator
    BY <2>1, <2>2 DEF Releases, h
  <2>3. CASE h # Migrator
    BY <2>1, <2>3, <1>2 DEF Releases, h, TypeOK
  <2> QED BY <2>2, <2>3
<1>16. CASE Seed \/ UNCHANGED vars
  <2>1. Keeps
    BY <1>16 DEF Seed, vars, locks, h
  <2> QED BY <1>a, <2>1
<1>17. ASSUME NEW p \in Processes, Refer(p)
       PROVE  /\ holder'[u] \in Creators =>
                   /\ at'[holder'[u]] \in 1..5
                   /\ maker'[CreateOrder[at'[holder'[u]]]] = holder'[u]
                   /\ \E j \in 1..linked'[holder'[u]] :
                        Parents(CreateOrder[at'[holder'[u]]])[j] = u
              /\ holder'[u] = Migrator =>
                   \/ maker'["role_permissions"] = Migrator
                   \/ maker'["user_permissions"] = Migrator
              /\ holder'[u] = Migrator /\ u = "permissions" =>
                   maker'["user_permissions"] = Migrator
  <2>1. CASE u = NextParent(p)
    BY <1>17, <2>1, <1>10, <1>2
  <2>2. CASE u # NextParent(p) /\ Keeps
    BY <2>2, <1>a
  <2>3. CASE u # NextParent(p) /\ p = h /\ p \in Creators
    BY <1>17, <2>3, <1>9, <1>0, <1>2
  <2> QED BY <1>17, <2>1, <2>2, <2>3, <1>8
<1> HIDE DEF Keeps
<1> QED
  BY <1>a, <1>b, <1>4, <1>5, <1>6, <1>7, <1>11, <1>12, <1>13, <1>14, <1>15, <1>16, <1>17
  DEF Next

-----------------------------------------------------------------------------
(* What is there behind the place of each process. *)

MigrationBehind ==
  \A i \in 1..5 : i < at[Migrator] =>
    There(MigrationOrder[i]) \/ maker[MigrationOrder[i]] = Migrator

\* What a run of create-tables has lost to a deadlock.
Lost(c, t) == t = "user_permissions" /\ c \in victims

CreatedBehind ==
  \A c \in Creators : whole[c] =>
    /\ extension
    /\ \A i \in 1..5 : i < at[c] => There(CreateOrder[i]) \/ Lost(c, CreateOrder[i])

\* In a circle a creator has made its table and waits for a lock.
LEMMA CreatorsInCircles ==
  ASSUME TypeOK, WaitersWait, NamesOwned, LocksOwned,
         NEW S \in SUBSET Processes,
         \A q \in S : Blocker(q) \in S,
         \A q \in S : \E r \in S : Blocker(r) = q,
         NEW c \in Creators, c \in S
  PROVE  /\ maker[Table(c)] = c /\ at[c] \in 1..5 /\ Table(c) = CreateOrder[at[c]]
         /\ linked[c] \in {0, 1} /\ Table(c) \in Links
         /\ NextParent(c) = Parents(Table(c))[linked[c] + 1]
         /\ NextParent(c) \in Tables
         /\ holder[NextParent(c)] \in S /\ holder[NextParent(c)] # c
<1>1. c \in Processes /\ c # Nobody
  BY SchemaAssumption
<1>2. maker[Table(c)] = c /\ InTable(c)
  <2>1. PICK r \in S : Blocker(r) = c
    OBVIOUS
  <2>2. CASE r \in waits /\ Blocker(r) = maker[Table(r)]
    <3>1. InTable(r) /\ Table(r) \in Tables
      BY <2>2, PlacesTyped DEF WaitersWait
    <3> QED BY <2>1, <2>2, <3>1, <1>1 DEF NamesOwned
  <2>3. CASE Linking(r) /\ Blocker(r) = holder[NextParent(r)]
    <3>1. NextParent(r) \in Tables
      BY <2>3, PlacesTyped DEF Linking, Making
    <3> QED BY <2>1, <2>3, <3>1 DEF LocksOwned, Making
  <2>4. Blocker(r) \in Processes
    BY <2>1, <1>1
  <2> QED BY <2>2, <2>3, <2>4, WaitersAreAtWork
<1>3. c \notin waits
  BY <1>2 DEF WaitersWait
<1>4. Blocker(c) \in S /\ Blocker(c) \in Processes
  OBVIOUS
<1>5. Linking(c) /\ Blocker(c) = holder[NextParent(c)] /\ Blocker(c) # c
  BY <1>3, <1>4, WaitersAreAtWork
<1>6. /\ at[c] \in 1..5 /\ linked[c] \in {0, 1} /\ Table(c) \in Links
      /\ NextParent(c) \in Tables
  BY <1>1, <1>2, <1>5, PlacesTyped
<1> QED BY <1>2, <1>4, <1>5, <1>6, OrdersOf DEF Table, NextParent

\* Only at user_permissions may a creator be a deadlock's victim.
LEMMA VictimsPlace ==
  ASSUME TypeOK, WaitersWait, NamesOwned, LocksOwned, MigrationBehind,
         NEW c \in Creators, Deadlocked(c)
  PROVE  InTable(c) /\ Table(c) = "user_permissions" /\ CreateOrder[at[c]] = "user_permissions"
<1>1. PICK S \in SUBSET Processes :
        /\ c \in S
        /\ \A q \in S : Blocker(q) \in S
        /\ \A q \in S : \E r \in S : Blocker(r) = q
  BY Circle, Who
<1> DEFINE InCircle(d) ==
      /\ maker[Table(d)] = d /\ at[d] \in 1..5 /\ Table(d) = CreateOrder[at[d]]
      /\ linked[d] \in {0, 1} /\ Table(d) \in Links
      /\ NextParent(d) = Parents(Table(d))[linked[d] + 1]
      /\ NextParent(d) \in Tables
      /\ holder[NextParent(d)] \in S /\ holder[NextParent(d)] # d
<1>2. \A d \in Creators : d \in S => InCircle(d)
  BY <1>1, CreatorsInCircles
<1>3. InCircle(c)
  BY <1>1, <1>2
<1>4. Table(c) # "role_permissions"
  <2> SUFFICES ASSUME Table(c) = "role_permissions"
               PROVE  FALSE
    OBVIOUS
  <2> DEFINE u == NextParent(c)
             h == holder[u]
  <2>1. u \in Tables /\ h \in S /\ h # c /\ u # "permissions"
    BY <1>3, ParentsOf
  <2>2. h \in Creators \/ h = Migrator
    BY <2>1 DEF Processes
  <2> HIDE DEF u
  <2>3. CASE h = Migrator
    <3>1. maker["role_permissions"] = c /\ c # Migrator /\ c # Nobody
      BY <1>3, Who, SchemaAssumption DEF Processes
    <3>2. maker["user_permissions"] = Migrator
      BY <2>1, <2>3, <3>1 DEF LocksOwned
    <3>3. at[Migrator] >= 5
      BY <3>2, ListsOfTables, Who DEF NamesOwned, Links
    <3>4. MigrationOrder[4] = "role_permissions"
      BY DEF MigrationOrder
    <3>5. There("role_permissions") \/ maker["role_permissions"] = Migrator
      BY <3>3, <3>4, Who, ListsOfTables DEF MigrationBehind, TypeOK
    <3>6. ~There("role_permissions")
      BY <3>1, ListsOfTables DEF NamesOwned, Links
    <3> QED BY <3>1, <3>5, <3>6
  <2>4. CASE h \in Creators
    <3>1. InCircle(h)
      BY <2>1, <2>4, <1>2
    <3>2. Table(h) = "user_permissions"
      BY <1>3, <2>1, <3>1 DEF Links
    <3>3. linked[h] = 1
      <4>1. \E j \in 1..linked[h] : Parents(Table(h))[j] = u
        BY <2>1, <2>4 DEF LocksOwned
      <4> QED BY <3>1, <4>1
    <3>4. NextParent(h) = "permissions"
      BY <3>1, <3>2, <3>3, ParentsOf
    <3>5. holder["permissions"] \in S /\ holder["permissions"] # h
          /\ "permissions" \in Tables
      BY <3>1, <3>4
    <3>6. CASE holder["permissions"] = Migrator
      <4>1. maker["user_permissions"] = Migrator
        BY <3>5, <3>6 DEF LocksOwned
      <4> QED BY <4>1, <3>1, <3>2, <2>4, Who
    <3>7. CASE holder["permissions"] \in Creators
      <4> DEFINE k == holder["permissions"]
      <4>1. Making(k) /\ \E j \in 1..linked[k] : Parents(Table(k))[j] = "permissions"
        BY <3>5, <3>7 DEF LocksOwned
      <4>2. InCircle(k)
        BY <3>5, <3>7, <1>2
      <4>3. Table(k) = "user_permissions"
        BY <4>1, <4>2, ParentsOf DEF Links
      <4> QED BY <3>1, <3>2, <3>5, <4>2, <4>3
    <3> QED BY <3>5, <3>6, <3>7 DEF Processes
  <2> QED BY <2>2, <2>3, <2>4
<1> QED BY <1>3, <1>4, ListsOfTables DEF Links, InTable

\* No step takes a table away, nor the extension, and victims stay until their
\* next run.
LEMMA TablesStay ==
  ASSUME TypeOK, [Next]_vars
  PROVE  /\ extension => extension'
         /\ \A t \in Tables : There(t) => There(t)'
         /\ \A c \in Creators : c \in victims => c \in victims' \/ Begin(c)
<1>1. ASSUME NEW p \in Processes,
             \/ Begin(p) \/ Skip(p) \/ Make(p) \/ Wait(p) \/ Refer(p) \/ Refused(p)
             \/ DeadlockVictim(p) \/ ConnectionLost(p)
      PROVE  /\ UNCHANGED <<extension, shape>>
             /\ \A c \in Creators : c \in victims => c \in victims' \/ Begin(c)
  BY <1>1 DEF Begin, Skip, Make, Wait, Refer, Refused, DeadlockVictim, ConnectionLost
<1>2. ASSUME NEW c \in Creators, CommitTable(c)
      PROVE  UNCHANGED <<extension, victims>> /\ \A t \in Tables : There(t) => There(t)'
  BY <1>2 DEF CommitTable, There, TypeOK
<1>3. ASSUME NEW c \in Creators, EndCreate(c)
      PROVE  UNCHANGED <<extension, shape, victims>>
  BY <1>3 DEF EndCreate
<1>4. ASSUME CommitMigration
      PROVE  extension' /\ UNCHANGED victims /\ \A t \in Tables : There(t) => There(t)'
  BY <1>4 DEF CommitMigration, There, TypeOK
<1>5. ASSUME NextStatement \/ Seed
      PROVE  UNCHANGED <<extension, shape, victims>>
  BY <1>5 DEF NextStatement, Seed
<1>6. CASE UNCHANGED vars
  BY <1>6 DEF vars, There
<1> QED BY <1>1, <1>2, <1>3, <1>4, <1>5, <1>6 DEF Next, There

\* A creator that was whole is refused only what is there.
LEMMA RefusedIsThere ==
  ASSUME TypeOK, CreatedBehind,
         NEW c \in Creators, whole[c], Refused(c)
  PROVE  There(CreateOrder[at[c]])
<1>1. /\ at[c] \in 1..5 /\ Table(c) = CreateOrder[at[c]] /\ InTable(c)
      /\ extension
      /\ \A i \in 1..3 : i < at[c] => There(CreateOrder[i])
  <2>1. at[c] \in 1..5 /\ Table(c) = CreateOrder[at[c]] /\ InTable(c) /\ extension
    BY Who, OrdersOf, ListsOfTables DEF CreatedBehind, Refused, Making, InTable, Table
  <2>2. \A i \in 1..3 : CreateOrder[i] # "user_permissions"
    BY DEF CreateOrder
  <2> QED BY <2>1, <2>2 DEF CreatedBehind, Lost
<1>2. ASSUME Linking(c)
      PROVE  Sees(c, NextParent(c))
  <2>1. linked[c] + 1 \in 1..Len(Parents(CreateOrder[at[c]]))
    <3>1. linked[c] \in {0, 1} /\ linked[c] < Len(Parents(Table(c))) /\ Table(c) \in Tables
      BY <1>1, <1>2, Who, PlacesTyped DEF Linking
    <3> QED BY <3>1, <1>1, ParentsTyped
  <2> QED BY <1>1, <2>1, ParentsComeFirst DEF Sees, NextParent
<1>3. ~Lacks(c)
  BY <1>1, <1>2 DEF Lacks
<1> QED BY <1>1, <1>3 DEF Refused

\* The tables behind the migration's place are there or still its own.
LEMMA MigrationStaysBehind ==
  ASSUME TypeOK, TypeOK', MigrationBehind, [Next]_vars
  PROVE  MigrationBehind'
<1> SUFFICES ASSUME NEW i \in 1..5, i < at'[Migrator]
             PROVE  There(MigrationOrder[i])' \/ maker'[MigrationOrder[i]] = Migrator
  BY DEF MigrationBehind
<1> DEFINE t == MigrationOrder[i]
<1>0. t \in Tables /\ Migrator \in Processes /\ Table(Migrator) = MigrationOrder[at[Migrator]]
  BY ListsOfTables, Who, OrdersOf DEF Table
<1>1. There(t) => There(t)'
  BY <1>0, TablesStay
<1>2. i < at[Migrator] => There(t) \/ maker[t] = Migrator
  BY DEF MigrationBehind
<1> HIDE DEF t
<1>3. ASSUME NEW c \in Creators,
             \/ Begin(c) \/ Skip(c) \/ Make(c) \/ Wait(c) \/ Refer(c) \/ Refused(c)
             \/ DeadlockVictim(c) \/ ConnectionLost(c)
      PROVE  at'[Migrator] = at[Migrator] /\ (maker[t] = Migrator => maker'[t] = Migrator)
  <2>1. c # Migrator /\ c \in Processes
    BY Who
  <2>2. at'[Migrator] = at[Migrator]
    <3>1. CASE Begin(c) \/ Skip(c) \/ Wait(c)
      BY <3>1, <2>1, Who DEF Begin, Skip, Wait, GoesOn, TypeOK
    <3>2. CASE Make(c) \/ Refer(c)
      BY <3>2, <2>1 DEF Make, Refer
    <3>3. CASE Refused(c) \/ DeadlockVictim(c) \/ ConnectionLost(c)
      BY <3>3, <2>1, Who DEF Refused, DeadlockVictim, ConnectionLost, Fails, GoesOn, TypeOK
    <3> QED BY <1>3, <3>1, <3>2, <3>3
  <2>3. maker[t] = Migrator => maker'[t] = Migrator
    <3>1. CASE Begin(c) \/ Skip(c) \/ Wait(c) \/ Refer(c)
      BY <3>1 DEF Begin, Skip, Wait, Refer
    <3>2. CASE Make(c)
      BY <3>2, <1>0, Who DEF Make, TypeOK
    <3>3. CASE Refused(c) \/ DeadlockVictim(c) \/ ConnectionLost(c)
      BY <3>3, <1>0, <2>1 DEF Refused, DeadlockVictim, ConnectionLost, Fails, TypeOK
    <3> QED BY <1>3, <3>1, <3>2, <3>3
  <2> QED BY <2>2, <2>3
<1>4. CASE Begin(Migrator)
  BY <1>4, <1>0, <1>1, <1>2 DEF Begin, TypeOK
<1>5. CASE Skip(Migrator)
  <2>1. at'[Migrator] = at[Migrator] + 1 /\ maker' = maker /\ There(MigrationOrder[at[Migrator]])
    BY <1>5, <1>0 DEF Skip, GoesOn, TypeOK
  <2>2. i < at[Migrator] \/ i = at[Migrator]
    BY <2>1, <1>0 DEF TypeOK
  <2> QED BY <2>1, <2>2, <1>1, <1>2 DEF t
<1>6. CASE Make(Migrator)
  <2>1. /\ at' = at
        /\ maker' = [maker EXCEPT ![MigrationOrder[at[Migrator]]] = Migrator]
    BY <1>6, <1>0 DEF Make
  <2> QED BY <2>1, <1>0, <1>1, <1>2 DEF t, TypeOK
<1>7. CASE Wait(Migrator) \/ Refer(Migrator)
  BY <1>7, <1>1, <1>2 DEF Wait, Refer, t
<1>8. CASE Refused(Migrator) \/ DeadlockVictim(Migrator) \/ ConnectionLost(Migrator)
  <2>1. at'[Migrator] = 0
    BY <1>8, <1>0 DEF Refused, DeadlockVictim, ConnectionLost, Fails, TypeOK
  <2> QED BY <2>1
<1>9. ASSUME NEW c \in Creators, CommitTable(c)
      PROVE  at'[Migrator] = at[Migrator] /\ (maker[t] = Migrator => maker'[t] = Migrator)
  <2>1. c # Migrator /\ c \in Processes
    BY Who
  <2>2. maker[Table(c)] = c
    BY <1>9 DEF CommitTable, Made, Making
  <2> QED BY <1>9, <1>0, <2>1, <2>2 DEF CommitTable, GoesOn, TypeOK
<1>10. ASSUME NEW c \in Creators, EndCreate(c)
       PROVE  at'[Migrator] = at[Migrator] /\ maker' = maker
  BY <1>10, Who DEF EndCreate, TypeOK
<1>11. CASE CommitMigration
  <2>1. at'[Migrator] = 0
    BY <1>11, <1>0 DEF CommitMigration, TypeOK
  <2> QED BY <2>1
<1>12. CASE Seed \/ UNCHANGED vars
  BY <1>12, <1>1, <1>2 DEF Seed, vars, t
<1>13. CASE NextStatement
  <2>1. at'[Migrator] = at[Migrator] + 1 /\ maker' = maker
        /\ maker[MigrationOrder[at[Migrator]]] = Migrator
    BY <1>13, <1>0 DEF NextStatement, Made, Making, GoesOn, TypeOK
  <2>2. i < at[Migrator] \/ i = at[Migrator]
    BY <2>1, <1>0 DEF TypeOK
  <2> QED BY <2>1, <2>2, <1>1, <1>2 DEF t
<1> QED
  BY <1>1, <1>2, <1>3, <1>4, <1>5, <1>6, <1>7, <1>8, <1>9, <1>10, <1>11, <1>12,
     <1>13
  DEF Next, Processes, t

\* Behind a creator that is whole so far every table is there.
LEMMA CreatedStaysBehind ==
  ASSUME TypeOK, TypeOK', WaitersWait, NamesOwned, LocksOwned, MigrationBehind,
         CreatedBehind, [Next]_vars
  PROVE  CreatedBehind'
<1> SUFFICES ASSUME NEW c \in Creators, whole'[c]
             PROVE  /\ extension'
                    /\ \A i \in 1..5 : i < at'[c] =>
                         There(CreateOrder[i])' \/ Lost(c, CreateOrder[i])'
  BY DEF CreatedBehind
<1>0. c \in Processes /\ c # Migrator /\ Table(c) = CreateOrder[at[c]]
      /\ \A i \in 1..5 : CreateOrder[i] \in Tables
  BY ListsOfTables, Who, OrdersOf DEF Table
<1>1. \A i \in 1..5 : There(CreateOrder[i]) => There(CreateOrder[i])'
  BY <1>0, TablesStay
<1>2. whole[c] /\ ~Begin(c) =>
        /\ extension /\ extension'
        /\ \A i \in 1..5 : i < at[c] => There(CreateOrder[i])' \/ Lost(c, CreateOrder[i])'
  BY <1>1, TablesStay DEF CreatedBehind, Lost
<1>k. PICK k \in 0..6 : k = at[c]
  BY <1>0, ListsOfTables DEF TypeOK
\* It is enough that c stays where it is, or goes one on past a table that is there.
<1>3. ASSUME whole[c], ~Begin(c),
             \/ at'[c] \in {0, 1, k}
             \/ at'[c] = k + 1 /\ (There(CreateOrder[k])' \/ Lost(c, CreateOrder[k])')
      PROVE  /\ extension'
             /\ \A i \in 1..5 : i < at'[c] =>
                  There(CreateOrder[i])' \/ Lost(c, CreateOrder[i])'
  <2> SUFFICES ASSUME NEW i \in 1..5, i < at'[c]
               PROVE  There(CreateOrder[i])' \/ Lost(c, CreateOrder[i])'
    BY <1>2, <1>3
  <2>1. CASE i < k
    BY <1>2, <1>3, <1>k, <2>1
  <2>2. CASE i >= k
    BY <1>3, <2>2
  <2> QED BY <2>1, <2>2
<1>4. CASE Begin(c)
  <2>1. whole'[c] = extension /\ at'[c] \in {at[c], 1} /\ UNCHANGED extension /\ at[c] = 0
    BY <1>4, <1>0 DEF Begin, TypeOK
  <2> QED BY <2>1
<1>5. CASE Skip(c)
  <2>1. whole[c] /\ at'[c] = k + 1 /\ There(CreateOrder[k]) /\ k \in 1..5
    BY <1>5, <1>k, <1>0, ListsOfTables DEF Skip, GoesOn, InTable, TypeOK
  <2>2. ~Begin(c)
    BY <2>1, <1>k DEF Begin
  <2> QED BY <2>1, <2>2, <1>1, <1>3
<1>6. CASE Make(c) \/ Wait(c) \/ Refer(c)
  <2>1. whole[c] /\ at'[c] = k /\ k \in 1..5
    BY <1>6, <1>k, <1>0, ListsOfTables DEF Make, Wait, Refer, Linking, Making, InTable
  <2>2. ~Begin(c)
    BY <2>1, <1>k DEF Begin
  <2> QED BY <2>1, <2>2, <1>3
<1>7. CASE Refused(c)
  <2>1. whole[c] /\ at'[c] = k + 1 /\ k \in 1..5
    BY <1>7, <1>k, <1>0, ListsOfTables
    DEF Refused, Making, Fails, GoesOn, InTable, TypeOK
  <2>2. There(CreateOrder[k])
    BY <1>7, <1>k, <2>1, RefusedIsThere
  <2>3. ~Begin(c)
    BY <2>1, <1>k DEF Begin
  <2> QED BY <2>1, <2>2, <2>3, <1>1, <1>3
<1>16. CASE DeadlockVictim(c)
  <2>1. InTable(c) /\ CreateOrder[k] = "user_permissions"
    BY <1>16, <1>k, VictimsPlace DEF DeadlockVictim
  <2>2. whole[c] /\ at'[c] = k + 1 /\ k \in 1..5 /\ c \in victims'
    BY <1>16, <2>1, <1>k, <1>0, ListsOfTables DEF DeadlockVictim, Fails, GoesOn, InTable, TypeOK
  <2>3. ~Begin(c)
    BY <2>2, <1>k DEF Begin
  <2> QED BY <2>1, <2>2, <2>3, <1>3 DEF Lost
<1>8. CASE ConnectionLost(c)
  BY <1>8, <1>0 DEF ConnectionLost, TypeOK
<1>9. CASE CommitTable(c)
  <2>1. whole[c] /\ at'[c] = k + 1 /\ k \in 1..5
    BY <1>9, <1>k, <1>0, ListsOfTables
    DEF CommitTable, Made, Making, GoesOn, InTable, TypeOK
  <2>2. There(CreateOrder[k])'
    BY <1>9, <1>k, <1>0, <2>1 DEF CommitTable, There, TypeOK
  <2>3. ~Begin(c)
    BY <2>1, <1>k DEF Begin
  <2> QED BY <2>1, <2>2, <2>3, <1>3
<1>10. CASE EndCreate(c)
  <2>1. whole[c] /\ at'[c] = 0 /\ at[c] = 6
    BY <1>10, <1>0, ListsOfTables DEF EndCreate, AfterTheLast, TypeOK
  <2>2. ~Begin(c)
    BY <2>1 DEF Begin
  <2> QED BY <2>1, <2>2, <1>3
\* The steps of others leave c where it is and what it is.
<1>11. ASSUME NEW p \in Processes \ {c},
              Begin(p) \/ Skip(p) \/ Make(p) \/ Wait(p) \/ Refer(p)
       PROVE  whole[c] /\ at'[c] = k
  <2>1. CASE Begin(p) \/ Wait(p) \/ Refer(p)
    BY <2>1, <1>k, <1>0 DEF Begin, Wait, Refer, TypeOK
  <2>2. CASE Skip(p) \/ Make(p)
    BY <2>2, <1>k, <1>0 DEF Skip, Make, GoesOn, TypeOK
  <2> QED BY <1>11, <2>1, <2>2
<1>12. ASSUME NEW p \in Processes \ {c},
              Refused(p) \/ DeadlockVictim(p) \/ ConnectionLost(p)
       PROVE  whole[c] /\ at'[c] = k
  <2>1. at'[c] = k
    BY <1>12, <1>k, <1>0 DEF Refused, DeadlockVictim, ConnectionLost, Fails, GoesOn, TypeOK
  <2>2. whole[c]
    BY <1>12, <1>0 DEF Refused, DeadlockVictim, ConnectionLost, TypeOK
  <2> QED BY <2>1, <2>2
<1>13. ASSUME NEW d \in Creators \ {c}, CommitTable(d) \/ EndCreate(d)
       PROVE  whole[c] /\ at'[c] = k
  BY <1>13, <1>k, <1>0, Who DEF CommitTable, EndCreate, GoesOn, TypeOK
<1>14. ASSUME NextStatement \/ CommitMigration \/ Seed \/ UNCHANGED vars
       PROVE  whole[c] /\ at'[c] = k
  BY <1>14, <1>k, <1>0 DEF NextStatement, CommitMigration, GoesOn, Seed, vars, TypeOK
<1>15. CASE whole[c] /\ at'[c] = k
  <2>1. CASE Begin(c)
    BY <2>1, <1>4
  <2>2. CASE ~Begin(c)
    BY <2>2, <1>3, <1>15
  <2> QED BY <2>1, <2>2
<1> QED
  BY <1>4, <1>5, <1>6, <1>7, <1>8, <1>9, <1>10, <1>11, <1>12, <1>13, <1>14, <1>15, <1>16
  DEF Next
-----------------------------------------------------------------------------
(* The two promises *)

LEMMA RecordedStaysComplete ==
  ASSUME TypeOK, MigrationBehind, RecordedIsComplete, [Next]_vars
  PROVE  RecordedIsComplete'
<1>1. CASE CommitMigration
  <2>0. extension'
    BY <1>1 DEF CommitMigration
  <2> SUFFICES ASSUME NEW t \in Tables
               PROVE  There(t)'
    BY <2>0 DEF RecordedIsComplete
  <2>1. PICK i \in 1..5 : MigrationOrder[i] = t
    BY ListsOfTables, Who, OrdersOf
  <2>2. There(t) \/ maker[t] = Migrator
    BY <1>1, <2>1, ListsOfTables DEF CommitMigration, AfterTheLast, MigrationBehind
  <2>3. shape'[t] = IF maker[t] = Migrator THEN "migrated" ELSE shape[t]
    BY <1>1 DEF CommitMigration
  <2> QED BY <2>2, <2>3 DEF There
<1>2. CASE ~CommitMigration
  <2>1. recorded' = recorded
    <3>1. ASSUME NEW p \in Processes,
                 \/ Begin(p) \/ Skip(p) \/ Make(p) \/ Wait(p) \/ Refer(p)
                 \/ Refused(p) \/ DeadlockVictim(p) \/ ConnectionLost(p)
          PROVE  recorded' = recorded
      BY <3>1
      DEF Begin, Skip, Make, Wait, Refer, Refused, DeadlockVictim, ConnectionLost
    <3>2. ASSUME NEW d \in Creators, CommitTable(d) \/ EndCreate(d)
          PROVE  recorded' = recorded
      BY <3>2 DEF CommitTable, EndCreate
    <3>3. CASE NextStatement \/ Seed \/ UNCHANGED vars
      BY <3>3 DEF NextStatement, Seed, vars
    <3> QED BY <1>2, <3>1, <3>2, <3>3 DEF Next
  <2> QED BY <2>1, TablesStay DEF RecordedIsComplete
<1> QED BY <1>1, <1>2

LEMMA CreatedStaysComplete ==
  ASSUME TypeOK, CreatedBehind, CreateTablesCompletes, [Next]_vars
  PROVE  CreateTablesCompletes'
<1> SUFFICES ASSUME NEW c \in Creators, outcome'[c] = "0", whole'[c], NEW t \in Tables
             PROVE  There(t)' \/ Lost(c, t)'
  BY DEF CreateTablesCompletes, Lost
<1>0. c \in Processes /\ c # Migrator /\ c # "seeds"
  BY Who, SchemaAssumption
<1>1. ~Begin(c) /\ (There(t) \/ Lost(c, t)) => There(t)' \/ Lost(c, t)'
  BY TablesStay DEF Lost
<1>2. CASE EndCreate(c)
  <2>1. PICK i \in 1..5 : CreateOrder[i] = t
    BY <1>0, ListsOfTables, OrdersOf
  <2>2. whole[c] /\ at[c] = 6 /\ ~Begin(c)
    BY <1>2, ListsOfTables DEF EndCreate, AfterTheLast, Begin
  <2> QED BY <2>1, <2>2, <1>1 DEF CreatedBehind
<1>3. CASE Begin(c)
  BY <1>3, <1>0 DEF Begin, TypeOK
<1>4. CASE ~EndCreate(c) /\ ~Begin(c)
  <2>1. outcome'[c] = outcome[c]
    <3>1. ASSUME NEW p \in Processes, Begin(p) \/ Skip(p) \/ Make(p) \/ Wait(p) \/ Refer(p)
          PROVE  outcome'[c] = outcome[c]
      BY <3>1, <1>4, <1>0 DEF Begin, Skip, Make, Wait, Refer, TypeOK
    <3>2. ASSUME NEW p \in Processes, Refused(p) \/ DeadlockVictim(p) \/ ConnectionLost(p)
          PROVE  outcome'[c] = outcome[c]
      BY <3>2, <1>0 DEF Refused, DeadlockVictim, ConnectionLost, Fails, TypeOK
    <3>3. ASSUME NEW d \in Creators, CommitTable(d) \/ EndCreate(d)
          PROVE  outcome'[c] = outcome[c]
      BY <3>3, <1>4, <1>0 DEF CommitTable, EndCreate, TypeOK
    <3>4. CASE NextStatement \/ CommitMigration \/ Seed \/ UNCHANGED vars
      BY <3>4, <1>0 DEF NextStatement, CommitMigration, Seed, vars, TypeOK
    <3> QED BY <3>1, <3>2, <3>3, <3>4 DEF Next
  <2>2. whole[c]
    <3>1. ASSUME NEW p \in Processes, Begin(p) \/ Skip(p) \/ Make(p) \/ Wait(p) \/ Refer(p)
          PROVE  whole[c]
      BY <3>1, <1>4, <1>0 DEF Begin, Skip, Make, Wait, Refer, TypeOK
    <3>2. ASSUME NEW p \in Processes, Refused(p) \/ DeadlockVictim(p) \/ ConnectionLost(p)
          PROVE  whole[c]
      BY <3>2, <1>0 DEF Refused, DeadlockVictim, ConnectionLost, TypeOK
    <3>3. ASSUME NEW d \in Creators, CommitTable(d) \/ EndCreate(d)
          PROVE  whole[c]
      BY <3>3 DEF CommitTable, EndCreate
    <3>4. CASE NextStatement \/ CommitMigration \/ Seed \/ UNCHANGED vars
      BY <3>4 DEF NextStatement, CommitMigration, Seed, vars
    <3> QED BY <3>1, <3>2, <3>3, <3>4 DEF Next
  <2> QED BY <2>1, <2>2, <1>1, <1>4 DEF CreateTablesCompletes, Lost
<1> QED BY <1>2, <1>3, <1>4

Inv ==
  /\ TypeOK
  /\ WaitersWait /\ NamesOwned /\ LocksOwned
  /\ MigrationBehind
  /\ CreatedBehind
  /\ RecordedIsComplete
  /\ CreateTablesCompletes

LEMMA Inductive == Spec => []Inv
<1>1. Init => Inv
  <2> SUFFICES ASSUME Init
               PROVE  Inv
    OBVIOUS
  <2>1. TypeOK
    BY InitTyped
  <2>2. \A p \in Processes : at[p] = 0 /\ ~whole[p]
    BY DEF Init
  <2>3. MigrationBehind
    <3> SUFFICES ASSUME NEW i \in 1..5, i < at[Migrator]
                 PROVE  FALSE
      BY DEF MigrationBehind
    <3> QED BY <2>2, Who
  <2>4. CreatedBehind /\ CreateTablesCompletes
    BY <2>2, Who DEF CreatedBehind, CreateTablesCompletes
  <2>5. RecordedIsComplete
    BY DEF Init, RecordedIsComplete
  <2>6. WaitersWait /\ NamesOwned /\ LocksOwned
    <3>1. waits = {} /\ \A t \in Tables : maker[t] = Nobody /\ holder[t] = Nobody
      BY DEF Init
    <3>2. Nobody \notin Creators /\ Nobody # Migrator
      BY SchemaAssumption DEF Processes
    <3> QED BY <3>1, <3>2 DEF WaitersWait, NamesOwned, LocksOwned
  <2> QED BY <2>1, <2>3, <2>4, <2>5, <2>6 DEF Inv
<1>2. Inv /\ [Next]_vars => Inv'
  BY NextTyped, WaitersKeepWaiting, NamesStayOwned, LocksStayOwned, MigrationStaysBehind,
     CreatedStaysBehind, RecordedStaysComplete, CreatedStaysComplete DEF Inv
<1> QED BY <1>1, <1>2, PTL DEF Spec

\* The state is well-typed, whatever processes run and fail (main.cc:37).
THEOREM TypeCorrect == Spec => []TypeOK
<1>1. Inv => TypeOK
  BY DEF Inv
<1> QED BY <1>1, Inductive, PTL

\* A version that is recorded has all its tables (001_initial_schema.sql), for
\* any number of runs of create-tables next to it.
THEOREM RecordedStays == Spec => []RecordedIsComplete
<1>1. Inv => RecordedIsComplete
  BY DEF Inv
<1> QED BY <1>1, Inductive, PTL

\* A run of create-tables that had the extension and lost no connection leaves
\* every table there, next to any number of others, but for user_permissions
\* where it was a deadlock's victim (main.cc:37).
THEOREM CreateTablesComplete == Spec => []CreateTablesCompletes
<1>1. Inv => CreateTablesCompletes
  BY DEF Inv
<1> QED BY <1>1, Inductive, PTL
=============================================================================
