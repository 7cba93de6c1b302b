----------------------------- MODULE ListCache -----------------------------
(***************************************************************************)
(* The cached list of one resource (users or roles) and the writes that    *)
(* invalidate it: the list, create, update and delete handlers of          *)
(* UserController and RoleController, their services, and the Redis calls  *)
(* of cache/RedisCache.cc.  All threads of all replicas share one database *)
(* and one Redis; the two resources share nothing, because every key of a  *)
(* resource begins with its own prefix.                                    *)
(*                                                                         *)
(* A committed write that changes a row gives the table its next version,  *)
(* and a list is known by the version of the table it was read from.  A    *)
(* request that the database refuses is answered with an error and leaves  *)
(* no trace; such requests are not shown.  One whose statement committed,  *)
(* but whose result was lost, is answered with an error as well.           *)
(***************************************************************************)
EXTENDS Naturals, FiniteSets

CONSTANTS Readers,    \* the threads that serve lists
          Writers,    \* the threads that serve creates, updates and deletes
          Page,       \* the pages asked for, each with its own cache key
          Id,         \* the primary keys
          TTL,        \* the 30 seconds of SETEX, in ticks
          MaxDelay,   \* the most ticks between reading a page and its SETEX
          MaxWrites   \* bound: how many writes change the table

ASSUME CacheAssumption ==
  /\ TTL \in Nat \ {0}
  /\ MaxDelay \in Nat
  /\ MaxWrites \in Nat

Version == 0..MaxWrites

VARIABLES
  rows,     \* the primary keys in the table
  version,  \* how many writes have changed the table
  age,      \* history: the ticks since each of them was committed
  lost,     \* history: the versions whose write had its result lost, kept
            \* while Redis works
  failing,  \* from now on Redis commands may fail, and replicas crash
  cache,    \* the version of the list in each key of Redis
  ttl,      \* the ticks each key still has; none is an absent key
  racy,     \* history: the list in a key was out of date when it was stored
  rpc,      \* "idle", or the next call of a list: "get", "read" or "set"
  page,     \* the page a list is about
  items,    \* the list read from the table or the cache
  waited,   \* the ticks since it was read from the table
  wpc,      \* "idle", or the next call of a write: "keys" or "del"
  found     \* the keys of erasePrefix() that are still to be erased

sharedVars == << rows, version, age, lost, failing >>
redisVars == << cache, ttl, racy >>
readerVars == << rpc, page, items, waited >>
writerVars == << wpc, found >>
vars == << sharedVars, redisVars, readerVars, writerVars >>

\* A write of this age is old, however old it is.
Old == TTL + MaxDelay

Init ==
  /\ rows = {}
  /\ version = 0
  /\ age = [v \in 1..MaxWrites |-> 0]
  /\ lost = {}
  /\ failing = FALSE
  /\ cache = [p \in Page |-> 0]
  /\ ttl = [p \in Page |-> 0]
  /\ racy = [p \in Page |-> FALSE]
  /\ rpc = [r \in Readers |-> "idle"]
  /\ page \in [Readers -> Page]
  /\ items = [r \in Readers |-> 0]
  /\ waited = [r \in Readers |-> 0]
  /\ wpc = [w \in Writers |-> "idle"]
  /\ found = [w \in Writers |-> {}]

Cached(p) == ttl[p] > 0

-----------------------------------------------------------------------------
(* getUsers, getRoles: look into the cache, else read and store.           *)

ListStarts(r, p) ==
  /\ rpc[r] = "idle"
  /\ rpc' = [rpc EXCEPT ![r] = "get"]
  /\ page' = [page EXCEPT ![r] = p]
  /\ UNCHANGED << sharedVars, redisVars, items, waited, writerVars >>

\* Mutant: a hit renews the time to live of its key.
GetRenewing(p) == ttl' = [ttl EXCEPT ![p] = TTL]

\* GET leaves the key and its time to live alone.
Get(p) == UNCHANGED ttl

\* The list is answered; the locals of its handler are gone.
ListEnds(r) ==
  /\ rpc' = [rpc EXCEPT ![r] = "idle"]
  /\ items' = [items EXCEPT ![r] = 0]
  /\ waited' = [waited EXCEPT ![r] = 0]
  /\ UNCHANGED page

Hit(r) ==
  /\ rpc[r] = "get"
  /\ Cached(page[r])
  /\ Get(page[r])
  /\ ListEnds(r)
  /\ UNCHANGED << sharedVars, cache, racy, writerVars >>

\* Redis has no such key, or the command fails.
Miss(r) ==
  /\ rpc[r] = "get"
  /\ ~ Cached(page[r]) \/ failing
  /\ rpc' = [rpc EXCEPT ![r] = "read"]
  /\ UNCHANGED << sharedVars, redisVars, page, items, waited, writerVars >>

\* listUsers(), listRoles(): what the list holds is what findAll() sees.
Read(r) ==
  /\ rpc[r] = "read"
  /\ items' = [items EXCEPT ![r] = version]
  /\ waited' = [waited EXCEPT ![r] = 0]
  /\ rpc' = [rpc EXCEPT ![r] = "set"]
  /\ UNCHANGED << sharedVars, redisVars, page, writerVars >>

Set(r) ==
  /\ rpc[r] = "set"
  /\ cache' = [cache EXCEPT ![page[r]] = items[r]]
  /\ ttl' = [ttl EXCEPT ![page[r]] = TTL]
  /\ racy' = [racy EXCEPT ![page[r]] = items[r] # version]
  /\ ListEnds(r)
  /\ UNCHANGED << sharedVars, writerVars >>

SetFails(r) ==
  /\ failing
  /\ rpc[r] = "set"
  /\ ListEnds(r)
  /\ UNCHANGED << sharedVars, redisVars, writerVars >>

\* The replica of a list crashes: its client gets no list.
ListCrashes(r) ==
  /\ failing
  /\ rpc[r] # "idle"
  /\ ListEnds(r)
  /\ UNCHANGED << sharedVars, redisVars, writerVars >>

-----------------------------------------------------------------------------
(* create, update and delete: write, erase the prefix, answer.             *)

Committed(w, changed) ==
  /\ wpc[w] = "idle"
  /\ wpc' = [wpc EXCEPT ![w] = "keys"]
  /\ IF changed
       THEN version < MaxWrites /\ version' = version + 1
       ELSE UNCHANGED version
  /\ UNCHANGED << age, lost, failing, redisVars, readerVars, found >>

\* A time-out or a lost connection is an exception to the handler, also when the
\* statement has committed or still will: nothing is erased then.
ResultLost(w) ==
  /\ wpc[w] = "idle"
  /\ version < MaxWrites
  /\ version' = version + 1
  /\ lost' = IF failing THEN lost ELSE lost \cup {version + 1}
  /\ UNCHANGED << age, failing, redisVars, readerVars, writerVars >>

Written(w, changed) == Committed(w, changed) \/ (changed /\ ResultLost(w))

\* The database gives a new row its primary key.
Create(w, i) ==
  /\ i \notin rows
  /\ rows' = rows \cup {i}
  /\ Written(w, TRUE)

\* A row that is not there is updated to no effect, and answered with 200 too.
Update(w, i) ==
  /\ UNCHANGED rows
  /\ Written(w, i \in rows)

\* A row that is not there is answered with 400, after the prefix was erased.
Delete(w, i) ==
  /\ rows' = rows \ {i}
  /\ Written(w, i \in rows)

Keys(w) ==
  /\ wpc[w] = "keys"
  /\ found' = [found EXCEPT ![w] = {p \in Page : Cached(p)}]
  /\ wpc' = [wpc EXCEPT ![w] = "del"]
  /\ UNCHANGED << sharedVars, redisVars, readerVars >>

KeysFails(w) ==
  /\ failing
  /\ wpc[w] = "keys"
  /\ wpc' = [wpc EXCEPT ![w] = "del"]
  /\ UNCHANGED << sharedVars, redisVars, readerVars, found >>

\* Mutant: only the first key is erased.
ErasedAlone(w, p) == found' = [found EXCEPT ![w] = {}]

Erased(w, p) == found' = [found EXCEPT ![w] = @ \ {p}]

Del(w, p) ==
  /\ wpc[w] = "del"
  /\ p \in found[w]
  /\ Erased(w, p)
  /\ ttl' = [ttl EXCEPT ![p] = 0]
  /\ cache' = [cache EXCEPT ![p] = 0]
  /\ racy' = [racy EXCEPT ![p] = FALSE]
  /\ UNCHANGED << sharedVars, readerVars, wpc >>

\* erase() swallows its exception, and the next key is tried.
DelFails(w, p) ==
  /\ failing
  /\ wpc[w] = "del"
  /\ p \in found[w]
  /\ Erased(w, p)
  /\ UNCHANGED << sharedVars, redisVars, readerVars, wpc >>

WriteEnds(w) ==
  /\ wpc' = [wpc EXCEPT ![w] = "idle"]
  /\ found' = [found EXCEPT ![w] = {}]

Acknowledge(w) ==
  /\ wpc[w] = "del"
  /\ found[w] = {}
  /\ WriteEnds(w)
  /\ UNCHANGED << sharedVars, redisVars, readerVars >>

WriteCrashes(w) ==
  /\ failing
  /\ wpc[w] # "idle"
  /\ WriteEnds(w)
  /\ UNCHANGED << sharedVars, redisVars, readerVars >>

-----------------------------------------------------------------------------
Tick ==
  /\ \A r \in Readers : rpc[r] = "set" => waited[r] < MaxDelay
  /\ waited' = [r \in Readers |-> IF rpc[r] = "set" THEN waited[r] + 1 ELSE 0]
  /\ ttl' = [p \in Page |-> IF Cached(p) THEN ttl[p] - 1 ELSE 0]
  /\ cache' = [p \in Page |-> IF ttl[p] > 1 THEN cache[p] ELSE 0]
  /\ racy' = [p \in Page |-> ttl[p] > 1 /\ racy[p]]
  /\ age' = [v \in 1..MaxWrites |->
              IF v <= version /\ age[v] < Old THEN age[v] + 1 ELSE age[v]]
  /\ UNCHANGED << rows, version, lost, failing, rpc, page, items, writerVars >>

\* Redis, the network or a replica gets into trouble, for good.
Degrade ==
  /\ ~ failing
  /\ failing' = TRUE
  /\ lost' = {}
  /\ UNCHANGED << rows, version, age, redisVars, readerVars, writerVars >>

ListStep(r) == Hit(r) \/ Miss(r) \/ Read(r) \/ Set(r) \/ SetFails(r)

EraseStep(w) ==
  \/ Keys(w) \/ KeysFails(w) \/ Acknowledge(w)
  \/ \E p \in Page : Del(w, p) \/ DelFails(w, p)

Write(w) == \E i \in Id : Create(w, i) \/ Update(w, i) \/ Delete(w, i)

Next ==
  \/ \E r \in Readers :
       (\E p \in Page : ListStarts(r, p)) \/ ListStep(r) \/ ListCrashes(r)
  \/ \E w \in Writers : Write(w) \/ EraseStep(w) \/ WriteCrashes(w)
  \/ Tick \/ Degrade

Spec == Init /\ [][Next]_vars

\* A request in progress goes on, and time passes.
Fairness ==
  /\ \A r \in Readers : WF_vars(ListStep(r))
  /\ \A w \in Writers : WF_vars(EraseStep(w))
  /\ WF_vars(Tick)

FairSpec == Spec /\ Fairness

-----------------------------------------------------------------------------
DbTypeOK ==
  /\ rows \subseteq Id
  /\ version \in Version
  /\ age \in [1..MaxWrites -> Nat]
  /\ lost \subseteq 1..MaxWrites
  /\ failing \in BOOLEAN

RedisTypeOK ==
  /\ cache \in [Page -> Nat]
  /\ ttl \in [Page -> 0..TTL]
  /\ racy \in [Page -> BOOLEAN]

ReaderTypeOK ==
  /\ rpc \in [Readers -> {"idle", "get", "read", "set"}]
  /\ page \in [Readers -> Page]
  /\ items \in [Readers -> Nat]
  /\ waited \in [Readers -> 0..MaxDelay]

WriterTypeOK ==
  /\ wpc \in [Writers -> {"idle", "keys", "del"}]
  /\ found \in [Writers -> SUBSET Page]
  /\ \A w \in Writers : wpc[w] # "del" => found[w] = {}

TypeOK == DbTypeOK /\ RedisTypeOK /\ ReaderTypeOK /\ WriterTypeOK

Stale(p) == Cached(p) /\ cache[p] < version

\* "List responses are cached for 30 seconds", and that bounds what failures
\* and races can do: no list in the cache lacks a write that was committed a
\* time to live before, prolonged by what a list takes from its query to SETEX.
StalenessBounded ==
  \A p \in Page : Stale(p) => age[cache[p] + 1] < TTL + MaxDelay

\* "writes invalidate the resource cache": while Redis works, a list that is
\* missing writes either is about to be erased by an erasePrefix(), or was
\* stored, after a write, by a list request that had read before it, or is
\* missing only writes whose result was lost.
StaleOnlyByRace ==
  ~ failing =>
    \A p \in Page :
      Stale(p) => \/ racy[p]
                  \/ \E w \in Writers : wpc[w] = "keys" \/ p \in found[w]
                  \/ (cache[p] + 1)..version \subseteq lost

\* When the writes are over, the cache comes to hold the latest list only, and
\* stays so, even if every invalidation has failed.
EventuallyFresh ==
  version = MaxWrites ~> [](\A p \in Page : ~ Stale(p))

-----------------------------------------------------------------------------
(* Strengthenings, which make StalenessBounded inductive.                  *)

\* What is missing from a list got missing after the list was read.
AgesAreBounded ==
  /\ \A p \in Page : Cached(p) =>
       /\ cache[p] <= version
       /\ cache[p] < version => age[cache[p] + 1] + ttl[p] <= TTL + MaxDelay
  /\ \A r \in Readers : rpc[r] = "set" =>
       /\ items[r] <= version
       /\ items[r] < version => age[items[r] + 1] <= waited[r]
  /\ \A v \in 1..MaxWrites : v > version => age[v] = 0
=============================================================================
