-------------------------- MODULE ListCacheProofs --------------------------
(***************************************************************************)
(* Proofs about ListCache, for any threads, pages, keys and settings, and  *)
(* about ListWalk, for any rows, times and ints.                           *)
(***************************************************************************)
EXTENDS ListCache, ListWalk, FiniteSetTheorems, TLAPS

-----------------------------------------------------------------------------
(* Types.                                                                  *)

\* The initial state is well-typed.
LEMMA TypeInit == Init => TypeOK
<1> SUFFICES ASSUME Init PROVE TypeOK
  OBVIOUS
<1> USE CacheAssumption DEF Init, Version
<1>1. DbTypeOK
  <2>1. age \in [1..MaxWrites -> Nat] /\ version \in Version
    OBVIOUS
  <2> QED
    BY <2>1 DEF DbTypeOK
<1>2. RedisTypeOK
  BY DEF RedisTypeOK
<1>3. ReaderTypeOK
  BY DEF ReaderTypeOK
<1>4. WriterTypeOK
  BY DEF WriterTypeOK
<1> QED
  BY <1>1, <1>2, <1>3, <1>4 DEF TypeOK

\* What a step leaves alone keeps its type.
LEMMA Unchanged ==
  ASSUME TypeOK
  PROVE  /\ UNCHANGED sharedVars => DbTypeOK'
         /\ UNCHANGED redisVars => RedisTypeOK'
         /\ UNCHANGED readerVars => ReaderTypeOK'
         /\ UNCHANGED writerVars => WriterTypeOK'
<1>1. UNCHANGED sharedVars => DbTypeOK'
  BY DEF TypeOK, DbTypeOK, sharedVars
<1>2. UNCHANGED redisVars => RedisTypeOK'
  BY DEF TypeOK, RedisTypeOK, redisVars
<1>3. UNCHANGED readerVars => ReaderTypeOK'
  BY DEF TypeOK, ReaderTypeOK, readerVars
<1>4. UNCHANGED writerVars => WriterTypeOK'
  BY DEF TypeOK, WriterTypeOK, writerVars
<1> QED
  BY <1>1, <1>2, <1>3, <1>4

\* The end of a list resets its locals.
LEMMA ListEndsType ==
  ASSUME TypeOK, NEW r \in Readers, ListEnds(r)
  PROVE  ReaderTypeOK'
  BY CacheAssumption DEF ListEnds, TypeOK, ReaderTypeOK

\* So does the end of a write.
LEMMA WriteEndsType ==
  ASSUME TypeOK, NEW w \in Writers, WriteEnds(w)
  PROVE  WriterTypeOK'
  BY DEF WriteEnds, TypeOK, WriterTypeOK

\* The steps of a list.
LEMMA ListType ==
  ASSUME TypeOK, NEW r \in Readers,
         (\E p \in Page : ListStarts(r, p)) \/ ListStep(r) \/ ListCrashes(r)
  PROVE  TypeOK'
<1> USE DEF sharedVars, redisVars, readerVars, writerVars
<1>1. DbTypeOK'
  <2>1. UNCHANGED sharedVars
    BY DEF ListStarts, ListStep, Hit, Miss, Read, Set, SetFails, ListCrashes
  <2> QED
    BY <2>1, Unchanged
<1>2. WriterTypeOK'
  <2>1. UNCHANGED writerVars
    BY DEF ListStarts, ListStep, Hit, Miss, Read, Set, SetFails, ListCrashes
  <2> QED
    BY <2>1, Unchanged
<1>3. RedisTypeOK'
  <2>1. CASE UNCHANGED redisVars
    BY <2>1, Unchanged
  <2>2. CASE Hit(r)
    BY <2>2 DEF Hit, Get, TypeOK, RedisTypeOK
  <2>3. CASE Set(r)
    <3>1. page[r] \in Page /\ items[r] \in Nat /\ TTL \in 0..TTL
      BY CacheAssumption DEF TypeOK, ReaderTypeOK
    <3> QED
      BY <2>3, <3>1 DEF Set, TypeOK, RedisTypeOK
  <2> QED
    BY <2>1, <2>2, <2>3 DEF ListStarts, ListStep, Miss, Read, SetFails, ListCrashes
<1>4. ReaderTypeOK'
  <2>1. CASE ListEnds(r)
    BY <2>1, ListEndsType
  <2>2. ASSUME NEW p \in Page, ListStarts(r, p) PROVE ReaderTypeOK'
    BY <2>2 DEF ListStarts, TypeOK, ReaderTypeOK, DbTypeOK, Version
  <2>3. CASE Miss(r)
    BY <2>3 DEF Miss, TypeOK, ReaderTypeOK
  <2>4. CASE Read(r)
    <3>1. version \in Nat /\ 0 \in 0..MaxDelay
      BY CacheAssumption DEF TypeOK, DbTypeOK, Version
    <3> QED
      BY <2>4, <3>1 DEF Read, TypeOK, ReaderTypeOK
  <2> QED
    BY <2>1, <2>2, <2>3, <2>4 DEF ListStep, Hit, Set, SetFails, ListCrashes
<1> QED
  BY <1>1, <1>2, <1>3, <1>4 DEF TypeOK

\* The step that changes the table.
LEMMA CommittedType ==
  ASSUME TypeOK, NEW w \in Writers, NEW c, Committed(w, c),
         rows' \subseteq Id
  PROVE  TypeOK'
<1>1. version' \in Version /\ UNCHANGED << age, lost, failing >>
  <2>1. version \in Version /\ MaxWrites \in Nat
    BY CacheAssumption DEF TypeOK, DbTypeOK
  <2>2. version' = version \/ (version < MaxWrites /\ version' = version + 1)
    BY Zenon DEF Committed
  <2> QED
    BY <2>1, <2>2 DEF Committed, Version
<1>2. DbTypeOK'
  BY <1>1 DEF TypeOK, DbTypeOK
<1>3. WriterTypeOK'
  BY DEF Committed, TypeOK, WriterTypeOK
<1>4. UNCHANGED << redisVars, readerVars >>
  BY DEF Committed
<1> QED
  BY <1>2, <1>3, <1>4, Unchanged DEF TypeOK

\* The step whose result is lost.
LEMMA ResultLostType ==
  ASSUME TypeOK, NEW w \in Writers, ResultLost(w), rows' \subseteq Id
  PROVE  TypeOK'
<1>1. version \in 0..MaxWrites /\ MaxWrites \in Nat /\ lost \subseteq 1..MaxWrites
  BY CacheAssumption DEF TypeOK, DbTypeOK, Version
<1>2. /\ version' = version + 1 /\ version < MaxWrites
      /\ lost' \in {lost, lost \cup {version + 1}}
      /\ UNCHANGED << age, failing, redisVars, readerVars, writerVars >>
  BY DEF ResultLost
<1>3. version' \in Version /\ lost' \subseteq 1..MaxWrites
  BY <1>1, <1>2 DEF Version
<1>4. DbTypeOK'
  BY <1>2, <1>3 DEF TypeOK, DbTypeOK
<1> QED
  BY <1>2, <1>4, Unchanged DEF TypeOK

\* The steps of a write.
LEMMA WriteType ==
  ASSUME TypeOK, NEW w \in Writers, Write(w) \/ EraseStep(w) \/ WriteCrashes(w)
  PROVE  TypeOK'
<1>1. CASE Write(w)
  <2>1. PICK i \in Id : Create(w, i) \/ Update(w, i) \/ Delete(w, i)
    BY <1>1 DEF Write
  <2>2. rows \subseteq Id
    BY DEF TypeOK, DbTypeOK
  <2>3. CASE Create(w, i)
    <3>1. (Committed(w, TRUE) \/ ResultLost(w)) /\ rows' \subseteq Id
      BY <2>2, <2>3 DEF Create, Written
    <3> QED
      BY <3>1, CommittedType, ResultLostType
  <2>4. CASE Update(w, i)
    <3>1. (Committed(w, i \in rows) \/ ResultLost(w)) /\ rows' \subseteq Id
      BY <2>2, <2>4 DEF Update, Written
    <3> QED
      BY <3>1, CommittedType, ResultLostType
  <2>5. CASE Delete(w, i)
    <3>1. Committed(w, i \in rows) \/ ResultLost(w)
      BY <2>5 DEF Delete, Written
    <3>2. rows' \subseteq Id
      BY <2>2, <2>5 DEF Delete
    <3> QED
      BY <3>1, <3>2, CommittedType, ResultLostType
  <2> QED
    BY <2>1, <2>3, <2>4, <2>5
<1>2. CASE Keys(w) \/ KeysFails(w)
  <2>1. UNCHANGED << sharedVars, redisVars, readerVars >>
    BY <1>2 DEF Keys, KeysFails
  <2>2. WriterTypeOK'
    BY <1>2 DEF Keys, KeysFails, TypeOK, WriterTypeOK, sharedVars
  <2> QED
    BY <2>1, <2>2, Unchanged DEF TypeOK
<1>3. ASSUME NEW p \in Page, Del(w, p) \/ DelFails(w, p) PROVE TypeOK'
  <2>1. UNCHANGED << sharedVars, readerVars >>
    BY <1>3 DEF Del, DelFails
  <2>2. RedisTypeOK'
    <3>1. CASE Del(w, p)
      BY <3>1, CacheAssumption DEF Del, TypeOK, RedisTypeOK
    <3>2. CASE DelFails(w, p)
      BY <3>2, Unchanged DEF DelFails
    <3> QED
      BY <1>3, <3>1, <3>2
  <2>3. wpc[w] = "del" /\ found' = [found EXCEPT ![w] = @ \ {p}] /\ UNCHANGED wpc
    BY <1>3 DEF Del, DelFails, Erased
  <2>4. WriterTypeOK'
    BY <2>3 DEF TypeOK, WriterTypeOK
  <2> QED
    BY <2>1, <2>2, <2>4, Unchanged DEF TypeOK
<1>4. CASE Acknowledge(w) \/ WriteCrashes(w)
  <2>1. UNCHANGED << sharedVars, redisVars, readerVars >> /\ WriteEnds(w)
    BY <1>4 DEF Acknowledge, WriteCrashes
  <2> QED
    BY <2>1, Unchanged, WriteEndsType DEF TypeOK
<1> QED
  BY <1>1, <1>2, <1>3, <1>4 DEF EraseStep

\* Time passing.
LEMMA TickType ==
  ASSUME TypeOK, Tick
  PROVE  TypeOK'
<1>1. DbTypeOK'
  BY DEF Tick, TypeOK, DbTypeOK
<1>2. RedisTypeOK'
  <2>1. \A p \in Page : (IF Cached(p) THEN ttl[p] - 1 ELSE 0) \in 0..TTL
    BY CacheAssumption DEF TypeOK, RedisTypeOK, Cached
  <2> QED
    BY <2>1 DEF Tick, TypeOK, RedisTypeOK
<1>3. ReaderTypeOK'
  <2>1. \A r \in Readers :
          (IF rpc[r] = "set" THEN waited[r] + 1 ELSE 0) \in 0..MaxDelay
    BY CacheAssumption DEF Tick, TypeOK, ReaderTypeOK
  <2> QED
    BY <2>1 DEF Tick, TypeOK, ReaderTypeOK
<1>4. UNCHANGED writerVars
  BY DEF Tick
<1> QED
  BY <1>1, <1>2, <1>3, <1>4, Unchanged DEF TypeOK

\* Trouble: nothing but the flag changes.
LEMMA DegradeType ==
  ASSUME TypeOK, Degrade
  PROVE  TypeOK'
<1>1. DbTypeOK'
  BY DEF Degrade, TypeOK, DbTypeOK
<1>2. UNCHANGED << redisVars, readerVars, writerVars >>
  BY DEF Degrade
<1> QED
  BY <1>1, <1>2, Unchanged DEF TypeOK

\* Every step keeps the types.
LEMMA TypeStep == TypeOK /\ [Next]_vars => TypeOK'
<1>1. TypeOK /\ UNCHANGED vars => TypeOK'
  <2> SUFFICES ASSUME TypeOK, UNCHANGED vars PROVE TypeOK'
    OBVIOUS
  <2>1. UNCHANGED << sharedVars, redisVars, readerVars, writerVars >>
    BY DEF vars, sharedVars
  <2> QED
    BY <2>1, Unchanged DEF TypeOK
<1> QED
  BY <1>1, ListType, WriteType, TickType, DegradeType DEF Next

\* The state is well-typed; in particular no key outlives its time to live, a
\* list is stored within MaxDelay, and what is acknowledged is committed.
THEOREM TypeCorrect == Spec => []TypeOK
  BY TypeInit, TypeStep, PTL DEF Spec

-----------------------------------------------------------------------------
(* How old what a list lacks can be.                                       *)

\* The parts of AgesAreBounded.
EntriesFresh ==
  \A p \in Page : Cached(p) =>
    /\ cache[p] <= version
    /\ cache[p] < version => age[cache[p] + 1] + ttl[p] <= TTL + MaxDelay

ReadersFresh ==
  \A r \in Readers : rpc[r] = "set" =>
    /\ items[r] <= version
    /\ items[r] < version => age[items[r] + 1] <= waited[r]

FutureAges == \A v \in 1..MaxWrites : v > version => age[v] = 0

\* The conjuncts of AgesAreBounded, by name.
LEMMA AgesParts == AgesAreBounded <=> EntriesFresh /\ ReadersFresh /\ FutureAges
  BY DEF AgesAreBounded, EntriesFresh, ReadersFresh, FutureAges

\* An empty cache and a table without writes.
LEMMA AgesInit == Init => AgesAreBounded
  BY CacheAssumption DEF Init, AgesAreBounded, Cached

\* Steps that neither write nor let time pass.
LEMMA AgesOfLists ==
  ASSUME TypeOK, AgesAreBounded, NEW r \in Readers,
         (\E p \in Page : ListStarts(r, p)) \/ ListStep(r) \/ ListCrashes(r)
  PROVE  AgesAreBounded'
<1> USE DEF sharedVars, redisVars
<1>1. UNCHANGED << version, age >>
  BY DEF ListStarts, ListStep, Hit, Miss, Read, Set, SetFails, ListCrashes
<1>2. EntriesFresh /\ ReadersFresh /\ FutureAges
  BY AgesParts
<1>3. FutureAges'
  BY <1>1, <1>2 DEF FutureAges
<1>4. EntriesFresh'
  <2>1. CASE UNCHANGED << cache, ttl >>
    BY <1>1, <1>2, <2>1 DEF EntriesFresh, Cached
  <2>2. CASE Set(r)
    <3>1. PICK q, v : q = page[r] /\ v = items[r]
      OBVIOUS
    <3>2. /\ cache' = [cache EXCEPT ![q] = v]
          /\ ttl' = [ttl EXCEPT ![q] = TTL]
      BY <2>2, <3>1 DEF Set
    <3>3. q \in Page /\ v \in Nat /\ version \in 0..MaxWrites /\ waited[r] \in 0..MaxDelay
      BY <3>1 DEF TypeOK, ReaderTypeOK, DbTypeOK, Version
    <3>4. v <= version /\ (v < version => age[v + 1] <= waited[r])
      BY <1>2, <2>2, <3>1 DEF ReadersFresh, Set
    <3>5. v < version => age[v + 1] + TTL <= TTL + MaxDelay
      <4>1. v < version => v + 1 \in 1..MaxWrites
        BY <3>3, CacheAssumption
      <4>2. v < version => age[v + 1] \in Nat
        BY <4>1 DEF TypeOK, DbTypeOK
      <4> QED
        BY <3>3, <3>4, <4>2, CacheAssumption
    <3>6. ASSUME NEW p \in Page, Cached(p)'
          PROVE  /\ cache'[p] <= version
                 /\ cache'[p] < version => age[cache'[p] + 1] + ttl'[p] <= TTL + MaxDelay
      <4>1. CASE p = q
        <5>1. cache'[p] = v /\ ttl'[p] = TTL
          BY <3>2, <4>1 DEF TypeOK, RedisTypeOK
        <5> QED
          BY <3>4, <3>5, <5>1
      <4>2. CASE p # q
        <5>1. cache'[p] = cache[p] /\ ttl'[p] = ttl[p] /\ Cached(p)
          BY <3>2, <3>6, <4>2 DEF TypeOK, RedisTypeOK, Cached
        <5> QED
          BY <1>2, <5>1 DEF EntriesFresh
      <4> QED
        BY <4>1, <4>2
    <3> QED
      BY <1>1, <3>6 DEF EntriesFresh
  <2> QED
    BY <2>1, <2>2 DEF ListStarts, ListStep, Hit, Get, Miss, Read, SetFails, ListCrashes
<1>5. ReadersFresh'
  <2>1. CASE Read(r)
    <3>1. /\ rpc' = [rpc EXCEPT ![r] = "set"]
          /\ items' = [items EXCEPT ![r] = version]
          /\ waited' = [waited EXCEPT ![r] = 0]
          /\ version \in Nat
      BY <2>1 DEF Read, TypeOK, DbTypeOK, Version
    <3>2. ASSUME NEW s \in Readers, rpc'[s] = "set"
          PROVE  /\ items'[s] <= version
                 /\ items'[s] < version => age[items'[s] + 1] <= waited'[s]
      <4>1. CASE s = r
        <5>1. items'[s] = version
          BY <3>1, <4>1 DEF TypeOK, ReaderTypeOK
        <5> QED
          BY <3>1, <5>1
      <4>2. CASE s # r
        <5>1. items'[s] = items[s] /\ waited'[s] = waited[s] /\ rpc[s] = "set"
          BY <3>1, <3>2, <4>2 DEF TypeOK, ReaderTypeOK
        <5> QED
          BY <1>2, <5>1 DEF ReadersFresh
      <4> QED
        BY <4>1, <4>2
    <3> QED
      BY <1>1, <3>2 DEF ReadersFresh
  <2>2. CASE ~ Read(r)
    <3>1. ASSUME NEW s \in Readers, rpc'[s] = "set"
          PROVE  rpc[s] = "set" /\ items'[s] = items[s] /\ waited'[s] = waited[s]
      BY <2>2, <3>1 DEF ListStarts, ListStep, Hit, Miss, Set, SetFails, ListCrashes,
                        ListEnds, TypeOK, ReaderTypeOK
    <3> QED
      BY <1>1, <1>2, <3>1 DEF ReadersFresh
  <2> QED
    BY <2>1, <2>2
<1> QED
  <2>1. AgesAreBounded' <=> EntriesFresh' /\ ReadersFresh' /\ FutureAges'
    BY DEF AgesAreBounded, EntriesFresh, ReadersFresh, FutureAges
  <2> QED
    BY <1>3, <1>4, <1>5, <2>1

\* A commit: what was up to date now lacks a write that is new.
LEMMA AgesOfCommit ==
  ASSUME TypeOK, AgesAreBounded, NEW w \in Writers, NEW c, Written(w, c)
  PROVE  AgesAreBounded'
<1>1. /\ UNCHANGED << age, cache, ttl, rpc, items, waited >>
      /\ version \in Nat /\ version \in 0..MaxWrites
      /\ version' = version \/ (version' = version + 1 /\ version + 1 \in 1..MaxWrites)
  <2>1. UNCHANGED << age, cache, ttl, rpc, items, waited >>
    BY DEF Written, Committed, ResultLost, redisVars, readerVars
  <2>2. version \in Nat /\ version \in 0..MaxWrites
    BY DEF TypeOK, DbTypeOK, Version
  <2>3. version' = version \/ (version < MaxWrites /\ version' = version + 1)
    BY Zenon DEF Written, Committed, ResultLost
  <2> QED
    BY <2>1, <2>2, <2>3, CacheAssumption
<1>2. EntriesFresh /\ ReadersFresh /\ FutureAges
  BY AgesParts
<1>3. CASE version' = version
  BY <1>1, <1>2, <1>3 DEF AgesAreBounded, EntriesFresh, ReadersFresh, FutureAges, Cached
<1>4. CASE version' = version + 1 /\ version + 1 \in 1..MaxWrites
  <2>1. age[version + 1] = 0
    BY <1>1, <1>2, <1>4 DEF FutureAges
  <2>2. EntriesFresh'
    <3> SUFFICES ASSUME NEW p \in Page, Cached(p)
                 PROVE  /\ cache[p] <= version + 1
                        /\ cache[p] < version + 1 =>
                             age[cache[p] + 1] + ttl[p] <= TTL + MaxDelay
      BY <1>1, <1>4 DEF EntriesFresh, Cached
    <3>1. cache[p] \in Nat /\ ttl[p] \in 0..TTL /\ cache[p] <= version
      BY <1>2 DEF TypeOK, RedisTypeOK, EntriesFresh
    <3>2. CASE cache[p] = version
      BY <1>1, <2>1, <3>1, <3>2, CacheAssumption
    <3>3. CASE cache[p] < version
      BY <1>1, <1>2, <3>1, <3>3 DEF EntriesFresh
    <3> QED
      BY <1>1, <3>1, <3>2, <3>3
  <2>3. ReadersFresh'
    <3> SUFFICES ASSUME NEW r \in Readers, rpc[r] = "set"
                 PROVE  /\ items[r] <= version + 1
                        /\ items[r] < version + 1 => age[items[r] + 1] <= waited[r]
      BY <1>1, <1>4 DEF ReadersFresh
    <3>1. items[r] \in Nat /\ waited[r] \in 0..MaxDelay /\ items[r] <= version
      BY <1>2 DEF TypeOK, ReaderTypeOK, ReadersFresh
    <3>2. CASE items[r] = version
      BY <1>1, <2>1, <3>1, <3>2, CacheAssumption
    <3>3. CASE items[r] < version
      BY <1>1, <1>2, <3>1, <3>3 DEF ReadersFresh
    <3> QED
      BY <1>1, <3>1, <3>2, <3>3
  <2>4. FutureAges'
    BY <1>1, <1>2, <1>4 DEF FutureAges
  <2> QED
    BY <2>2, <2>3, <2>4 DEF AgesAreBounded, EntriesFresh, ReadersFresh, FutureAges
<1> QED
  BY <1>1, <1>3, <1>4

\* The other steps of a write erase keys or leave the cache alone.
LEMMA AgesOfWrites ==
  ASSUME TypeOK, AgesAreBounded, NEW w \in Writers,
         Write(w) \/ EraseStep(w) \/ WriteCrashes(w)
  PROVE  AgesAreBounded'
<1>1. CASE Write(w)
  BY <1>1, AgesOfCommit DEF Write, Create, Update, Delete
<1>2. CASE EraseStep(w) \/ WriteCrashes(w)
  <2>1. UNCHANGED << version, age, rpc, items, waited >>
    BY <1>2 DEF EraseStep, Keys, KeysFails, Acknowledge, Del, DelFails, WriteCrashes,
                sharedVars, redisVars, readerVars
  <2>2. \A p \in Page : (ttl'[p] = ttl[p] /\ cache'[p] = cache[p]) \/ ttl'[p] = 0
    <3>1. CASE UNCHANGED << ttl, cache >>
      BY <3>1
    <3>2. ASSUME NEW p \in Page, Del(w, p)
          PROVE  \A q \in Page :
                   (ttl'[q] = ttl[q] /\ cache'[q] = cache[q]) \/ ttl'[q] = 0
      BY <3>2 DEF Del, TypeOK, RedisTypeOK
    <3> QED
      BY <1>2, <3>1, <3>2 DEF EraseStep, Keys, KeysFails, Acknowledge, Del, DelFails,
                              WriteCrashes, redisVars
  <2>3. \A p \in Page :
          Cached(p)' => Cached(p) /\ ttl'[p] = ttl[p] /\ cache'[p] = cache[p]
    BY <2>2 DEF Cached
  <2> QED
    BY <2>1, <2>3 DEF AgesAreBounded
<1> QED
  BY <1>1, <1>2

\* What a tick does not expire it keeps.
LEMMA KeptByTick ==
  ASSUME TypeOK, Tick, NEW p \in Page, Cached(p)'
  PROVE  /\ Cached(p)
         /\ ttl'[p] = ttl[p] - 1
         /\ cache'[p] = cache[p]
         /\ racy'[p] = racy[p]
<1>1. ttl[p] \in Nat /\ racy[p] \in BOOLEAN
  BY DEF TypeOK, RedisTypeOK
<1>2. ttl'[p] = (IF Cached(p) THEN ttl[p] - 1 ELSE 0) /\ ttl'[p] > 0
  BY DEF Tick, Cached
<1>3. Cached(p) /\ ttl'[p] = ttl[p] - 1 /\ ttl[p] > 1
  BY <1>1, <1>2
<1>4. /\ cache'[p] = (IF ttl[p] > 1 THEN cache[p] ELSE 0)
      /\ racy'[p] = (ttl[p] > 1 /\ racy[p])
  BY DEF Tick
<1>5. cache'[p] = cache[p]
  BY <1>3, <1>4
<1>6. racy'[p] = racy[p]
  BY <1>1, <1>3, <1>4, Zenon
<1> QED
  BY <1>3, <1>5, <1>6

\* A tick ages the writes by one, and takes one from every time to live.
LEMMA AgesOfTick ==
  ASSUME TypeOK, AgesAreBounded, Tick
  PROVE  AgesAreBounded'
<1>1. UNCHANGED << version, rpc, items >>
  BY DEF Tick
<1>2. EntriesFresh /\ ReadersFresh /\ FutureAges
  BY AgesParts
<1>3. \A v \in 1..MaxWrites :
        /\ age[v] \in Nat /\ age'[v] \in Nat /\ age'[v] <= age[v] + 1
        /\ v > version => age'[v] = age[v]
  BY DEF Tick, TypeOK, DbTypeOK, Version
<1>4. version \in 0..MaxWrites /\ version \in Nat
  BY DEF TypeOK, DbTypeOK, Version
<1>5. EntriesFresh'
  <2> SUFFICES ASSUME NEW p \in Page, Cached(p)'
               PROVE  /\ cache'[p] <= version
                      /\ cache'[p] < version =>
                           age'[cache'[p] + 1] + ttl'[p] <= TTL + MaxDelay
    BY <1>1 DEF EntriesFresh
  <2>2. cache[p] \in Nat /\ ttl[p] \in Nat
    BY DEF TypeOK, RedisTypeOK
  <2>1. Cached(p) /\ ttl'[p] = ttl[p] - 1 /\ cache'[p] = cache[p]
    BY <2>2, KeptByTick
  <2>3. cache[p] < version => cache[p] + 1 \in 1..MaxWrites
    BY <1>4, <2>2, CacheAssumption
  <2>4. /\ cache[p] <= version
        /\ cache[p] < version => age[cache[p] + 1] + ttl[p] <= TTL + MaxDelay
    BY <1>2, <2>1 DEF EntriesFresh
  <2> QED
    BY <1>3, <2>1, <2>2, <2>3, <2>4, CacheAssumption
<1>6. ReadersFresh'
  <2> SUFFICES ASSUME NEW r \in Readers, rpc[r] = "set"
               PROVE  /\ items[r] <= version
                      /\ items[r] < version => age'[items[r] + 1] <= waited'[r]
    BY <1>1 DEF ReadersFresh
  <2>1. waited'[r] = waited[r] + 1
    BY DEF Tick
  <2>2. items[r] \in Nat /\ waited[r] \in Nat
    BY DEF TypeOK, ReaderTypeOK
  <2>3. items[r] < version => items[r] + 1 \in 1..MaxWrites
    BY <1>4, <2>2, CacheAssumption
  <2>4. items[r] <= version /\ (items[r] < version => age[items[r] + 1] <= waited[r])
    BY <1>2 DEF ReadersFresh
  <2> QED
    BY <1>3, <2>1, <2>2, <2>3, <2>4
<1>7. FutureAges'
  BY <1>1, <1>2, <1>3 DEF FutureAges
<1> QED
  BY <1>5, <1>6, <1>7 DEF AgesAreBounded, EntriesFresh, ReadersFresh, FutureAges

\* The ages stay bounded in every step.
LEMMA AgesStep == TypeOK /\ AgesAreBounded /\ [Next]_vars => AgesAreBounded'
<1>1. AgesAreBounded /\ UNCHANGED vars => AgesAreBounded'
  BY DEF vars, sharedVars, redisVars, readerVars, AgesAreBounded, Cached
<1>2. AgesAreBounded /\ Degrade => AgesAreBounded'
  BY DEF Degrade, redisVars, readerVars, AgesAreBounded, Cached
<1> QED
  BY <1>1, <1>2, AgesOfLists, AgesOfWrites, AgesOfTick DEF Next

\* No list in the cache lacks a write that was committed TTL + MaxDelay ago,
\* whatever fails, crashes or races: the time to live is what bounds staleness.
THEOREM StalenessIsBounded == Spec => []StalenessBounded
<1>1. TypeOK /\ AgesAreBounded => StalenessBounded
  <2> SUFFICES ASSUME TypeOK, AgesAreBounded, NEW p \in Page, Stale(p)
               PROVE  age[cache[p] + 1] < TTL + MaxDelay
    BY DEF StalenessBounded
  <2>1. ttl[p] \in Nat /\ ttl[p] > 0 /\ cache[p] \in Nat /\ version \in 0..MaxWrites
    BY DEF TypeOK, RedisTypeOK, DbTypeOK, Version, Stale, Cached
  <2>2. cache[p] + 1 \in 1..MaxWrites
    BY <2>1, CacheAssumption DEF Stale
  <2>3. age[cache[p] + 1] \in Nat
    BY <2>2 DEF TypeOK, DbTypeOK
  <2>4. age[cache[p] + 1] + ttl[p] <= TTL + MaxDelay
    BY DEF AgesAreBounded, Stale
  <2> QED
    BY <2>1, <2>3, <2>4, CacheAssumption
<1> QED
  BY <1>1, TypeInit, TypeStep, AgesInit, AgesStep, PTL DEF Spec

-----------------------------------------------------------------------------
(* What invalidation misses when Redis works.                              *)

\* A key that somebody is about to erase.
Doomed(p) == \E w \in Writers : wpc[w] = "keys" \/ p \in found[w]

\* A key whose list lacks only writes with a lost result.
OnlyLost(p) == (cache[p] + 1)..version \subseteq lost

LEMMA RaceParts ==
  StaleOnlyByRace <=>
    (~ failing => \A p \in Page : Stale(p) => racy[p] \/ Doomed(p) \/ OnlyLost(p))
BY DEF StaleOnlyByRace, Doomed, OnlyLost

LEMMA RacePartsNext ==
  StaleOnlyByRace' <=>
    (~ failing' => \A p \in Page : Stale(p)' => racy'[p] \/ Doomed(p)' \/ OnlyLost(p)')
BY DEF StaleOnlyByRace, Doomed, OnlyLost

\* The steps of a list: a list that is up to date when it is stored is no
\* concern, and one that is not is marked.
LEMMA RaceOfLists ==
  ASSUME TypeOK, StaleOnlyByRace, NEW r \in Readers,
         (\E p \in Page : ListStarts(r, p)) \/ ListStep(r) \/ ListCrashes(r)
  PROVE  StaleOnlyByRace'
<1> USE DEF sharedVars, redisVars, writerVars
<1> SUFFICES ASSUME ~ failing', NEW p \in Page, Stale(p)', ~ racy'[p]
             PROVE  Doomed(p)' \/ OnlyLost(p)'
  BY RacePartsNext
<1>1. UNCHANGED << version, lost, failing, wpc, found >>
  BY DEF ListStarts, ListStep, Hit, Miss, Read, Set, SetFails, ListCrashes
<1>2. Stale(p) /\ ~ racy[p] /\ cache'[p] = cache[p]
  <2>1. CASE UNCHANGED << cache, ttl, racy >>
    BY <1>1, <2>1 DEF Stale, Cached
  <2>2. CASE Set(r)
    <3>1. CASE p = page[r]
      <4>1. cache'[p] = items[r] /\ racy'[p] = (items[r] # version)
        BY <2>2, <3>1 DEF Set, TypeOK, RedisTypeOK
      <4>2. cache'[p] = version'
        BY <1>1, <4>1
      <4>3. version' \in Nat
        BY <1>1 DEF TypeOK, DbTypeOK, Version
      <4> QED
        BY <4>2, <4>3 DEF Stale
    <3>2. CASE p # page[r]
      BY <1>1, <2>2, <3>2 DEF Set, Stale, Cached, TypeOK, RedisTypeOK
    <3> QED
      BY <3>1, <3>2
  <2> QED
    BY <2>1, <2>2 DEF ListStarts, ListStep, Hit, Get, Miss, Read, SetFails, ListCrashes
<1>3. Doomed(p) \/ OnlyLost(p)
  BY <1>1, <1>2, RaceParts
<1> QED
  BY <1>1, <1>2, <1>3 DEF Doomed, OnlyLost

\* The steps of a write: from its commit to the last DEL of its keys, every key
\* it found, or will find, is about to be erased.
LEMMA RaceOfWrites ==
  ASSUME TypeOK, AgesAreBounded, StaleOnlyByRace, NEW w \in Writers,
         Write(w) \/ EraseStep(w) \/ WriteCrashes(w)
  PROVE  StaleOnlyByRace'
<1> USE DEF sharedVars, redisVars, readerVars
<1> SUFFICES ASSUME ~ failing', NEW p \in Page, Stale(p)', ~ racy'[p]
             PROVE  Doomed(p)' \/ OnlyLost(p)'
  BY RacePartsNext
<1>0. wpc \in [Writers -> {"idle", "keys", "del"}] /\ found \in [Writers -> SUBSET Page]
  BY DEF TypeOK, WriterTypeOK
<1>1. CASE Write(w)
  <2>1. ASSUME NEW c, Committed(w, c) PROVE Doomed(p)'
    <3>1. wpc'[w] = "keys"
      BY <1>0, <2>1 DEF Committed
    <3> QED
      BY <3>1 DEF Doomed
  <2>2. CASE ResultLost(w)
    <3>1. /\ version' = version + 1 /\ lost' = lost \cup {version + 1}
          /\ UNCHANGED << failing, cache, ttl, racy, wpc, found >>
      BY <2>2 DEF ResultLost, redisVars, writerVars
    <3>2. version \in Nat /\ cache[p] \in Nat /\ Cached(p) /\ cache[p] <= version
      BY <3>1 DEF TypeOK, DbTypeOK, RedisTypeOK, Version, Stale, Cached, AgesAreBounded
    <3>3. CASE cache[p] = version
      BY <3>1, <3>2, <3>3 DEF OnlyLost
    <3>4. CASE cache[p] < version
      <4>1. Doomed(p) \/ OnlyLost(p)
        BY <3>1, <3>2, <3>4, RaceParts DEF Stale
      <4> QED
        BY <3>1, <3>2, <4>1 DEF Doomed, OnlyLost
    <3> QED
      BY <3>2, <3>3, <3>4
  <2> QED
    BY <1>1, <2>1, <2>2 DEF Write, Create, Update, Delete, Written
<1>2. CASE EraseStep(w) \/ WriteCrashes(w)
  <2>1. UNCHANGED << version, lost, failing >> /\ (UNCHANGED racy \/ \E q \in Page : Del(w, q))
    BY <1>2 DEF EraseStep, Keys, KeysFails, Acknowledge, Del, DelFails, WriteCrashes
  <2>2. CASE Keys(w)
    <3>1. Cached(p)
      BY <2>2 DEF Keys, Stale, Cached
    <3>2. p \in found'[w]
      BY <1>0, <2>2, <3>1 DEF Keys
    <3> QED
      BY <3>2 DEF Doomed
  <2>3. ASSUME NEW q \in Page, Del(w, q) PROVE Doomed(p)' \/ OnlyLost(p)'
    <3>1. p # q
      BY <2>3 DEF Del, Stale, Cached, TypeOK, RedisTypeOK
    <3>2. Stale(p) /\ ~ racy[p] /\ cache'[p] = cache[p]
      BY <2>1, <2>3, <3>1 DEF Del, Stale, Cached, TypeOK, RedisTypeOK
    <3>6. CASE OnlyLost(p)
      BY <2>1, <3>2, <3>6 DEF OnlyLost
    <3>7. CASE Doomed(p)
      <4>1. PICK u \in Writers : wpc[u] = "keys" \/ p \in found[u]
        BY <3>7 DEF Doomed
      <4>2. wpc' = wpc /\ found' = [found EXCEPT ![w] = @ \ {q}]
        BY <2>3 DEF Del, Erased
      <4>3. wpc'[u] = "keys" \/ p \in found'[u]
        BY <1>0, <3>1, <4>1, <4>2
      <4> QED
        BY <4>3 DEF Doomed
    <3> QED
      BY <2>1, <3>2, <3>6, <3>7, RaceParts
  <2>4. CASE Acknowledge(w)
    <3>1. Stale(p) /\ ~ racy[p] /\ cache' = cache
      BY <2>4 DEF Acknowledge, Stale, Cached
    <3>2. CASE OnlyLost(p)
      BY <2>1, <3>1, <3>2 DEF OnlyLost
    <3>3. CASE Doomed(p)
      <4>1. PICK u \in Writers : wpc[u] = "keys" \/ p \in found[u]
        BY <3>3 DEF Doomed
      <4>2. u # w
        BY <2>4, <4>1 DEF Acknowledge
      <4>3. wpc'[u] = wpc[u] /\ found'[u] = found[u]
        BY <1>0, <2>4, <4>2 DEF Acknowledge, WriteEnds
      <4> QED
        BY <4>1, <4>3 DEF Doomed
    <3> QED
      BY <2>1, <3>1, <3>2, <3>3, RaceParts
  <2> QED
    BY <1>2, <2>2, <2>3, <2>4 DEF EraseStep, KeysFails, DelFails, WriteCrashes
<1> QED
  BY <1>1, <1>2

\* Time only removes keys.
LEMMA RaceOfTick ==
  ASSUME TypeOK, StaleOnlyByRace, Tick
  PROVE  StaleOnlyByRace'
<1>1. UNCHANGED << version, lost, failing, wpc, found >>
  BY DEF Tick, writerVars
<1>2. \A p \in Page :
        Cached(p)' => Cached(p) /\ cache'[p] = cache[p] /\ racy'[p] = racy[p]
  BY KeptByTick
<1> QED
  BY <1>1, <1>2 DEF StaleOnlyByRace, Stale

\* Only races escape, in every step.
LEMMA RaceStep ==
  TypeOK /\ AgesAreBounded /\ StaleOnlyByRace /\ [Next]_vars => StaleOnlyByRace'
<1>1. StaleOnlyByRace /\ UNCHANGED vars => StaleOnlyByRace'
  BY DEF vars, sharedVars, redisVars, writerVars, StaleOnlyByRace, Stale, Cached
<1>2. Degrade => StaleOnlyByRace'
  BY DEF Degrade, StaleOnlyByRace
<1> QED
  BY <1>1, <1>2, RaceOfLists, RaceOfWrites, RaceOfTick DEF Next

\* While Redis works, only a list that had been read before a write and was
\* stored after it escapes the write's invalidation.
THEOREM OnlyRacesEscape == Spec => []StaleOnlyByRace
<1>1. Init => StaleOnlyByRace
  BY DEF Init, StaleOnlyByRace, Stale, Cached
<1> QED
  BY <1>1, TypeInit, TypeStep, AgesInit, AgesStep, RaceStep, PTL DEF Spec

-----------------------------------------------------------------------------
(* ListWalk: the pages of a list, for any rows, times and ints.            *)
(*                                                                         *)
(* A row that shares its time with none stands in the list at its rank,    *)
(* the number of rows of an earlier time; pages are taken at offsets that  *)
(* grow by a page (NoneShownTwice), and who stays in the table only comes  *)
(* forward.  The rest is arithmetic: an offset that has overflowed goes on *)
(* like one that has not, as long as has_next finds the end of the page    *)
(* before the end of the list.                                             *)

\* Remainders of sums.
LEMMA ModStep ==
  ASSUME NEW x \in Int, NEW K \in Nat \ {0}, NEW s \in 0..K
  PROVE  /\ x % K \in 0..(K - 1)
         /\ (x + s) % K = IF (x % K) + s < K THEN (x % K) + s ELSE (x % K) + s - K
<1> DEFINE a == x \div K
           b == (x + s) \div K
           r == x % K
           t == (x + s) % K
<1>1. r \in 0..(K - 1) /\ t \in 0..(K - 1) /\ a \in Int /\ b \in Int
  OBVIOUS
<1>2. x = (K * a) + r
  OBVIOUS
<1>3. x + s = (K * b) + t
  OBVIOUS
<1> HIDE DEF a, b, r, t
<1>4. (K * b) + t = (K * a) + r + s
  BY <1>1, <1>2, <1>3
<1>5. ASSUME NEW i \in Int, NEW j \in Int, i > j
      PROVE  K * i >= (K * j) + K
  <2>1. i - j - 1 \in Nat
    BY <1>5
  <2>2. ASSUME NEW d \in Nat PROVE K * d >= 0
    OBVIOUS
  <2>3. K * (i - j - 1) >= 0
    BY <2>1, <2>2
  <2>4. K * (i - j - 1) = (K * i) - (K * j) - K
    OBVIOUS
  <2> QED
    BY <2>3, <2>4
<1>6. ~(a > b)
  BY <1>1, <1>4, <1>5
<1>7. ~(b > a + 1)
  <2> SUFFICES ASSUME b > a + 1 PROVE FALSE
    OBVIOUS
  <2>1. K * b >= (K * (a + 1)) + K
    BY <1>1, <1>5
  <2>2. K * (a + 1) = (K * a) + K
    BY <1>1
  <2>3. K * a \in Int /\ K * b \in Int
    BY <1>1
  <2> QED
    BY <1>1, <1>4, <2>1, <2>2, <2>3
<1>8. CASE b = a
  BY <1>1, <1>4, <1>8 DEF r, t
<1>9. CASE b = a + 1
  <2>1. K * b = (K * a) + K
    BY <1>1, <1>9
  <2>2. K * a \in Int
    BY <1>1
  <2>3. t = r + s - K
    BY <1>1, <1>4, <2>1, <2>2
  <2> QED
    BY <1>1, <2>3 DEF r, t
<1> QED
  BY <1>1, <1>6, <1>7, <1>8, <1>9

LEMMA ModSmall ==
  ASSUME NEW K \in Nat \ {0}, NEW x \in 0..(K-1)
  PROVE  x % K = x
OBVIOUS

\* What a wrapped sum is.
LEMMA WrapStep ==
  ASSUME NEW n \in Nat, NEW s \in 0..MaxInt
  PROVE  /\ Wrapped(n) \in (-MaxInt - 1)..MaxInt
         /\ Wrapped(n + s) = IF Wrapped(n) + s <= MaxInt THEN Wrapped(n) + s
                             ELSE Wrapped(n) + s - 2 * (MaxInt + 1)
<1> DEFINE K == 2 * (MaxInt + 1)
           x == n + MaxInt + 1
<1>1. MaxInt \in Nat
  BY WalkAssumption
<1>2. K \in Nat \ {0} /\ x \in Int /\ s \in 0..K /\ K = MaxInt + MaxInt + 2
  BY <1>1
<1>3. n + s + MaxInt + 1 = x + s
  BY <1>1
<1>4. Wrapped(n) = (x % K) - (MaxInt + 1) /\ Wrapped(n + s) = ((x + s) % K) - (MaxInt + 1)
  BY <1>3 DEF Wrapped
<1> HIDE DEF K, x
<1>5. /\ x % K \in 0..(K - 1)
      /\ (x + s) % K = IF (x % K) + s < K THEN (x % K) + s ELSE (x % K) + s - K
  BY <1>2, ModStep
<1> QED
  BY <1>1, <1>2, <1>4, <1>5 DEF K

LEMMA WrapSmall ==
  ASSUME NEW n \in 0..MaxInt
  PROVE  Wrapped(n) = n
<1>1. MaxInt \in Nat
  BY WalkAssumption
<1>2. n + MaxInt + 1 \in 0..(2 * (MaxInt + 1) - 1) /\ 2 * (MaxInt + 1) \in Nat \ {0}
  BY <1>1
<1>3. (n + MaxInt + 1) % (2 * (MaxInt + 1)) = n + MaxInt + 1
  BY <1>2, ModSmall
<1> QED
  BY <1>1, <1>3 DEF Wrapped

\* A sum of two ints that is no int comes out negative.
LEMMA WrapOver ==
  ASSUME NEW n \in 0..MaxInt, NEW s \in 0..MaxInt, n + s > MaxInt
  PROVE  Wrapped(n + s) < 0
<1>1. MaxInt \in Nat /\ n \in Nat
  BY WalkAssumption
<1>2. Wrapped(n) = n
  BY WrapSmall
<1>3. Wrapped(n + s) = IF Wrapped(n) + s <= MaxInt THEN Wrapped(n) + s
                         ELSE Wrapped(n) + s - 2 * (MaxInt + 1)
  BY <1>1, WrapStep
<1>4. s \in Nat /\ s <= MaxInt /\ n <= MaxInt
  BY <1>1
<1> QED
  BY <1>1, <1>2, <1>3, <1>4

More(n, s, t) == UNION {HasNext(o, s, t) : o \in IntValues(n)}

\* The walk goes on only if the end of this page is, as an int, before the end
\* of the list: the next offset is that int, whether this one overflowed or not.
LEMMA GoesOn ==
  ASSUME NEW n \in Nat, NEW s \in 1..MaxInt, NEW t \in 0..MaxInt, TRUE \in More(n, s, t)
  PROVE  /\ Wrapped(n + s) = Wrapped(n) + s
         /\ Wrapped(n) + s < t
<1> DEFINE w == Wrapped(n)
<1>1. MaxInt \in Nat /\ s \in 0..MaxInt /\ s \in Nat /\ t \in Nat
  BY WalkAssumption
<1>2. /\ w \in (-MaxInt - 1)..MaxInt
      /\ Wrapped(n + s) = IF w + s <= MaxInt THEN w + s ELSE w + s - 2 * (MaxInt + 1)
  BY <1>1, WrapStep
<1> HIDE DEF w
<1>3. PICK o \in IntValues(n) : \E v \in IntValues(o + s) : v >= 0 /\ v < t
  BY DEF More, HasNext
<1>4. PICK v \in IntValues(o + s) : v >= 0 /\ v < t
  BY <1>3
<1>5. CASE n <= MaxInt
  <2>1. o = n /\ w = n
    BY <1>1, <1>3, <1>5, WrapSmall DEF IntValues, w
  <2>2. n + s <= MaxInt
    <3> SUFFICES ASSUME n + s > MaxInt PROVE FALSE
      BY <1>1
    <3>1. v = n + s \/ v = Wrapped(n + s)
      BY <1>4, <2>1 DEF IntValues
    <3>2. Wrapped(n + s) < 0
      BY <1>1, <1>5, WrapOver
    <3>3. Wrapped(n + s) \in Int
      BY <1>1, <1>2
    <3> QED
      BY <1>1, <1>4, <3>1, <3>2, <3>3
  <2>3. v = n + s
    BY <1>1, <1>4, <2>1, <2>2 DEF IntValues
  <2> QED
    BY <1>1, <1>2, <1>4, <2>1, <2>2, <2>3 DEF w
<1>6. CASE n > MaxInt /\ o = n
  <2>1. v = Wrapped(n + s)
    <3>1. v = n + s \/ v = Wrapped(n + s)
      BY <1>4, <1>6 DEF IntValues
    <3> QED
      BY <1>1, <1>4, <1>6, <3>1
  <2> QED
    BY <1>1, <1>2, <1>4, <2>1 DEF w
<1>7. CASE n > MaxInt /\ o = w
  <2>1. w + s <= MaxInt
    <3> SUFFICES ASSUME w + s > MaxInt PROVE FALSE
      BY <1>1, <1>2
    <3>1. v = w + s \/ v = Wrapped(w + s)
      BY <1>4, <1>7 DEF IntValues
    <3>2. w \in 0..MaxInt
      BY <1>1, <1>2
    <3>3. Wrapped(w + s) < 0
      BY <1>1, <3>2, WrapOver
    <3>4. w + s \in Nat
      BY <1>1, <3>2
    <3>5. Wrapped(w + s) \in Int
      BY <3>4, <1>1, WrapStep, <3>2
    <3> QED
      BY <1>1, <1>4, <3>1, <3>2, <3>3, <3>5
  <2>2. v = w + s
    BY <1>1, <1>2, <1>4, <1>7, <2>1 DEF IntValues
  <2> QED
    BY <1>1, <1>2, <1>4, <2>1, <2>2 DEF w
<1> QED
  <2>1. o = n \/ o = w
    BY <1>3 DEF IntValues, w
  <2> QED
    BY <1>1, <1>3, <1>5, <1>6, <1>7, <2>1 DEF IntValues, w

\* Where the walk ends, so does the list.
LEMMA EndsThere ==
  ASSUME NEW n \in 0..MaxInt, NEW s \in 1..MaxInt, NEW t \in 0..MaxInt
  PROVE  FALSE \in More(n, s, t) => n + s >= t
<1>1. MaxInt \in Nat /\ s \in Nat /\ t \in Nat /\ n \in Nat /\ t <= MaxInt
  BY WalkAssumption
<1>2. CASE n + s <= MaxInt
  <2>1. IntValues(n) = {n} /\ IntValues(n + s) = {n + s}
    BY <1>1, <1>2 DEF IntValues
  <2>2. More(n, s, t) = {n + s >= 0 /\ n + s < t}
    BY <2>1 DEF More, HasNext
  <2>3. n + s >= 0 /\ ~(n + s < t) => n + s >= t
    BY <1>1
  <2>4. n + s >= 0
    BY <1>1
  <2> QED
    BY <2>2, <2>3, <2>4
<1>3. CASE n + s > MaxInt
  <2>1. n + s >= t
    BY <1>1, <1>3
  <2> QED
    BY <2>1
<1> QED
  BY <1>1, <1>2, <1>3

-----------------------------------------------------------------------------
(* Places in the list.                                                     *)

\* An int counts the rows: has_next and the offsets, which are computed as ints,
\* are of no use beyond.
Few == Cardinality(Row) <= MaxInt

Before(i, S) == {j \in S : Created[j] < Created[i]}

Rank(i, S) == Cardinality(Before(i, S))

LEMMA RankType ==
  ASSUME NEW S, IsFiniteSet(S), NEW i
  PROVE  Rank(i, S) \in Nat /\ Rank(i, S) <= Cardinality(S)
<1>1. Before(i, S) \in SUBSET S
  BY DEF Before
<1>2. IsFiniteSet(Before(i, S)) /\ Cardinality(Before(i, S)) <= Cardinality(S)
  BY <1>1, FS_Subset
<1> QED
  BY <1>2, FS_CardinalityType DEF Rank

\* A smaller table has a row at the same place or before it.
LEMMA RankShrinks ==
  ASSUME NEW S, IsFiniteSet(S), NEW T, NEW i, Before(i, T) \subseteq Before(i, S)
  PROVE  Rank(i, T) <= Rank(i, S)
<1>1. Before(i, S) \in SUBSET S
  BY DEF Before
<1>2. IsFiniteSet(Before(i, S))
  BY <1>1, FS_Subset
<1> QED
  BY <1>2, FS_Subset DEF Rank

\* Who has a time of its own among many has it among few.
LEMMA OwnShrinks ==
  ASSUME NEW T, NEW S \in SUBSET T
  PROVE  Own(T) \cap S \subseteq Own(S)
BY DEF Own

\* The rows in order of their time are all of them.  None stands before its rank,
\* and who has a time of its own stands there.
LEMMA Places ==
  ASSUME NEW S \in SUBSET Row, IsFiniteSet(S), NEW q \in Ordered(S)
  PROVE  /\ Cardinality(S) \in Nat
         /\ q \in [1..Cardinality(S) -> S]
         /\ \A m, n \in 1..Cardinality(S) : q[m] = q[n] => m = n
         /\ \A m, n \in 1..Cardinality(S) : m <= n => Created[q[m]] <= Created[q[n]]
         /\ \A n \in 1..Cardinality(S) : q[n] \in Own(S) => Rank(q[n], S) = n - 1
         /\ \A i \in S : \E n \in 1..Cardinality(S) : q[n] = i
<1> DEFINE c == Cardinality(S)
<1>1. c \in Nat
  BY FS_CardinalityType
<1>2. /\ q \in [1..c -> S]
      /\ \A m, n \in 1..c : m # n => q[m] # q[n]
      /\ \A m, n \in 1..c : m < n => Created[q[m]] <= Created[q[n]]
  BY DEF Ordered, SetToSeqs
<1>3. \A i \in S : Created[i] \in Nat
  BY WalkAssumption
<1>4. \A m, n \in 1..c : m < n /\ q[n] \in Own(S) => Created[q[m]] < Created[q[n]]
  BY <1>1, <1>2, <1>3 DEF Own
<1>5. IsFiniteSet(1..c) /\ Cardinality(1..c) = c
  BY <1>1, FS_Interval
<1>6. ASSUME NEW i \in S PROVE \E n \in 1..c : q[n] = i
  <2> SUFFICES ASSUME \A n \in 1..c : q[n] # i PROVE FALSE
    OBVIOUS
  <2>1. q \in [1..c -> S \ {i}]
    BY <1>2
  <2>2. IsFiniteSet(S \ {i}) /\ Cardinality(S \ {i}) = c - 1
    BY FS_RemoveElement
  <2>3. Cardinality(S \ {i}) < Cardinality(1..c)
    BY <1>1, <1>5, <2>2
  <2> DEFINE D == 1..c
             B == S \ {i}
  <2>4. /\ IsFiniteSet(D) /\ IsFiniteSet(B) /\ Cardinality(B) < Cardinality(D)
        /\ q \in [D -> B]
    BY <1>5, <2>1, <2>2, <2>3
  <2> HIDE DEF D, B
  <2>5. \E x, y \in D : x # y /\ q[x] = q[y]
    BY <2>4, FS_PigeonHole
  <2> QED
    BY <1>2, <2>5 DEF D
<1>7. ASSUME NEW n \in 1..c, q[n] \in Own(S) PROVE Rank(q[n], S) = n - 1
  <2> DEFINE f == [m \in 1..(n - 1) |-> q[m]]
  <2>1. 1..(n - 1) \subseteq 1..c /\ n \in Nat
    BY <1>1
  <2>2. \A m \in 1..(n - 1) : m \in 1..c /\ m < n
    BY <2>1
  <2>3. f \in [1..(n - 1) -> Before(q[n], S)]
    BY <1>2, <1>4, <1>7, <2>2 DEF Before
  <2>4. \A x, y \in 1..(n - 1) : f[x] = f[y] => x = y
    BY <1>2, <2>1
  <2>5. ASSUME NEW j \in Before(q[n], S) PROVE \E m \in 1..(n - 1) : f[m] = j
    <3>1. j \in S /\ Created[j] < Created[q[n]]
      BY DEF Before
    <3>2. PICK m \in 1..c : q[m] = j
      BY <1>6, <3>1
    <3>3. Created[j] \in Nat /\ Created[q[n]] \in Nat
      BY <1>2, <1>3, <3>1
    <3>4. ~(n <= m)
      BY <1>1, <1>2, <3>1, <3>2, <3>3
    <3> QED
      BY <1>1, <3>2, <3>4
  <2> HIDE DEF f
  <2>6. f \in Bijection(1..(n - 1), Before(q[n], S))
    BY <2>3, <2>4, <2>5 DEF Bijection, Injection, Surjection, IsInjective
  <2>7. ExistsBijection(1..(n - 1), Before(q[n], S))
    BY <2>6 DEF ExistsBijection
  <2>8. IsFiniteSet(1..(n - 1)) /\ Cardinality(1..(n - 1)) = n - 1
    BY <2>1, FS_Interval
  <2> QED
    BY <2>7, <2>8, FS_Bijection DEF Rank
<1>8. ASSUME NEW m \in 1..c, NEW n \in 1..c, m <= n PROVE Created[q[m]] <= Created[q[n]]
  <2>1. m = n \/ m < n
    BY <1>1, <1>8
  <2>2. Created[q[m]] \in Nat
    BY <1>2, <1>3
  <2> QED
    BY <1>2, <2>1, <2>2
<1> QED
  BY <1>1, <1>2, <1>6, <1>7, <1>8

-----------------------------------------------------------------------------
(* What is shown of a walk.                                                *)

\* The places of the pages before this one, if no offset overflows.
Gone == (pageNumber - 1) * size

Walking == pc \in {"count", "find"}

WalkTypes ==
  /\ table \subseteq born /\ born \subseteq Row
  /\ pc \in {"idle", "count", "find", "done"}
  /\ pageNumber \in 1..MaxInt
  /\ size \in 1..MaxPageSize
  /\ total \in 0..Cardinality(Row)
  /\ shown \in Seq(born)
  /\ asked \in Nat
  /\ pc = "idle" => asked = 0 /\ shown = << >> /\ during = {} /\ pageNumber = 1
  /\ pc # "idle" => asked >= 1
  /\ first \subseteq born
  /\ during \subseteq {"create", "delete", "early"}
  /\ Len(shown) <= (IF Walking THEN asked - 1 ELSE asked) * size

OwnOnce ==
  \A m, n \in DOMAIN shown : shown[m] = shown[n] /\ shown[m] \in Own(born) => m = n

\* What was shown and is still there stands before the next offset, as an int.
NoneShownTwice ==
  "early" \notin during =>
    /\ OwnOnce
    /\ Walking => \A n \in DOMAIN shown :
         shown[n] \in table \cap Own(born) => Rank(shown[n], table) < Wrapped(Gone)

\* The rows of the beginning stand before the others, and are shown up to here.
NoneSkipped ==
  WholeWalk /\ during \subseteq {"create"} =>
    /\ Walking =>
         /\ Gone <= MaxInt
         /\ first \subseteq table
         /\ \A i \in first, j \in table \ first : Created[i] < Created[j]
         /\ \A i \in Own(first) : Rank(i, table) < Gone => i \in ToSet(shown)
    /\ pc = "find" => Cardinality(first) <= total
    /\ pc = "done" => Own(first) \subseteq ToSet(shown)

Same(i, j) == Created[i] = Created[j]

Matches(p, q, S) ==
  Len(p) = Len(q) /\ \A n \in DOMAIN q : p[n] \in S /\ Same(p[n], q[n])

\* At each place is a row of the time that belongs there.
AllInOrder ==
  WholeWalk /\ during = {} =>
    /\ Walking =>
         /\ table = first
         /\ pageNumber = 1 \/ Gone < Cardinality(first)
         /\ Len(shown) = Gone
         /\ \A q \in Ordered(first), n \in 1..Gone : shown[n] \in first /\ Same(shown[n], q[n])
    /\ pc = "find" => total = Cardinality(first)
    /\ pc = "done" =>
         /\ \E q \in Ordered(first) : Matches(shown, q, first)
         /\ asked * size < Cardinality(first) + size \/ asked = 1

WalkInv == WalkTypes /\ NoneShownTwice /\ NoneSkipped /\ AllInOrder

\* The numbers of a walk.
LEMMA Numbers ==
  ASSUME WalkTypes
  PROVE  /\ MaxInt \in Nat /\ MaxPageSize \in Nat /\ MaxPageSize <= MaxInt
         /\ pageNumber \in Nat /\ pageNumber >= 1 /\ pageNumber <= MaxInt
         /\ size \in Nat /\ size >= 1 /\ size <= MaxInt
         /\ Gone \in Nat
         /\ (pageNumber + 1 - 1) * size = Gone + size
         /\ pageNumber = 1 => Gone = 0
<1>1. /\ MaxInt \in Nat /\ MaxPageSize \in Nat /\ MaxPageSize <= MaxInt
      /\ pageNumber \in Nat /\ pageNumber >= 1 /\ pageNumber <= MaxInt
      /\ size \in Nat /\ size >= 1 /\ size <= MaxInt
  BY WalkAssumption DEF WalkTypes
<1>2. pageNumber - 1 \in Nat /\ pageNumber + 1 - 1 = (pageNumber - 1) + 1
  BY <1>1
<1>3. ASSUME NEW k \in Nat, NEW s \in Nat
      PROVE  k * s \in Nat /\ (k + 1) * s = (k * s) + s /\ 0 * s = 0
  OBVIOUS
<1>4. pageNumber = 1 => pageNumber - 1 = 0
  BY <1>1
<1> QED
  BY <1>1, <1>2, <1>3, <1>4 DEF Gone

\* Rows are finitely many, and an int counts them if they are few.
LEMMA Counted ==
  ASSUME NEW S \in SUBSET Row
  PROVE  /\ IsFiniteSet(S)
         /\ Cardinality(S) \in 0..Cardinality(Row)
         /\ Few => Cardinality(S) \in 0..MaxInt
<1>1. IsFiniteSet(S) /\ Cardinality(S) <= Cardinality(Row)
  BY FS_Subset, WalkAssumption
<1>2. Cardinality(S) \in Nat /\ Cardinality(Row) \in Nat
  BY <1>1, FS_CardinalityType, WalkAssumption
<1>3. CASE Few
  <2>1. MaxInt \in Nat /\ Cardinality(Row) <= MaxInt
    BY <1>3, WalkAssumption DEF Few
  <2> QED
    BY <1>1, <1>2, <2>1
<1>4. CASE ~Few
  BY <1>1, <1>2, <1>4
<1> QED
  BY <1>3, <1>4

\* p is the page at o of the list q of c rows of S.
IsPage(p, q, c, S, o, s) ==
  /\ p \in Seq(S)
  /\ Len(p) = IF o >= c THEN 0 ELSE IF o + s <= c THEN s ELSE c - o
  /\ \A n \in 1..Len(p) : o + n \in 1..c /\ p[n] = q[o + n]

LEMMA Pages ==
  ASSUME NEW S, NEW c \in Nat, NEW q \in [1..c -> S], NEW o \in Nat, NEW s \in Nat
  PROVE  IsPage(PageOf(q, o, s), q, c, S, o, s)
<1>1. q \in Seq(S) /\ Len(q) = c
  OBVIOUS
<1> DEFINE e == IF o + s <= c THEN o + s ELSE c
<1>2. PageOf(q, o, s) = SubSeq(q, o + 1, e) /\ e \in Nat /\ e <= c
  BY <1>1 DEF PageOf
<1>3. \A n \in (o + 1)..e : n \in 1..c /\ q[n] \in S
  BY <1>1, <1>2
<1>4. /\ SubSeq(q, o + 1, e) \in Seq(S)
      /\ Len(SubSeq(q, o + 1, e)) = IF o + 1 <= e THEN e - o ELSE 0
      /\ \A n \in 1..Len(SubSeq(q, o + 1, e)) : SubSeq(q, o + 1, e)[n] = q[o + n]
  BY <1>1, <1>2, <1>3
<1>5. (IF o + 1 <= e THEN e - o ELSE 0)
         = IF o >= c THEN 0 ELSE IF o + s <= c THEN s ELSE c - o
  OBVIOUS
<1> DEFINE p == PageOf(q, o, s)
<1>6. /\ p \in Seq(S) /\ Len(p) \in Nat
      /\ Len(p) = IF o + 1 <= e THEN e - o ELSE 0
      /\ \A n \in 1..Len(p) : p[n] = q[o + n]
  BY <1>2, <1>4
<1> HIDE DEF p, e
<1>7. \A n \in 1..Len(p) : o + n \in 1..c
  BY <1>2, <1>6
<1> QED
  BY <1>5, <1>6, <1>7 DEF p, IsPage

\* A page that is answered is cut out of the list at the offset, or at what is
\* left of it.
Turns(o, q) ==
  /\ pc = "find" /\ pc' \in {"count", "done"}
  /\ o \in Nat /\ (o = Gone \/ (Gone > MaxInt /\ o = Wrapped(Gone)))
  /\ q \in Ordered(table)
  /\ shown' = shown \o PageOf(q, o, size)
  /\ pc' = "count" =>
       pageNumber < MaxInt /\ pageNumber' = pageNumber + 1 /\ asked' = asked + 1
  /\ pc' = "done" => pageNumber' = pageNumber /\ asked' = asked
  /\ UNCHANGED << table, born, size, total, first, during >>

\* If the rows are few, the walk goes on at the end of the page, or ends with the
\* list.
InTime ==
  /\ pc' = "count" =>
       /\ Wrapped(Gone') = Wrapped(Gone) + size
       /\ Wrapped(Gone) + size < total
  /\ pc' = "done" => (Gone <= MaxInt => Gone + size >= total)

Answers(o, q) == Turns(o, q) /\ InTime

LEMMA Turned ==
  ASSUME WalkTypes, Find
  PROVE  \E o, q : Turns(o, q)
<1>0. MaxInt \in Nat /\ size \in Nat /\ Gone \in Nat /\ pageNumber \in Nat
  BY Numbers
<1>1. Offset(pageNumber, size) = IntValues(Gone)
  BY DEF Offset, Gone
<1>2. PICK o \in IntValues(Gone), q \in Ordered(table) :
        /\ pc = "find"
        /\ o >= 0
        /\ shown' = shown \o PageOf(q, o, size)
        /\ \E more \in More(Gone, size, total) :
             IF more /\ pageNumber < MaxInt
               THEN pc' = "count" /\ pageNumber' = pageNumber + 1 /\ asked' = asked + 1
               ELSE pc' = "done" /\ UNCHANGED << pageNumber, asked >>
        /\ UNCHANGED << table, born, size, total, first, during >>
  BY <1>1 DEF Find, More
<1>3. o \in Nat /\ (o = Gone \/ (Gone > MaxInt /\ o = Wrapped(Gone)))
  <2>1. 0 \in 0..MaxInt
    BY <1>0
  <2>2. Wrapped(Gone) \in (-MaxInt - 1)..MaxInt
    BY <1>0, <2>1, WrapStep
  <2>3. Wrapped(Gone) \in Int
    BY <1>0, <2>2
  <2> QED
    BY <1>0, <1>2, <2>3 DEF IntValues
<1>4. PICK more \in More(Gone, size, total) :
        IF more /\ pageNumber < MaxInt
          THEN pc' = "count" /\ pageNumber' = pageNumber + 1 /\ asked' = asked + 1
          ELSE pc' = "done" /\ UNCHANGED << pageNumber, asked >>
  BY <1>2
<1>5. more = TRUE \/ more = FALSE
  BY <1>4 DEF More, HasNext
<1>6. \/ /\ pc' = "count" /\ pageNumber < MaxInt
         /\ pageNumber' = pageNumber + 1 /\ asked' = asked + 1
      \/ pc' = "done" /\ pageNumber' = pageNumber /\ asked' = asked
  BY <1>4, <1>5
<1> QED
  BY <1>2, <1>3, <1>6 DEF Turns

LEMMA Answered ==
  ASSUME WalkTypes, Few, Find
  PROVE  \E o, q : Answers(o, q)
<1>0. /\ MaxInt \in Nat
      /\ pageNumber \in Nat /\ pageNumber >= 1 /\ pageNumber <= MaxInt
      /\ size \in Nat /\ size >= 1 /\ size <= MaxInt
      /\ Gone \in Nat
      /\ (pageNumber + 1 - 1) * size = Gone + size
  BY Numbers
<1>1. total \in 0..MaxInt /\ total \in Nat /\ total <= MaxInt
  <2>1. Cardinality(Row) \in 0..MaxInt
    BY Counted
  <2> QED
    BY <1>0, <2>1 DEF WalkTypes
<1>2. PICK o, q : Turns(o, q)
  BY Turned
<1>3. PICK more \in More(Gone, size, total) :
        IF more /\ pageNumber < MaxInt
          THEN pc' = "count" /\ pageNumber' = pageNumber + 1 /\ asked' = asked + 1
          ELSE pc' = "done" /\ UNCHANGED << pageNumber, asked >>
  BY DEF Find, More, Offset, Gone
<1>4. more = TRUE \/ more = FALSE
  BY <1>3 DEF More, HasNext
<1>5. size \in 1..MaxInt
  BY <1>0
<1>6. CASE more = TRUE /\ pageNumber < MaxInt
  <2>1. pc' = "count" /\ pageNumber' = pageNumber + 1 /\ size' = size
    BY <1>2, <1>3, <1>6 DEF Turns
  <2>2. /\ Wrapped(Gone + size) = Wrapped(Gone) + size
        /\ Wrapped(Gone) + size < total
    BY <1>0, <1>1, <1>3, <1>5, <1>6, GoesOn
  <2>3. Gone' = Gone + size
    BY <1>0, <2>1 DEF Gone
  <2>4. Wrapped(Gone') = Wrapped(Gone) + size
    BY <2>2, <2>3
  <2> QED
    BY <1>2, <2>1, <2>2, <2>4 DEF Answers, InTime
<1>7. CASE more = FALSE \/ ~(pageNumber < MaxInt)
  <2>1. pc' = "done"
    BY <1>3, <1>7
  <2>2. ASSUME Gone <= MaxInt PROVE Gone + size >= total
    <3>1. CASE more = FALSE
      <4>1. FALSE \in More(Gone, size, total)
        BY <1>3, <3>1
      <4>2. Gone \in 0..MaxInt
        BY <1>0, <2>2
      <4> QED
        BY <1>1, <1>5, <4>1, <4>2, EndsThere
    <3>2. CASE more = TRUE /\ ~(pageNumber < MaxInt)
      <4>1. ASSUME NEW k \in Nat, NEW s \in Nat, s >= 1 PROVE (k * s) + s >= k + 1
        <5>1. k * (s - 1) \in Nat
          BY <4>1
        <5>2. (k * s) + s = (k * (s - 1)) + k + s
          BY <4>1
        <5> QED
          BY <4>1, <5>1, <5>2
      <4>2. pageNumber - 1 \in Nat
        BY <1>0
      <4>3. ((pageNumber - 1) * size) + size >= (pageNumber - 1) + 1
        BY <1>0, <4>1, <4>2
      <4>4. Gone + size >= (pageNumber - 1) + 1
        BY <4>3 DEF Gone
      <4>5. pageNumber = MaxInt
        BY <1>0, <3>2
      <4> QED
        BY <1>0, <1>1, <4>4, <4>5
    <3> QED
      BY <1>4, <1>7, <3>1, <3>2
  <2> QED
    BY <1>2, <2>1, <2>2 DEF Answers, InTime
<1> QED
  BY <1>4, <1>6, <1>7

\* The types of what a page adds.
LEMMA Adds ==
  ASSUME WalkTypes, NEW o, NEW q, Turns(o, q)
  PROVE  LET p == PageOf(q, o, size)
             c == Cardinality(table)
         IN /\ c \in Nat /\ (Few => c <= MaxInt) /\ q \in [1..c -> table]
            /\ IsPage(p, q, c, table, o, size) /\ p \in Seq(born)
            /\ shown' \in Seq(born) /\ Len(shown') = Len(shown) + Len(p)
            /\ \A n \in 1..Len(shown) : shown'[n] = shown[n]
            /\ \A n \in 1..Len(p) : shown'[Len(shown) + n] = p[n]
<1> DEFINE p == PageOf(q, o, size)
           c == Cardinality(table)
<1>1. table \in SUBSET Row
  BY DEF WalkTypes
<1>2. c \in Nat /\ (Few => c <= MaxInt)
  <2>1. c \in 0..Cardinality(Row) /\ (Few => c \in 0..MaxInt) /\ MaxInt \in Nat
    BY <1>1, Counted, Numbers
  <2>2. Cardinality(Row) \in Nat
    BY FS_CardinalityType, WalkAssumption
  <2> QED
    BY <2>1, <2>2
<1>3. q \in [1..c -> table] /\ o \in Nat /\ size \in Nat /\ shown' = shown \o p
  BY Numbers DEF Turns, Ordered, SetToSeqs
<1> HIDE DEF c
<1>4. IsPage(p, q, c, table, o, size)
  BY <1>2, <1>3, Pages
<1> HIDE DEF p
<1>5. p \in Seq(born) /\ shown \in Seq(born)
  BY <1>4 DEF WalkTypes, IsPage
<1>6. /\ shown' \in Seq(born) /\ Len(shown') = Len(shown) + Len(p)
      /\ \A n \in 1..Len(shown) : shown'[n] = shown[n]
      /\ \A n \in 1..Len(p) : shown'[Len(shown) + n] = p[n]
  BY <1>3, <1>5
<1> QED
  BY <1>2, <1>3, <1>4, <1>5, <1>6 DEF p, c

LEMMA WalkTyped ==
  ASSUME WalkTypes, [WalkNext]_listVars
  PROVE  WalkTypes'
<1>0. /\ MaxInt \in Nat /\ size \in Nat /\ asked \in Nat /\ Len(shown) \in Nat
      /\ asked * size \in Nat
  <2>1. size \in Nat /\ asked \in Nat
    BY Numbers DEF WalkTypes
  <2>2. \A a, b \in Nat : a * b \in Nat
    OBVIOUS
  <2>3. asked * size \in Nat
    BY <2>1, <2>2
  <2> QED
    BY <2>1, <2>3, Numbers DEF WalkTypes
<1> DEFINE U == UNCHANGED walkVars
<1>1. ASSUME U, born \subseteq born', born' \subseteq Row, table' \subseteq born',
             during' \subseteq {"create", "delete", "early"},
             pc = "idle" => during' = during
      PROVE  WalkTypes'
  <2>1. Len(shown') <= (IF Walking' THEN asked' - 1 ELSE asked') * size'
    BY <1>1 DEF WalkTypes, walkVars, Walking
  <2>2. shown' \in Seq(born')
    <3>1. shown' = shown /\ shown \in Seq(born)
      BY <1>1 DEF WalkTypes, walkVars
    <3> QED
      BY <1>1, <3>1
  <2> QED
    BY <1>1, <2>1, <2>2 DEF WalkTypes, walkVars
<1>2. ASSUME NEW i \in Row, CreateRow(i) PROVE WalkTypes'
  BY <1>1, <1>2 DEF CreateRow, Happens, WalkTypes
<1>3. ASSUME NEW i \in Row, DeleteRow(i) PROVE WalkTypes'
  BY <1>1, <1>3 DEF DeleteRow, Happens, WalkTypes
<1>4. ASSUME NEW p \in FirstPage, NEW s \in 1..MaxPageSize, Start(p, s) PROVE WalkTypes'
  <2>1. p \in 1..MaxInt
    BY WalkAssumption
  <2>2. pc' = "count" /\ asked' = 1 /\ size' = s /\ shown' = << >>
    BY <1>4 DEF Start, WalkTypes
  <2>3. Len(shown') <= (IF Walking' THEN asked' - 1 ELSE asked') * size'
    <3>1. (1 - 1) * s = 0 /\ Len(<< >>) = 0
      BY WalkAssumption
    <3>2. Walking'
      BY <2>2 DEF Walking
    <3> QED
      BY <2>2, <3>1, <3>2
  <2> QED
    BY <1>4, <2>1, <2>2, <2>3 DEF Start, WalkTypes
<1>5. CASE Count
  <2>1. Cardinality(table) \in 0..Cardinality(Row)
    BY Counted DEF WalkTypes
  <2>2. Len(shown') <= (IF Walking' THEN asked' - 1 ELSE asked') * size'
    BY <1>5 DEF WalkTypes, Count, Walking
  <2> QED
    BY <1>5, <2>1, <2>2 DEF Count, WalkTypes
<1>6. CASE Find
  <2>1. PICK o, q : Turns(o, q)
    BY <1>6, Turned
  <2> DEFINE p == PageOf(q, o, size)
             c == Cardinality(table)
  <2>2. /\ c \in Nat /\ IsPage(p, q, c, table, o, size)
        /\ shown' \in Seq(born) /\ Len(shown') = Len(shown) + Len(p)
    BY <2>1, Adds
  <2> HIDE DEF p, c
  <2>3. Len(p) <= size /\ Len(p) \in Nat
    BY <1>0, <2>1, <2>2 DEF IsPage, Turns
  <2>4. Len(shown) <= (asked - 1) * size /\ asked >= 1
    BY <2>1 DEF WalkTypes, Walking, Turns
  <2>5. ((asked - 1) * size) + size = asked * size /\ (asked - 1) * size \in Nat
    <3>1. \A k, s \in Nat : (k * s) + s = (k + 1) * s /\ k * s \in Nat
      OBVIOUS
    <3>2. asked - 1 \in Nat /\ (asked - 1) + 1 = asked
      BY <1>0, <2>4
    <3> QED
      BY <1>0, <3>1, <3>2
  <2>6. Len(shown') <= asked * size
    BY <1>0, <2>2, <2>3, <2>4, <2>5
  <2>7. (IF Walking' THEN asked' - 1 ELSE asked') * size' = asked * size
    <3>1. (asked + 1) - 1 = asked
      BY <1>0
    <3> QED
      BY <2>1, <3>1 DEF Turns, Walking
  <2>8. pageNumber' \in 1..MaxInt /\ asked' \in Nat /\ asked' >= 1
    BY SMTT(30), <1>0, <2>1, <2>4, Numbers DEF Turns
  <2> QED
    BY <2>1, <2>2, <2>6, <2>7, <2>8 DEF WalkTypes, Turns
<1>7. CASE FindFails
  <2>1. (asked - 1) * size <= asked * size /\ (asked - 1) * size \in Nat
    <3>1. \A k, s \in Nat : k * s <= (k + 1) * s /\ k * s \in Nat
      <4>1. \A k, s \in Nat : (k + 1) * s = (k * s) + s /\ k * s \in Nat
        OBVIOUS
      <4> QED
        BY <4>1
    <3>2. asked - 1 \in Nat /\ (asked - 1) + 1 = asked
      BY <1>0, <1>7 DEF FindFails, WalkTypes
    <3> QED
      BY <1>0, <3>1, <3>2
  <2>2. Len(shown) <= (asked - 1) * size
    BY <1>7 DEF FindFails, WalkTypes, Walking
  <2>3. Len(shown) <= asked * size
    BY <1>0, <2>1, <2>2
  <2>4. Len(shown') <= (IF Walking' THEN asked' - 1 ELSE asked') * size'
    BY <1>7, <2>3 DEF FindFails, Walking
  <2> QED
    BY <1>7, <2>4 DEF FindFails, WalkTypes
<1>8. CASE UNCHANGED listVars
  BY <1>1, <1>8 DEF listVars, WalkTypes
<1> QED
  BY <1>2, <1>3, <1>4, <1>5, <1>6, <1>7, <1>8 DEF WalkNext

\* What others do to the table, if no row comes to stand before another: who
\* stays keeps its place, or comes forward where rows are deleted.
LEMMA Behind ==
  ASSUME WalkTypes, Walking, "early" \notin during',
         NEW i \in Row, CreateRow(i) \/ DeleteRow(i)
  PROVE  /\ "early" \notin during
         /\ UNCHANGED walkVars
         /\ \A j \in table' \cap born :
              j \in table /\ Rank(j, table') <= Rank(j, table)
<1>1. UNCHANGED walkVars /\ "early" \notin during
  BY DEF CreateRow, DeleteRow, Happens, Walking
<1>2. IsFiniteSet(table)
  BY Counted DEF WalkTypes
<1>3. ASSUME NEW j \in table' \cap born
      PROVE  j \in table /\ Rank(j, table') <= Rank(j, table)
  <2>1. CASE CreateRow(i)
    <3>1. j \in table /\ table' = table \cup {i}
      BY <2>1 DEF CreateRow
    <3>2. ~(Created[j] >= Created[i])
      BY <2>1, <3>1 DEF CreateRow, Happens, Walking
    <3>3. Created[j] \in Nat /\ Created[i] \in Nat
      BY <3>1, WalkAssumption DEF WalkTypes
    <3>4. Before(j, table') \subseteq Before(j, table)
      BY <3>1, <3>2, <3>3 DEF Before
    <3> QED
      BY <1>2, <3>1, <3>4, RankShrinks
  <2>2. CASE DeleteRow(i)
    <3>1. j \in table /\ table' \subseteq table
      BY <2>2 DEF DeleteRow
    <3>2. Before(j, table') \subseteq Before(j, table)
      BY <3>1 DEF Before
    <3> QED
      BY <1>2, <3>1, <3>2, RankShrinks
  <2> QED
    BY <2>1, <2>2
<1> QED
  BY <1>1, <1>3

LEMMA ShownOnce ==
  ASSUME Few, WalkTypes, NoneShownTwice, [WalkNext]_listVars
  PROVE  NoneShownTwice'
<1> SUFFICES ASSUME "early" \notin during'
             PROVE  /\ OwnOnce'
                    /\ Walking' => \A n \in DOMAIN shown' :
                         shown'[n] \in table' \cap Own(born') =>
                           Rank(shown'[n], table') < Wrapped(Gone')
  BY DEF NoneShownTwice, Own, Rank, Before, Wrapped
<1>0. /\ MaxInt \in Nat /\ Gone \in Nat
      /\ size \in Nat /\ size >= 1 /\ size <= MaxInt
      /\ IsFiniteSet(table) /\ Wrapped(Gone) \in Int
      /\ shown \in Seq(born) /\ table \subseteq Row
  <2>1. table \in SUBSET Row /\ shown \in Seq(born)
    BY DEF WalkTypes
  <2>2. IsFiniteSet(table)
    BY <2>1, Counted
  <2>3. MaxInt \in Nat /\ Gone \in Nat /\ size \in Nat /\ size >= 1 /\ size <= MaxInt
    BY Numbers
  <2>4. size \in 0..MaxInt
    BY <2>3
  <2>5. Wrapped(Gone) \in (-MaxInt - 1)..MaxInt
    BY <2>3, <2>4, WrapStep
  <2>6. Wrapped(Gone) \in Int
    BY <2>3, <2>5
  <2> QED
    BY <2>1, <2>2, <2>3, <2>6
<1>1. ASSUME UNCHANGED << pc, pageNumber, size, shown, table, born >>, "early" \notin during
      PROVE  /\ OwnOnce'
             /\ Walking' => \A n \in DOMAIN shown' :
                  shown'[n] \in table' \cap Own(born') =>
                    Rank(shown'[n], table') < Wrapped(Gone')
  BY <1>1 DEF NoneShownTwice, OwnOnce, Own, Walking, Gone
<1>2. ASSUME NEW i \in Row, CreateRow(i) \/ DeleteRow(i)
      PROVE  /\ OwnOnce'
             /\ Walking' => \A n \in DOMAIN shown' :
                  shown'[n] \in table' \cap Own(born') =>
                    Rank(shown'[n], table') < Wrapped(Gone')
  <2>1. UNCHANGED walkVars
    BY <1>2 DEF CreateRow, DeleteRow, Happens
  <2>0. Own(born') \cap born \subseteq Own(born)
    <3>1. born \in SUBSET born'
      BY <1>2 DEF CreateRow, DeleteRow
    <3> QED
      BY <3>1, OwnShrinks
  <2>4. OwnOnce => OwnOnce'
    <3>1. \A n \in DOMAIN shown : shown[n] \in born
      BY <1>0
    <3> QED
      BY <2>0, <2>1, <3>1 DEF OwnOnce, walkVars
  <2>2. CASE Walking
    <3>1. /\ "early" \notin during
          /\ \A j \in table' \cap born : j \in table /\ Rank(j, table') <= Rank(j, table)
      BY <1>2, <2>2, Behind
    <3>2. shown' = shown /\ Gone' = Gone
      BY <2>1 DEF walkVars, Gone
    <3>3. OwnOnce'
      BY <2>4, <3>1 DEF NoneShownTwice
    <3>4. ASSUME NEW n \in DOMAIN shown, shown[n] \in table', shown[n] \in Own(born')
          PROVE  Rank(shown[n], table') < Wrapped(Gone)
      <4>1. shown[n] \in born
        BY <1>0
      <4>2. shown[n] \in table /\ Rank(shown[n], table') <= Rank(shown[n], table)
        BY <3>1, <3>4, <4>1
      <4>3. Rank(shown[n], table) < Wrapped(Gone)
        BY <2>0, <2>2, <3>1, <3>4, <4>1, <4>2 DEF NoneShownTwice
      <4>4. IsFiniteSet(table')
        BY <1>0, <1>2, FS_AddElement, FS_RemoveElement DEF CreateRow, DeleteRow
      <4>5. Rank(shown[n], table') \in Nat /\ Rank(shown[n], table) \in Nat
        BY <1>0, <4>4, RankType
      <4> QED
        BY <1>0, <4>2, <4>3, <4>5
    <3> QED
      BY <3>2, <3>3, <3>4
  <2>3. CASE ~Walking
    <3>1. "early" \notin during /\ ~Walking'
      BY <1>2, <2>1, <2>3 DEF CreateRow, DeleteRow, Happens, Walking, walkVars
    <3> QED
      BY <2>4, <3>1 DEF NoneShownTwice
  <2> QED
    BY <2>2, <2>3
<1>3. ASSUME NEW p \in FirstPage, NEW s \in 1..MaxPageSize, Start(p, s)
      PROVE  /\ OwnOnce'
             /\ Walking' => \A n \in DOMAIN shown' :
                  shown'[n] \in table' \cap Own(born') =>
                    Rank(shown'[n], table') < Wrapped(Gone')
  <2>1. shown' = << >>
    BY <1>3 DEF Start, WalkTypes
  <2>2. DOMAIN shown' = {}
    BY <2>1
  <2> QED
    BY <2>2 DEF OwnOnce
<1>4. CASE Count
  <2>1. "early" \notin during
    BY <1>4 DEF Count
  <2>2. Walking /\ UNCHANGED << pageNumber, size, shown, table, born >>
    BY <1>4 DEF Count, Walking
  <2> QED
    BY <2>1, <2>2 DEF NoneShownTwice, OwnOnce, Own, Gone
<1>5. CASE Find
  <2>1. PICK o, q : Answers(o, q)
    BY <1>5, Answered
  <2> DEFINE p == PageOf(q, o, size)
             c == Cardinality(table)
             w == Wrapped(Gone)
  <2>2. /\ c \in Nat /\ c <= MaxInt /\ q \in [1..c -> table]
        /\ p \in Seq(table)
        /\ Len(p) = IF o >= c THEN 0 ELSE IF o + size <= c THEN size ELSE c - o
        /\ \A n \in 1..Len(p) : o + n \in 1..c /\ p[n] = q[o + n]
        /\ shown' \in Seq(born) /\ Len(shown') = Len(shown) + Len(p)
        /\ \A n \in 1..Len(shown) : shown'[n] = shown[n]
        /\ \A n \in 1..Len(p) : shown'[Len(shown) + n] = p[n]
    BY <2>1, Adds DEF IsPage, Answers
  <2>3. /\ \A m, n \in 1..c : q[m] = q[n] => m = n
        /\ \A n \in 1..c : q[n] \in Own(born) => Rank(q[n], table) = n - 1
    <3>1. /\ \A m, n \in 1..c : q[m] = q[n] => m = n
          /\ \A n \in 1..c : q[n] \in Own(table) => Rank(q[n], table) = n - 1
      BY <1>0, <2>1, Places DEF Answers, Turns
    <3>2. Own(born) \cap table \subseteq Own(table)
      BY OwnShrinks DEF WalkTypes
    <3> QED
      BY <2>2, <3>1, <3>2
  <2>4. /\ Walking /\ "early" \notin during /\ o \in Nat
        /\ UNCHANGED << table, size, born >>
    BY <2>1 DEF Answers, Turns, Walking
  <2>5. /\ OwnOnce
        /\ \A n \in 1..Len(shown) :
             shown[n] \in table \cap Own(born) => Rank(shown[n], table) < w
    BY <1>0, <2>4 DEF NoneShownTwice
  <2> HIDE DEF p, c, w
  <2>6. Len(p) \in Nat /\ Len(shown) \in Nat /\ w \in Int
    BY <1>0, <2>2 DEF w
  <2>7. Len(p) > 0 => o = w
    <3> SUFFICES ASSUME Len(p) > 0, o # w PROVE FALSE
      OBVIOUS
    <3>1. o < c
      BY <2>2, <2>4, <2>6
    <3>2. CASE Gone <= MaxInt
      <4>1. Gone \in 0..MaxInt /\ ~(Gone > MaxInt)
        BY <1>0, <3>2
      <4> QED
        BY <2>1, <4>1, WrapSmall DEF Answers, Turns, w
    <3>3. CASE Gone > MaxInt
      <4>1. o = Gone
        BY <2>1 DEF Answers, Turns, w
      <4> QED
        BY <1>0, <2>2, <3>1, <3>3, <4>1
    <3> QED
      BY <1>0, <3>2, <3>3
  <2>8. ASSUME NEW n \in 1..Len(p), p[n] \in Own(born)
        PROVE  /\ p[n] \in table /\ o = w
               /\ Rank(p[n], table) = w + n - 1
               /\ Rank(p[n], table) >= w /\ Rank(p[n], table) < w + size
    <3>1. n \in Nat /\ n >= 1 /\ n <= Len(p) /\ Len(p) <= size
      BY <1>0, <2>2, <2>4, <2>6
    <3>2. o = w
      BY <2>6, <2>7, <3>1
    <3>3. p[n] \in table /\ p[n] = q[o + n] /\ o + n \in 1..c
      BY <2>2
    <3>4. Rank(p[n], table) = o + n - 1
      <4>1. \A k \in 1..c : q[k] \in Own(born) => Rank(q[k], table) = k - 1
        BY <2>3
      <4>2. Rank(q[o + n], table) = (o + n) - 1
        BY <2>8, <3>3, <4>1
      <4>3. p[n] = q[o + n]
        BY <3>3
      <4>4. Rank(p[n], table) = Rank(q[o + n], table)
        BY ONLY <4>3
      <4> QED
        BY <2>4, <3>1, <4>2, <4>4
    <3> QED
      BY <1>0, <2>4, <2>6, <3>1, <3>2, <3>3, <3>4
  <2>9. DOMAIN shown' = 1..(Len(shown) + Len(p)) /\ DOMAIN shown = 1..Len(shown)
    BY <1>0, <2>2
  <2>10. ASSUME NEW n \in DOMAIN shown', n \notin 1..Len(shown)
         PROVE  \E k \in 1..Len(p) : n = Len(shown) + k /\ shown'[n] = p[k]
    <3>1. n - Len(shown) \in 1..Len(p) /\ n = Len(shown) + (n - Len(shown))
      BY <2>6, <2>9, <2>10
    <3> QED
      BY <2>2, <3>1
  <2>11. OwnOnce'
    <3> SUFFICES ASSUME NEW a \in DOMAIN shown', NEW b \in DOMAIN shown',
                        shown'[a] = shown'[b], shown'[a] \in Own(born)
                 PROVE  a = b
      BY <2>4 DEF OwnOnce, Own
    <3>1. CASE a \in 1..Len(shown) /\ b \in 1..Len(shown)
      BY <2>2, <2>5, <2>9, <3>1 DEF OwnOnce
    <3>2. ASSUME NEW x \in 1..Len(shown), NEW y \in DOMAIN shown', y \notin 1..Len(shown),
                 shown'[x] = shown'[y], shown'[x] \in Own(born)
          PROVE  FALSE
      <4>1. PICK k \in 1..Len(p) : shown'[y] = p[k]
        BY <2>10, <3>2
      <4>2. shown[x] = p[k] /\ p[k] \in Own(born)
        BY <2>2, <3>2, <4>1
      <4>3. Rank(p[k], table) \in Nat
        BY <1>0, RankType
      <4> QED
        BY <2>5, <2>6, <2>8, <4>2, <4>3
    <3>3. CASE a \notin 1..Len(shown) /\ b \notin 1..Len(shown)
      <4>1. PICK k \in 1..Len(p) : a = Len(shown) + k /\ shown'[a] = p[k]
        BY <2>10, <3>3
      <4>2. PICK l \in 1..Len(p) : b = Len(shown) + l /\ shown'[b] = p[l]
        BY <2>10, <3>3
      <4>3. q[o + k] = q[o + l] /\ o + k \in 1..c /\ o + l \in 1..c
        BY <2>2, <4>1, <4>2
      <4>4. o + k = o + l
        BY <2>3, <4>3
      <4>5. k \in Nat /\ l \in Nat
        BY <2>6
      <4> QED
        BY <2>4, <4>1, <4>2, <4>4, <4>5
    <3> QED
      BY <3>1, <3>2, <3>3
  <2>12. ASSUME Walking', NEW n \in DOMAIN shown', shown'[n] \in table, shown'[n] \in Own(born)
         PROVE  Rank(shown'[n], table) < Wrapped(Gone')
    <3>1. Wrapped(Gone') = w + size
      BY <2>1, <2>12 DEF Answers, Turns, InTime, Walking, w
    <3>2. CASE n \in 1..Len(shown)
      <4>1. shown'[n] = shown[n] /\ Rank(shown[n], table) < w
        BY <2>2, <2>5, <2>12, <3>2
      <4>2. Rank(shown[n], table) \in Nat
        BY <1>0, RankType
      <4> QED
        BY <1>0, <2>6, <3>1, <4>1, <4>2
    <3>3. CASE n \notin 1..Len(shown)
      <4>1. PICK k \in 1..Len(p) : shown'[n] = p[k]
        BY <2>10, <3>3
      <4> QED
        BY <2>8, <2>12, <3>1, <4>1
    <3> QED
      BY <3>2, <3>3
  <2> QED
    BY <2>4, <2>11, <2>12
<1>6. CASE FindFails
  BY <1>6 DEF FindFails, NoneShownTwice, OwnOnce, Own, Walking
<1>7. CASE UNCHANGED listVars
  BY <1>1, <1>7 DEF listVars, walkVars
<1> QED
  BY <1>2, <1>3, <1>4, <1>5, <1>6, <1>7 DEF WalkNext

\* A walk from the first page, whose offsets are ints so far.
LEMMA OffsetIsInt ==
  ASSUME WalkTypes, Walking, Gone <= MaxInt
  PROVE  /\ Wrapped(Gone) = Gone
         /\ \A o, q : Answers(o, q) => o = Gone
         /\ ~FindFails
<1>1. Gone \in 0..MaxInt /\ ~(Gone > MaxInt) /\ Gone >= 0
  BY Numbers
<1>2. Offset(pageNumber, size) = {Gone}
  BY <1>1 DEF Offset, IntValues, Gone
<1>3. ~(Gone < 0)
  BY <1>1
<1> QED
  BY <1>1, <1>2, <1>3, WrapSmall DEF Answers, Turns, FindFails

LEMMA ShownAll ==
  ASSUME Few, WalkTypes, NoneSkipped, [WalkNext]_listVars
  PROVE  NoneSkipped'
<1> SUFFICES ASSUME WholeWalk', during' \subseteq {"create"}
             PROVE  /\ Walking' =>
                         /\ Gone' <= MaxInt
                         /\ first' \subseteq table'
                         /\ \A i \in first', j \in table' \ first' : Created[i] < Created[j]
                         /\ \A i \in Own(first') : Rank(i, table') < Gone' => i \in ToSet(shown')
                    /\ pc' = "find" => Cardinality(first') <= total'
                    /\ pc' = "done" => Own(first') \subseteq ToSet(shown')
  BY DEF NoneSkipped, Rank, Before, ToSet, Own
<1>0. /\ MaxInt \in Nat /\ Gone \in Nat
      /\ size \in Nat /\ size >= 1 /\ size <= MaxInt
      /\ table \in SUBSET Row
      /\ IsFiniteSet(table)
      /\ shown \in Seq(born)
  BY Numbers, Counted DEF WalkTypes
<1>1. CASE UNCHANGED << pc, pageNumber, size, asked, total, shown, table, first, during >>
  BY <1>1 DEF NoneSkipped, Own, WholeWalk, Walking, Gone
<1>2. ASSUME NEW i \in Row, CreateRow(i) \/ DeleteRow(i), Walking
      PROVE  /\ Gone' <= MaxInt
             /\ first' \subseteq table'
             /\ \A k \in first', j \in table' \ first' : Created[k] < Created[j]
             /\ \A k \in Own(first') : Rank(k, table') < Gone' => k \in ToSet(shown')
             /\ pc' = "find" => Cardinality(first') <= total'
             /\ pc' = "done" => Own(first') \subseteq ToSet(shown')
  <2>1. CreateRow(i) /\ \A j \in table : ~(Created[j] >= Created[i])
    BY <1>2 DEF CreateRow, DeleteRow, Happens, Walking
  <2>2. UNCHANGED walkVars /\ during \subseteq {"create"} /\ table' = table \cup {i}
    BY <1>2, <2>1 DEF CreateRow, Happens, Walking
  <2>3. UNCHANGED << Gone, Walking, WholeWalk >>
    BY <2>2 DEF Gone, Walking, WholeWalk, walkVars
  <2>4. /\ Gone <= MaxInt /\ first \subseteq table
        /\ \A k \in first, j \in table \ first : Created[k] < Created[j]
        /\ \A k \in Own(first) : Rank(k, table) < Gone => k \in ToSet(shown)
        /\ pc = "find" => Cardinality(first) <= total
    BY <1>2, <2>2, <2>3 DEF NoneSkipped
  <2>5. ASSUME NEW k \in first, NEW j \in table' \ first PROVE Created[k] < Created[j]
    <3>1. CASE j = i
      <4>1. Created[k] \in Nat /\ Created[i] \in Nat /\ ~(Created[k] >= Created[i])
        BY <1>0, <2>1, <2>4, WalkAssumption
      <4> QED
        BY <3>1, <4>1
    <3> QED
      BY <2>2, <2>4, <3>1
  <2>6. ASSUME NEW k \in Own(first), Rank(k, table') < Gone PROVE k \in ToSet(shown)
    <3>1. IsFiniteSet(table')
      BY <1>0, <2>2, FS_AddElement
    <3>2. Before(k, table) \subseteq Before(k, table')
      BY <2>2 DEF Before
    <3>3. Rank(k, table) <= Rank(k, table')
      BY <3>1, <3>2, RankShrinks
    <3>4. Rank(k, table) \in Nat /\ Rank(k, table') \in Nat
      BY <1>0, <3>1, RankType
    <3>5. Rank(k, table) < Gone
      BY <1>0, <2>6, <3>3, <3>4
    <3> QED
      BY <2>4, <3>5
  <2> QED
    BY <1>2, <2>2, <2>3, <2>4, <2>5, <2>6 DEF walkVars, ToSet, Own, Walking
<1>3. ASSUME NEW i \in Row, CreateRow(i) \/ DeleteRow(i), ~Walking
      PROVE  /\ ~Walking'
             /\ pc' = "find" => Cardinality(first') <= total'
             /\ pc' = "done" => Own(first') \subseteq ToSet(shown')
  BY <1>3 DEF CreateRow, DeleteRow, Happens, Walking, walkVars, NoneSkipped, WholeWalk,
              ToSet, Own
<1>4. ASSUME NEW p \in FirstPage, NEW s \in 1..MaxPageSize, Start(p, s)
      PROVE  /\ Gone' <= MaxInt
             /\ first' = table'
             /\ \A i \in Own(first') : Rank(i, table') < Gone' => i \in ToSet(shown')
             /\ pc' = "count"
  <2>1. pageNumber' = 1 /\ size' = s /\ table' = table /\ first' = table /\ pc' = "count"
    BY <1>4 DEF Start, WholeWalk
  <2>2. (1 - 1) * s = 0
    BY WalkAssumption
  <2>3. Gone' = 0
    BY <2>1, <2>2 DEF Gone
  <2>4. \A i \in Own(table) : Rank(i, table) \in Nat
    BY <1>0, RankType
  <2>5. \A i \in Own(table) : ~(Rank(i, table) < 0)
    BY <2>4
  <2> QED
    BY <1>0, <2>1, <2>3, <2>5
<1>5. CASE Count
  <2>1. /\ Walking /\ pc' = "find" /\ total' = Cardinality(table)
        /\ UNCHANGED << pageNumber, size, table, first, shown, Gone, WholeWalk, during >>
    BY <1>5 DEF Count, Walking, Gone, WholeWalk
  <2>2. /\ Gone <= MaxInt /\ first \subseteq table
        /\ \A k \in first, j \in table \ first : Created[k] < Created[j]
        /\ \A k \in Own(first) : Rank(k, table) < Gone => k \in ToSet(shown)
    BY <2>1 DEF NoneSkipped
  <2>3. Cardinality(first) <= Cardinality(table)
    BY <1>0, <2>2, FS_Subset
  <2> QED
    BY <2>1, <2>2, <2>3
<1>6. CASE Find
  <2>1. PICK o, q : Answers(o, q)
    BY <1>6, Answered
  <2> DEFINE p == PageOf(q, o, size)
             c == Cardinality(table)
  <2>2. /\ c \in Nat /\ c <= MaxInt /\ q \in [1..c -> table]
        /\ Len(p) = IF o >= c THEN 0 ELSE IF o + size <= c THEN size ELSE c - o
        /\ \A n \in 1..Len(p) : o + n \in 1..c /\ p[n] = q[o + n]
        /\ shown' \in Seq(born) /\ Len(shown') = Len(shown) + Len(p)
        /\ \A n \in 1..Len(shown) : shown'[n] = shown[n]
        /\ \A n \in 1..Len(p) : shown'[Len(shown) + n] = p[n]
        /\ p \in Seq(table)
    BY <2>1, Adds DEF IsPage, Answers
  <2>3. /\ \A n \in 1..c : q[n] \in Own(table) => Rank(q[n], table) = n - 1
        /\ \A i \in table : \E n \in 1..c : q[n] = i
    BY <1>0, <2>1, Places DEF Answers, Turns
  <2>4. /\ Walking /\ pc = "find"
        /\ UNCHANGED << table, size, first, total, during >>
        /\ pc' \in {"count", "done"}
    BY <2>1 DEF Answers, Turns, Walking
  <2>5. WholeWalk
    <3>1. asked \in Nat /\ pageNumber \in Nat
      BY Numbers DEF WalkTypes
    <3>2. \/ pageNumber' = pageNumber /\ asked' = asked
          \/ pageNumber' = pageNumber + 1 /\ asked' = asked + 1
      BY <2>1 DEF Answers, Turns
    <3> QED
      BY <3>1, <3>2 DEF WholeWalk
  <2>6. /\ Gone <= MaxInt /\ first \subseteq table
        /\ \A k \in first, j \in table \ first : Created[k] < Created[j]
        /\ \A k \in Own(first) : Rank(k, table) < Gone => k \in ToSet(shown)
        /\ Cardinality(first) <= total
    BY <2>4, <2>5 DEF NoneSkipped
  <2>7. o = Gone /\ Wrapped(Gone) = Gone
    BY <2>1, <2>4, <2>6, OffsetIsInt
  <2> HIDE DEF p, c
  <2>8. Len(p) \in Nat /\ Len(shown) \in Nat
    BY <1>0, <2>2
  <2>9. DOMAIN shown' = 1..(Len(shown) + Len(p)) /\ DOMAIN shown = 1..Len(shown)
    BY <1>0, <2>2
  <2>10. ToSet(shown) \subseteq ToSet(shown')
    <3>1. \A n \in 1..Len(shown) : n \in 1..(Len(shown) + Len(p))
      BY <2>8
    <3> QED
      BY <2>2, <2>9, <3>1 DEF ToSet
  <2>14. ASSUME NEW i \in Own(first) PROVE i \in first /\ i \in Own(table)
    <3>1. i \in first
      BY DEF Own
    <3>2. \A j \in table : Created[j] \in Nat
      BY <1>0, WalkAssumption
    <3> QED
      BY <2>6, <3>1, <3>2 DEF Own
  <2>11. ASSUME NEW i \in Own(first), Rank(i, table) < Gone + size
         PROVE  i \in ToSet(shown')
    <3>1. Rank(i, table) \in Nat
      BY <1>0, RankType
    <3>2. CASE Rank(i, table) < Gone
      BY <2>6, <2>10, <3>2
    <3>3. CASE Rank(i, table) >= Gone
      <4>1. PICK n \in 1..c : q[n] = i
        BY <2>3, <2>6, <2>14
      <4>2. Rank(i, table) = n - 1
        BY <2>3, <2>14, <4>1
      <4>3. n \in Nat /\ n - Gone \in Nat /\ n - Gone >= 1 /\ n - Gone <= size /\ n <= c
        BY <1>0, <2>2, <2>11, <3>1, <3>3, <4>1, <4>2
      <4>4. n - Gone \in 1..Len(p)
        BY <1>0, <2>2, <2>7, <2>8, <4>3
      <4>5. p[n - Gone] = q[o + (n - Gone)] /\ shown'[Len(shown) + (n - Gone)] = p[n - Gone]
        BY <2>2, <4>4
      <4>6. o + (n - Gone) = n
        BY <1>0, <2>7, <4>3
      <4>7. Len(shown) + (n - Gone) \in DOMAIN shown'
        BY <2>8, <2>9, <4>3, <4>4
      <4>8. shown'[Len(shown) + (n - Gone)] = i
        BY <4>1, <4>5, <4>6
      <4> QED
        BY <4>7, <4>8 DEF ToSet
    <3> QED
      BY <1>0, <3>1, <3>2, <3>3
  <2>12. CASE pc' = "count"
    <3>1. Gone' = Gone + size
      BY <2>1, <2>12, Numbers DEF Answers, Turns, Gone
    <3>2. Gone + size < total
      BY <2>1, <2>7, <2>12 DEF Answers, InTime
    <3>3. total \in Nat /\ total <= MaxInt
      <4>1. Cardinality(Row) \in 0..MaxInt
        BY Counted
      <4> QED
        BY <1>0, <4>1 DEF WalkTypes
    <3>4. Gone' <= MaxInt
      BY <1>0, <3>1, <3>2, <3>3
    <3> QED
      BY <2>4, <2>6, <2>11, <2>12, <3>1, <3>4 DEF Own
  <2>13. CASE pc' = "done"
    <3>1. Gone + size >= total
      BY <2>1, <2>6, <2>13 DEF Answers, InTime
    <3>2. ASSUME NEW i \in Own(first) PROVE i \in ToSet(shown')
      <4>0. i \in first
        BY <2>14
      <4>1. Before(i, table) \subseteq first \ {i}
        <5>1. \A j \in table : Created[j] \in Nat
          BY <1>0, WalkAssumption
        <5>2. ASSUME NEW j \in table, Created[j] < Created[i] PROVE j \in first /\ j # i
          BY <2>6, <4>0, <5>1, <5>2
        <5> QED
          BY <5>2 DEF Before
      <4>2. IsFiniteSet(first)
        BY <1>0, <2>6, FS_Subset
      <4>3. /\ IsFiniteSet(first \ {i})
            /\ Cardinality(first \ {i}) = Cardinality(first) - 1
        BY <4>0, <4>2, FS_RemoveElement
      <4>4. Rank(i, table) <= Cardinality(first \ {i})
        BY <4>1, <4>3, FS_Subset DEF Rank
      <4>5. Rank(i, table) \in Nat /\ Cardinality(first) \in Nat /\ total \in Nat
        <5>1. Rank(i, table) \in Nat /\ Cardinality(first) \in Nat
          BY <1>0, <4>2, RankType, FS_CardinalityType
        <5>2. Cardinality(Row) \in 0..MaxInt
          BY Counted
        <5> QED
          BY <1>0, <5>1, <5>2 DEF WalkTypes
      <4>6. Rank(i, table) < Gone + size
        BY <1>0, <2>6, <3>1, <4>3, <4>4, <4>5
      <4> QED
        BY <2>11, <4>6
    <3> QED
      BY <2>4, <2>13, <3>2 DEF Walking, Own
  <2> QED
    BY <2>4, <2>12, <2>13 DEF Walking
<1>7. CASE FindFails
  <2>1. Walking /\ pc' = "done" /\ UNCHANGED << WholeWalk, during >>
    BY <1>7 DEF FindFails, WholeWalk, Walking
  <2>2. Gone <= MaxInt
    BY <2>1 DEF NoneSkipped
  <2> QED
    BY <1>7, <2>1, <2>2, OffsetIsInt
<1>8. CASE UNCHANGED listVars
  BY <1>1, <1>8 DEF listVars, walkVars
<1> QED
  <2>1. CASE Count \/ Find \/ FindFails \/ UNCHANGED listVars
    BY <2>1, <1>5, <1>6, <1>7, <1>8
  <2>2. CASE \E i \in Row : CreateRow(i) \/ DeleteRow(i)
    <3>1. PICK i \in Row : CreateRow(i) \/ DeleteRow(i)
      BY <2>2
    <3>2. CASE Walking
      BY <1>2, <3>1, <3>2
    <3>3. CASE ~Walking
      BY <1>3, <3>1, <3>3
    <3> QED
      BY <3>2, <3>3
  <2>3. CASE \E p \in FirstPage, s \in 1..MaxPageSize : Start(p, s)
    BY <1>4, <2>3
  <2> QED
    BY <2>1, <2>2, <2>3 DEF WalkNext

\* Whatever order the rows are in, the same times stand at the same places.
LEMMA OneOrder ==
  ASSUME NEW S \in SUBSET Row, IsFiniteSet(S), NEW q \in Ordered(S), NEW r \in Ordered(S)
  PROVE  \A n \in 1..Cardinality(S) : Same(q[n], r[n])
<1> DEFINE c == Cardinality(S)
<1>1. /\ c \in Nat
      /\ q \in [1..c -> S] /\ r \in [1..c -> S]
      /\ \A m, n \in 1..c : m <= n => Created[q[m]] <= Created[q[n]]
      /\ \A m, n \in 1..c : m <= n => Created[r[m]] <= Created[r[n]]
      /\ \A m, n \in 1..c : q[m] = q[n] => m = n
      /\ \A m, n \in 1..c : r[m] = r[n] => m = n
      /\ \A i \in S : \E n \in 1..c : q[n] = i
      /\ \A i \in S : \E n \in 1..c : r[n] = i
  BY Places
<1>2. \A i \in S : Created[i] \in Nat
  BY WalkAssumption
<1> HIDE DEF c
<1>3. ASSUME NEW u \in [1..c -> S], NEW v \in [1..c -> S],
             \A m, n \in 1..c : m <= n => Created[u[m]] <= Created[u[n]],
             \A m, n \in 1..c : m <= n => Created[v[m]] <= Created[v[n]],
             \A m, n \in 1..c : u[m] = u[n] => m = n,
             \A i \in S : \E n \in 1..c : v[n] = i,
             NEW n \in 1..c
      PROVE  ~(Created[u[n]] < Created[v[n]])
  <2> SUFFICES ASSUME Created[u[n]] < Created[v[n]] PROVE FALSE
    OBVIOUS
  <2> DEFINE at(m) == CHOOSE k \in 1..c : v[k] = u[m]
             D == 1..n
             B == 1..(n - 1)
             f == [m \in D |-> at(m)]
  <2>1. n \in Nat /\ n >= 1 /\ n <= c
    BY <1>1
  <2>2. ASSUME NEW m \in D
        PROVE  m \in 1..c /\ at(m) \in B /\ v[at(m)] = u[m]
    <3>1. m \in 1..c /\ m <= n
      BY <1>1, <2>1
    <3>2. u[m] \in S
      BY <1>3, <3>1
    <3>3. at(m) \in 1..c /\ v[at(m)] = u[m]
      BY <1>3, <3>2
    <3> HIDE DEF at
    <3>4. Created[u[m]] <= Created[u[n]]
      BY <1>3, <3>1
    <3>5. /\ Created[u[m]] \in Nat /\ Created[u[n]] \in Nat /\ Created[v[n]] \in Nat
          /\ Created[v[at(m)]] \in Nat
      BY <1>2, <1>3, <3>1, <3>3
    <3>6. ~(n <= at(m))
      <4> SUFFICES ASSUME n <= at(m) PROVE FALSE
        OBVIOUS
      <4>1. Created[v[n]] <= Created[v[at(m)]]
        BY <1>3, <3>3
      <4> QED
        BY <3>3, <3>4, <3>5, <4>1
    <3> QED
      BY <1>1, <2>1, <3>1, <3>3, <3>6
  <2> HIDE DEF at
  <2>3. f \in [D -> B]
    BY <2>2
  <2>4. IsFiniteSet(D) /\ Cardinality(D) = n /\ IsFiniteSet(B) /\ Cardinality(B) = n - 1
    BY <2>1, FS_Interval
  <2>5. Cardinality(B) < Cardinality(D)
    BY <2>1, <2>4
  <2>6. \A x \in D : f[x] = at(x)
    OBVIOUS
  <2> HIDE DEF f, B, D
  <2>7. \E x, y \in D : x # y /\ f[x] = f[y]
    BY <2>3, <2>4, <2>5, FS_PigeonHole
  <2>8. PICK x \in D, y \in D : x # y /\ f[x] = f[y]
    BY <2>7
  <2>9. at(x) = at(y) /\ v[at(x)] = u[x] /\ v[at(y)] = u[y] /\ x \in 1..c /\ y \in 1..c
    BY <2>2, <2>6, <2>8
  <2>10. u[x] = u[y]
    BY <2>9
  <2> QED
    BY <1>3, <2>8, <2>9, <2>10
<1>4. ASSUME NEW n \in 1..c PROVE Created[q[n]] = Created[r[n]]
  <2>1. ~(Created[q[n]] < Created[r[n]])
    BY <1>1, <1>3
  <2>2. ~(Created[r[n]] < Created[q[n]])
    BY <1>1, <1>3
  <2>3. Created[q[n]] \in Nat /\ Created[r[n]] \in Nat
    BY <1>1, <1>2
  <2> QED
    BY <2>1, <2>2, <2>3
<1> QED
  BY <1>4 DEF c, Same

LEMMA ShownInOrder ==
  ASSUME Few, WalkTypes, NoneSkipped, AllInOrder, [WalkNext]_listVars
  PROVE  AllInOrder'
<1> SUFFICES ASSUME WholeWalk', during' = {}
             PROVE  /\ Walking' =>
                         /\ table' = first'
                         /\ pageNumber' = 1 \/ Gone' < Cardinality(first')
                         /\ Len(shown') = Gone'
                         /\ \A q \in Ordered(first'), n \in 1..Gone' :
                              shown'[n] \in first' /\ Same(shown'[n], q[n])
                    /\ pc' = "find" => total' = Cardinality(first')
                    /\ pc' = "done" =>
                         /\ \E q \in Ordered(first') : Matches(shown', q, first')
                         /\ asked' * size' < Cardinality(first') + size' \/ asked' = 1
  BY DEF AllInOrder, Ordered, SetToSeqs, Matches, Same
<1>0. /\ MaxInt \in Nat /\ Gone \in Nat
      /\ size \in Nat /\ size >= 1 /\ size <= MaxInt
      /\ table \in SUBSET Row
      /\ IsFiniteSet(table)
      /\ shown \in Seq(born)
  BY Numbers, Counted DEF WalkTypes
<1>1. CASE UNCHANGED << pc, pageNumber, size, asked, total, shown, table, first, during >>
  BY <1>1 DEF AllInOrder, Matches, WholeWalk, Walking, Gone
<1>2. ASSUME NEW i \in Row, CreateRow(i) \/ DeleteRow(i)
      PROVE  /\ ~Walking'
             /\ pc' = "find" => total' = Cardinality(first')
             /\ pc' = "done" =>
                  /\ \E q \in Ordered(first') : Matches(shown', q, first')
                  /\ asked' * size' < Cardinality(first') + size' \/ asked' = 1
  <2>1. ~Walking
    BY <1>2 DEF CreateRow, DeleteRow, Happens, Walking
  <2>2. UNCHANGED walkVars /\ during = {}
    BY <1>2, <2>1 DEF CreateRow, DeleteRow, Happens, Walking
  <2> QED
    BY <2>1, <2>2 DEF Walking, walkVars, AllInOrder, Matches, WholeWalk
<1>3. ASSUME NEW p \in FirstPage, NEW s \in 1..MaxPageSize, Start(p, s)
      PROVE  /\ table' = first'
             /\ pageNumber' = 1
             /\ Len(shown') = Gone'
             /\ \A q \in Ordered(first'), n \in 1..Gone' :
                  shown'[n] \in first' /\ Same(shown'[n], q[n])
             /\ pc' = "count"
  <2>1. /\ pageNumber' = 1 /\ size' = s /\ table' = table /\ first' = table
        /\ pc' = "count" /\ shown' = << >>
    BY <1>3 DEF Start, WholeWalk, WalkTypes
  <2>2. (1 - 1) * s = 0
    BY WalkAssumption
  <2>3. Gone' = 0
    BY <2>1, <2>2 DEF Gone
  <2>4. 1..Gone' = {}
    BY <2>3
  <2> QED
    BY <2>1, <2>3, <2>4
<1>4. CASE Count
  <2>1. /\ Walking /\ pc' = "find" /\ total' = Cardinality(table)
        /\ UNCHANGED << pageNumber, size, table, first, shown, Gone, WholeWalk, during >>
    BY <1>4 DEF Count, Walking, Gone, WholeWalk
  <2> QED
    BY <2>1 DEF AllInOrder
<1>5. CASE Find
  <2>1. PICK o, q : Answers(o, q)
    BY <1>5, Answered
  <2> DEFINE p == PageOf(q, o, size)
             c == Cardinality(table)
  <2>2. /\ c \in Nat /\ c <= MaxInt /\ q \in [1..c -> table]
        /\ Len(p) = IF o >= c THEN 0 ELSE IF o + size <= c THEN size ELSE c - o
        /\ \A n \in 1..Len(p) : o + n \in 1..c /\ p[n] = q[o + n]
        /\ shown' \in Seq(born) /\ Len(shown') = Len(shown) + Len(p)
        /\ \A n \in 1..Len(shown) : shown'[n] = shown[n]
        /\ \A n \in 1..Len(p) : shown'[Len(shown) + n] = p[n]
        /\ p \in Seq(table)
    BY <2>1, Adds DEF IsPage, Answers
  <2>3. /\ Walking /\ pc = "find" /\ during = {}
        /\ UNCHANGED << table, size, first, total >>
        /\ pc' \in {"count", "done"}
        /\ q \in Ordered(table)
    BY <2>1 DEF Answers, Turns, Walking
  <2>4. asked \in Nat /\ pageNumber \in Nat
    BY Numbers DEF WalkTypes
  <2>5. WholeWalk
    <3>1. \/ pageNumber' = pageNumber /\ asked' = asked
          \/ pageNumber' = pageNumber + 1 /\ asked' = asked + 1
      BY <2>1 DEF Answers, Turns
    <3> QED
      BY <2>4, <3>1 DEF WholeWalk
  <2>6. /\ table = first /\ total = c
        /\ pageNumber = 1 \/ Gone < c
        /\ Len(shown) = Gone
        /\ \A n \in 1..Gone : shown[n] \in first /\ Same(shown[n], q[n])
    BY <2>3, <2>5 DEF AllInOrder
  <2>7. o = Gone /\ Wrapped(Gone) = Gone
    <3>1. Gone <= MaxInt
      BY <2>3, <2>5 DEF NoneSkipped
    <3> QED
      BY <2>1, <2>3, <3>1, OffsetIsInt
  <2>8. Gone <= c
    BY <1>0, <2>2, <2>6, Numbers
  <2> HIDE DEF p, c
  <2>9. Len(p) \in Nat
    BY <2>2
  <2>10. ASSUME NEW n \in 1..(Gone + Len(p)) PROVE shown'[n] \in first /\ Same(shown'[n], q[n])
    <3>1. CASE n <= Gone
      <4>1. n \in 1..Gone
        BY <1>0, <2>9, <3>1
      <4> QED
        BY <2>2, <2>6, <4>1
    <3>2. CASE n > Gone
      <4>1. n - Gone \in 1..Len(p) /\ Gone + (n - Gone) = n
        BY <1>0, <2>9, <3>2
      <4>2. shown'[Len(shown) + (n - Gone)] = p[n - Gone] /\ p[n - Gone] = q[o + (n - Gone)]
        BY <2>2, <4>1
      <4>3. shown'[n] = q[n] /\ n \in 1..c
        BY <2>2, <2>6, <2>7, <4>1, <4>2
      <4> QED
        BY <2>2, <2>6, <4>3 DEF Same
    <3> QED
      BY <1>0, <3>1, <3>2
  <2>11. CASE pc' = "count"
    <3>1. Gone' = Gone + size
      BY <2>1, <2>11, Numbers DEF Answers, Turns, Gone
    <3>2. Gone + size < c
      BY <2>1, <2>6, <2>7, <2>11 DEF Answers, InTime
    <3>3. Len(p) = size
      BY <1>0, <2>2, <2>7, <3>2
    <3>4. Len(shown') = Gone'
      BY <2>2, <2>6, <3>1, <3>3
    <3>5. ASSUME NEW r \in Ordered(first), NEW n \in 1..Gone'
          PROVE  shown'[n] \in first /\ Same(shown'[n], r[n])
      <4>1. n \in 1..(Gone + Len(p)) /\ n \in 1..c
        BY <1>0, <2>2, <3>1, <3>2, <3>3
      <4>2. Same(q[n], r[n])
        BY <1>0, <2>3, <2>6, <4>1, OneOrder DEF c
      <4> QED
        BY <2>10, <4>1, <4>2 DEF Same
    <3> QED
      BY <2>3, <2>6, <2>11, <3>1, <3>2, <3>4, <3>5 DEF c
  <2>12. CASE pc' = "done"
    <3>1. Gone + size >= c /\ pageNumber' = pageNumber /\ asked' = asked
      BY <1>0, <2>1, <2>2, <2>6, <2>8, <2>12 DEF Answers, Turns, InTime
    <3>2. Gone + Len(p) = c
      <4>1. /\ c \in Nat
            /\ Len(p) = IF Gone >= c THEN 0 ELSE IF Gone + size <= c THEN size ELSE c - Gone
        BY <2>2, <2>7
      <4>2. CASE Gone >= c
        BY <1>0, <2>8, <4>1, <4>2
      <4>3. CASE Gone < c
        BY <1>0, <3>1, <4>1, <4>3
      <4> QED
        BY <1>0, <4>1, <4>2, <4>3
    <3>3. Matches(shown', q, first)
      <4>1. Len(shown') = c /\ Len(q) = c /\ DOMAIN q = 1..c
        BY <2>2, <2>6, <3>2
      <4> QED
        BY <2>10, <3>2, <4>1 DEF Matches
    <3>4. asked * size < Cardinality(first) + size \/ asked = 1
      <4>1. CASE pageNumber = 1
        BY <2>5, <4>1 DEF WholeWalk
      <4>2. CASE Gone < c
        <5>1. (pageNumber + 1) - 1 = pageNumber
          BY <2>4
        <5>2. pageNumber * size = Gone + size
          BY <5>1, Numbers
        <5> QED
          BY <1>0, <2>2, <2>5, <2>6, <4>2, <5>2 DEF WholeWalk, c
      <4> QED
        BY <2>6, <4>1, <4>2
    <3>5. \E r \in Ordered(first) : Matches(shown', r, first)
      BY <2>3, <2>6, <3>3
    <3> QED
      BY <2>3, <2>12, <3>1, <3>4, <3>5 DEF Walking, Ordered, Matches
  <2> QED
    BY <2>3, <2>11, <2>12
<1>6. CASE FindFails
  <2>1. Walking /\ UNCHANGED << WholeWalk, during >>
    BY <1>6 DEF FindFails, WholeWalk, Walking
  <2>2. Gone <= MaxInt
    BY <2>1 DEF NoneSkipped
  <2> QED
    BY <1>6, <2>1, <2>2, OffsetIsInt
<1>7. CASE UNCHANGED listVars
  BY <1>1, <1>7 DEF listVars, walkVars
<1> QED
  <2>1. CASE Count \/ Find \/ FindFails \/ UNCHANGED listVars
    BY <2>1, <1>4, <1>5, <1>6, <1>7
  <2>2. CASE \E i \in Row : CreateRow(i) \/ DeleteRow(i)
    <3>1. PICK i \in Row : CreateRow(i) \/ DeleteRow(i)
      BY <2>2
    <3> QED
      BY <1>2, <3>1
  <2>3. CASE \E p \in FirstPage, s \in 1..MaxPageSize : Start(p, s)
    <3>1. PICK p \in FirstPage, s \in 1..MaxPageSize : Start(p, s)
      BY <2>3
    <3> QED
      BY <1>3, <3>1
  <2> QED
    BY <2>1, <2>2, <2>3 DEF WalkNext

LEMMA WalkTypesInit == WalkInit => WalkTypes
<1> SUFFICES ASSUME WalkInit PROVE WalkTypes
  OBVIOUS
<1> USE DEF WalkInit
<1>1. MaxInt \in Nat /\ 1 \in 1..MaxPageSize /\ 1 \in 1..MaxInt
  BY WalkAssumption
<1>2. 0 \in 0..Cardinality(Row)
  BY FS_CardinalityType, WalkAssumption
<1> QED
  BY <1>1, <1>2 DEF WalkTypes, Walking

LEMMA WalkHolds == Few /\ WalkSpec => []WalkInv
<1> SUFFICES ASSUME Few PROVE WalkSpec => []WalkInv
  OBVIOUS
<1>1. WalkInit => WalkInv
  <2> SUFFICES ASSUME WalkInit PROVE WalkInv
    OBVIOUS
  <2> USE DEF WalkInit
  <2>1. NoneShownTwice
    BY DEF NoneShownTwice, OwnOnce, Walking
  <2> QED
    BY <2>1, WalkTypesInit DEF WalkInv, NoneSkipped, AllInOrder, WholeWalk, Walking
<1>2. WalkInv /\ [WalkNext]_listVars => WalkInv'
  BY WalkTyped, ShownOnce, ShownAll, ShownInOrder DEF WalkInv
<1> QED
  BY <1>1, <1>2, PTL DEF WalkSpec

\* page, pageSize, total and what is shown keep their types, and no walk shows
\* more rows than it has asked for.
THEOREM WalkTypeCorrect == WalkSpec => []WalkTypeOK
<1>1. WalkTypes => WalkTypeOK
  <2> SUFFICES ASSUME WalkTypes PROVE WalkTypeOK
    OBVIOUS
  <2>1. WalkTypes /\ pageNumber \in Nat \ {0}
    BY Numbers
  <2>2. ToSet(shown) \subseteq Row
    BY <2>1 DEF WalkTypes, ToSet
  <2>3. Len(shown) <= asked * size
    <3>1. \A a, s \in Nat :
            a >= 1 => (a - 1) * s <= a * s /\ (a - 1) * s \in Nat /\ a * s \in Nat
      <4>1. \A k, s \in Nat : (k + 1) * s = (k * s) + s /\ k * s \in Nat
        OBVIOUS
      <4> SUFFICES ASSUME NEW a \in Nat, NEW s \in Nat, a >= 1
                   PROVE  (a - 1) * s <= a * s /\ (a - 1) * s \in Nat /\ a * s \in Nat
        OBVIOUS
      <4>2. a - 1 \in Nat /\ (a - 1) + 1 = a
        OBVIOUS
      <4>3. a * s = ((a - 1) * s) + s /\ (a - 1) * s \in Nat
        BY <4>1, <4>2
      <4> QED
        BY <4>3
    <3>2. asked \in Nat /\ size \in Nat /\ Len(shown) \in Nat
      BY <2>1, Numbers DEF WalkTypes
    <3>3. CASE Walking
      <4>1. asked >= 1 /\ Len(shown) <= (asked - 1) * size
        BY <2>1, <3>3 DEF WalkTypes, Walking
      <4> QED
        BY <3>1, <3>2, <4>1
    <3>4. CASE ~Walking
      BY <2>1, <3>4 DEF WalkTypes
    <3> QED
      BY <3>3, <3>4
  <2> QED
    BY <2>1, <2>2, <2>3 DEF WalkTypeOK, WalkTypes
<1> QED
  BY <1>1, WalkTypesInit, WalkTyped, PTL DEF WalkSpec

\* If an int counts the rows: the walk of a table that nobody writes to shows at
\* each place a row of the time that belongs there, and asks for no page in vain.
THEOREM QuietWalks == Few /\ WalkSpec => []QuietWalkIsExact
<1>1. WalkInv => QuietWalkIsExact
  BY DEF WalkInv, AllInOrder, Matches, Same, QuietWalkIsExact
<1> QED
  BY <1>1, WalkHolds, PTL

\* Rows that are created behind the others hide none of those that were there at
\* a time of their own.
THEOREM NothingSkipped == Few /\ WalkSpec => []SkipsNeedWrites
<1>1. WalkInv => SkipsNeedWrites
  BY DEF WalkInv, NoneSkipped, SkipsNeedWrites
<1> QED
  BY <1>1, WalkHolds, PTL

\* A row that shares its time with none is shown twice only if another came to
\* stand before one that was there, whether an offset overflows or not.
THEOREM NothingRepeated == Few /\ WalkSpec => []RepeatsNeedEarlyRows
<1>1. WalkInv => RepeatsNeedEarlyRows
  BY DEF WalkInv, NoneShownTwice, OwnOnce, RepeatsNeedEarlyRows
<1> QED
  BY <1>1, WalkHolds, PTL
=============================================================================
