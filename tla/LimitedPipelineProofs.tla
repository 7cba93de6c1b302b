---------------------- MODULE LimitedPipelineProofs ----------------------
(***************************************************************************)
(* Proofs about RateLimiter, for any number of threads and keys, any limit *)
(* and window, and any bound on how late a thread may be; and about the    *)
(* pipeline behind it, HttpPipeline, for any number of requests: the       *)
(* limiter, the advices and /metrics tell the same of every request.       *)
(***************************************************************************)
EXTENDS LimitedPipeline, FiniteSetTheorems, WellFoundedInduction, TLAPS

\* A nonempty set of naturals has a least element.
LEMMA LeastNatural ==
  ASSUME NEW S \in SUBSET Nat, S # {}
  PROVE  \E m \in S : \A k \in S : m <= k
<1>1. PICK m \in S : \A k \in S : ~ (<< k, m >> \in OpToRel(<, Nat))
  BY NatLessThanWellFounded, WFMin
<1>2. \A k \in S : ~ (k < m)
  BY <1>1 DEF OpToRel
<1> QED
  BY <1>2

\* What is fresh is the end of the deque: the eviction pops from the front.
LEMMA EvictIsSuffix ==
  ASSUME NEW q \in Seq(Nat), NEW n \in Nat
  PROVE  \E d \in 0..Len(q) :
           /\ Evict(q, n) \in Seq(Nat)
           /\ Len(Evict(q, n)) = Len(q) - d
           /\ \A i \in 1..(Len(q) - d) : Evict(q, n)[i] = q[d + i]
           /\ \A j \in 1..d : n - q[j] >= Window
           /\ d < Len(q) => n - q[d + 1] < Window
<1> DEFINE F == FreshIndices(q, n)
<1>1. F \subseteq 1..Len(q)
  BY DEF FreshIndices
<1>2. \A i \in F, j \in 1..Len(q) : i <= j => j \in F
  BY DEF FreshIndices
<1>3. \A j \in 1..Len(q) : j \notin F => n - q[j] >= Window
  BY LimiterAssumption DEF FreshIndices
<1>9. \A i \in F : \E j \in 1..i : j \in F /\ n - q[j] < Window
  BY DEF FreshIndices
<1> HIDE DEF F
<1>4. PICK d \in 0..Len(q) : F = (d + 1)..Len(q)
  <2>1. CASE F = {}
    BY <2>1
  <2>2. CASE F # {}
    <3>1. PICK m \in F : \A i \in F : m <= i
      <4>1. F \in SUBSET Nat
        BY <1>1
      <4> QED
        BY <2>2, <4>1, LeastNatural
    <3>2. m \in 1..Len(q)
      BY <1>1, <3>1
    <3>3. \A i \in m..Len(q) : i \in F
      BY <1>2, <3>1, <3>2
    <3>4. \A i \in F : i \in m..Len(q)
      BY <1>1, <3>1, <3>2
    <3>5. F = m..Len(q)
      BY <3>3, <3>4
    <3>6. m - 1 \in 0..Len(q) /\ (m - 1) + 1 = m
      BY <3>2
    <3> QED
      BY <3>5, <3>6
  <2> QED
    BY <2>1, <2>2
<1>5. Cardinality(F) = Len(q) - d
  <2>1. d + 1 \in Int /\ Len(q) \in Int /\ d <= Len(q)
    OBVIOUS
  <2>2. Cardinality((d + 1)..Len(q)) =
          IF d + 1 > Len(q) THEN 0 ELSE Len(q) - (d + 1) + 1
    BY <2>1, FS_Interval
  <2> QED
    BY <1>4, <2>1, <2>2
<1>6. Evict(q, n) = SubSeq(q, d + 1, Len(q))
  BY <1>5 DEF Evict, F
<1>7. /\ Evict(q, n) \in Seq(Nat)
      /\ Len(Evict(q, n)) = Len(q) - d
      /\ \A i \in 1..(Len(q) - d) : Evict(q, n)[i] = q[d + i]
  BY <1>6
<1>8. \A j \in 1..d : n - q[j] >= Window
  BY <1>3, <1>4
<1>10. d < Len(q) => n - q[d + 1] < Window
  <2> SUFFICES ASSUME d < Len(q) PROVE n - q[d + 1] < Window
    OBVIOUS
  <2>1. d + 1 \in F
    BY <1>4
  <2>2. PICK j \in 1..(d + 1) : j \in F /\ n - q[j] < Window
    BY <1>9, <2>1
  <2>3. j = d + 1
    BY <1>4, <2>2
  <2> QED
    BY <2>2, <2>3
<1> QED
  BY <1>7, <1>8, <1>10

\* So the front of what is kept is inside the window.
LEMMA FrontIsFresh ==
  ASSUME NEW q \in Seq(Nat), NEW n \in Nat, Len(Evict(q, n)) > 0
  PROVE  n - Evict(q, n)[1] < Window
<1>1. PICK d \in 0..Len(q) :
        /\ Len(Evict(q, n)) = Len(q) - d
        /\ \A i \in 1..(Len(q) - d) : Evict(q, n)[i] = q[d + i]
        /\ d < Len(q) => n - q[d + 1] < Window
  BY EvictIsSuffix
<1>2. d < Len(q) /\ 1 \in 1..(Len(q) - d)
  BY <1>1
<1> QED
  BY <1>1, <1>2

-----------------------------------------------------------------------------
(* What Recent says is kept by evicting, appending and waiting.            *)

\* Every admission of a log has a natural stamp and time.
LEMMA AdmissionType ==
  ASSUME NEW L \in Seq(Admission), NEW j \in 1..Len(L)
  PROVE  L[j].at \in Nat /\ L[j].stamp \in Nat
<1>1. L[j] \in Admission
  <2>1. \A S : \A s \in Seq(S) : \A i \in 1..Len(s) : s[i] \in S
    OBVIOUS
  <2> QED
    BY <2>1
<1> QED
  BY <1>1 DEF Admission

\* Evicting what left the window keeps the deque the recent part of the log.
LEMMA RecentEvict ==
  ASSUME NEW q \in Seq(Nat), NEW L \in Seq(Admission), NEW n \in Nat,
         NEW s \in Nat, s <= n, Recent(q, L, n)
  PROVE  /\ Evict(q, s) \in Seq(Nat)
         /\ Len(Evict(q, s)) <= Len(q)
         /\ Recent(Evict(q, s), L, n)
<1> DEFINE e == Evict(q, s)
<1>1. PICK d \in 0..Len(q) :
        /\ e \in Seq(Nat)
        /\ Len(e) = Len(q) - d
        /\ \A i \in 1..(Len(q) - d) : e[i] = q[d + i]
        /\ \A j \in 1..d : s - q[j] >= Window
  BY EvictIsSuffix
<1> HIDE DEF e
<1>2. /\ Len(q) \in Nat /\ Len(L) \in Nat /\ d \in Nat /\ d <= Len(q)
      /\ Window \in Nat /\ MaxDelay \in Nat
  BY LimiterAssumption
<1>3. Len(q) <= Len(L)
  BY DEF Recent
<1>4. ASSUME NEW i \in 1..Len(e)
      PROVE  e[i] = L[Len(L) - Len(e) + i].stamp
  <2>1. i \in 1..(Len(q) - d) /\ d + i \in 1..Len(q)
    BY <1>1, <1>2
  <2>2. Len(L) - Len(q) + (d + i) = Len(L) - Len(e) + i
    BY <1>1, <1>2, <2>1
  <2>3. q[d + i] = L[Len(L) - Len(q) + (d + i)].stamp
    BY <2>1 DEF Recent
  <2> QED
    BY <1>1, <2>1, <2>2, <2>3
<1>5. ASSUME NEW j \in 1..(Len(L) - Len(e))
      PROVE  L[j].at <= n - (Window - MaxDelay)
  <2>1. j \in 1..Len(L)
    BY <1>1, <1>2, <1>3
  <2>2. L[j].at \in Nat /\ L[j].stamp \in Nat
    BY <2>1, AdmissionType
  <2>3. CASE j <= Len(L) - Len(q)
    BY <1>2, <1>3, <2>1, <2>3 DEF Recent
  <2>4. CASE j > Len(L) - Len(q)
    <3> DEFINE i == j - (Len(L) - Len(q))
    <3>1. i \in 1..d /\ i \in 1..Len(q) /\ Len(L) - Len(q) + i = j
      BY <1>1, <1>2, <1>3, <2>1, <2>4
    <3>2. q[i] = L[j].stamp
      <4>1. q[i] = L[Len(L) - Len(q) + i].stamp
        BY <3>1 DEF Recent
      <4> QED
        BY <3>1, <4>1
    <3>3. s - L[j].stamp >= Window
      BY <1>1, <3>1, <3>2
    <3>4. L[j].at <= L[j].stamp + MaxDelay
      BY <2>1 DEF Recent
    <3> QED
      BY SMTT(30), <1>2, <2>2, <3>3, <3>4
  <2> QED
    BY <1>2, <2>1, <2>3, <2>4
<1>6. \A j \in 1..Len(L) : L[j].at <= L[j].stamp + MaxDelay
  BY DEF Recent
<1>7. Len(e) <= Len(q) /\ Len(e) <= Len(L)
  BY <1>1, <1>2, <1>3
<1>8. Recent(e, L, n)
  BY <1>4, <1>5, <1>6, <1>7 DEF Recent
<1> QED
  BY <1>1, <1>7, <1>8 DEF e

\* Appending to a sequence.
LEMMA Appended ==
  ASSUME NEW S, NEW s \in Seq(S), NEW x \in S
  PROVE  /\ Append(s, x) \in Seq(S)
         /\ Len(Append(s, x)) = Len(s) + 1
         /\ \A i \in 1..Len(s) : Append(s, x)[i] = s[i]
         /\ Append(s, x)[Len(s) + 1] = x
OBVIOUS

\* An admission appended to deque and log keeps the deque the recent part.
LEMMA RecentAppend ==
  ASSUME NEW q \in Seq(Nat), NEW L \in Seq(Admission), NEW n \in Nat,
         NEW s \in Nat, n <= s + MaxDelay, Recent(q, L, n),
         NEW a \in Admission, a.stamp = s, a.at = n
  PROVE  Recent(Append(q, s), Append(L, a), n)
<1> DEFINE e == Append(q, s)
           M == Append(L, a)
<1>1. /\ Len(e) = Len(q) + 1
      /\ \A i \in 1..Len(q) : e[i] = q[i]
      /\ e[Len(q) + 1] = s
  BY Appended
<1>2. /\ Len(M) = Len(L) + 1
      /\ \A i \in 1..Len(L) : M[i] = L[i]
      /\ M[Len(L) + 1] = a
  BY Appended
<1> HIDE DEF e, M
<1>3. Len(q) \in Nat /\ Len(L) \in Nat /\ Len(q) <= Len(L)
  BY DEF Recent
<1>4. ASSUME NEW i \in 1..Len(e)
      PROVE  e[i] = M[Len(M) - Len(e) + i].stamp
  <2>1. CASE i = Len(q) + 1
    <3>1. Len(M) - Len(e) + i = Len(L) + 1
      BY <1>1, <1>2, <1>3, <2>1
    <3> QED
      BY <1>1, <1>2, <2>1, <3>1
  <2>2. CASE i # Len(q) + 1
    <3>1. /\ i \in 1..Len(q) /\ Len(M) - Len(e) + i \in 1..Len(L)
          /\ Len(M) - Len(e) + i = Len(L) - Len(q) + i
      BY <1>1, <1>2, <1>3, <2>2
    <3>2. q[i] = L[Len(L) - Len(q) + i].stamp
      BY <3>1 DEF Recent
    <3>3. M[Len(M) - Len(e) + i] = L[Len(L) - Len(q) + i]
      BY <1>2, <3>1
    <3> QED
      BY <1>1, <3>1, <3>2, <3>3
  <2> QED
    BY <2>1, <2>2
<1>5. ASSUME NEW j \in 1..Len(M)
      PROVE  M[j].at <= M[j].stamp + MaxDelay
  <2>1. CASE j = Len(L) + 1
    BY <1>2, <2>1
  <2>2. CASE j # Len(L) + 1
    <3>1. j \in 1..Len(L)
      BY <1>2, <1>3, <2>2
    <3>2. L[j].at <= L[j].stamp + MaxDelay
      BY <3>1 DEF Recent
    <3> QED
      BY <1>2, <3>1, <3>2
  <2> QED
    BY <2>1, <2>2
<1>6. ASSUME NEW j \in 1..(Len(M) - Len(e))
      PROVE  M[j].at <= n - (Window - MaxDelay)
  <2>1. j \in 1..(Len(L) - Len(q)) /\ j \in 1..Len(L)
    BY <1>1, <1>2, <1>3
  <2>2. L[j].at <= n - (Window - MaxDelay)
    BY <2>1 DEF Recent
  <2> QED
    BY <1>2, <2>1, <2>2
<1>7. Len(e) <= Len(M)
  BY <1>1, <1>2, <1>3
<1>8. Recent(e, M, n)
  BY <1>4, <1>5, <1>6, <1>7 DEF Recent
<1> QED
  BY <1>8 DEF e, M

\* A deque that is the recent part of the log is so a tick later.
LEMMA RecentLater ==
  ASSUME NEW q \in Seq(Nat), NEW L \in Seq(Admission), NEW n \in Nat,
         Recent(q, L, n)
  PROVE  Recent(q, L, n + 1)
<1>1. Len(q) \in Nat /\ Len(L) \in Nat /\ Window \in Nat /\ MaxDelay \in Nat
  BY LimiterAssumption
<1>2. ASSUME NEW j \in 1..(Len(L) - Len(q))
      PROVE  L[j].at <= (n + 1) - (Window - MaxDelay)
  <2>1. j \in 1..Len(L)
    BY <1>1
  <2>2. L[j].at \in Nat
    BY <2>1, AdmissionType
  <2>3. L[j].at <= n - (Window - MaxDelay)
    BY DEF Recent
  <2> QED
    BY <1>1, <2>2, <2>3
<1> QED
  BY <1>2 DEF Recent

\* At most Limit admissions are recent when the deque holds all of them.
LEMMA RecentBounds ==
  ASSUME NEW q \in Seq(Nat), NEW L \in Seq(Admission), NEW n \in Nat,
         Len(q) <= Limit, Recent(q, L, n)
  PROVE  Cardinality({i \in DOMAIN L : L[i].at > n - (Window - MaxDelay)}) <= Limit
<1> DEFINE R == {i \in DOMAIN L : L[i].at > n - (Window - MaxDelay)}
           a == Len(L) - Len(q) + 1
           b == Len(L)
<1>1. /\ Len(q) \in Nat /\ Len(L) \in Nat /\ Len(q) <= Len(L)
      /\ Window \in Nat /\ MaxDelay \in Nat /\ Limit \in Nat
  BY LimiterAssumption DEF Recent
<1>2. a \in Int /\ b \in Int /\ b - a + 1 = Len(q)
  BY <1>1
<1>3. R \in SUBSET (a..b)
  <2> SUFFICES ASSUME NEW i \in 1..Len(L), L[i].at > n - (Window - MaxDelay)
               PROVE  i \in a..b
    OBVIOUS
  <2>1. L[i].at \in Nat
    BY AdmissionType
  <2>2. ~ (i \in 1..(Len(L) - Len(q)))
    <3>1. ~ (L[i].at <= n - (Window - MaxDelay))
      BY <1>1, <2>1
    <3> QED
      BY <3>1 DEF Recent
  <2> QED
    BY <1>1, <2>2
<1> HIDE DEF a, b
<1>4. IsFiniteSet(a..b) /\ Cardinality(a..b) = IF a > b THEN 0 ELSE b - a + 1
  BY <1>2, FS_Interval
<1>5. Cardinality(R) <= Cardinality(a..b) /\ Cardinality(R) \in Nat
  BY <1>3, <1>4, FS_Subset, FS_CardinalityType
<1>6. Cardinality(a..b) <= Len(q)
  BY <1>1, <1>2, <1>4
<1> HIDE DEF R
<1>7. Cardinality(R) <= Limit
  BY <1>1, <1>2, <1>4, <1>5, <1>6
<1> QED
  BY <1>7 DEF R

\* A later admission is stamped at most MaxDelay before an earlier one.
LEMMA StampsAreClose ==
  ASSUME NEW stamp1 \in Nat, NEW at1 \in Nat, NEW stamp2 \in Nat, NEW at2 \in Nat,
         NEW s \in Nat, stamp1 <= at1, at1 <= at2, at2 <= stamp2 + MaxDelay,
         s - stamp1 < Window
  PROVE  stamp2 > s - Window - MaxDelay
BY LimiterAssumption

\* A deque that is full, and whose front is inside the window of s, stands for
\* Limit admissions inside that window, lengthened by MaxDelay: each was made
\* after the front's, so its stamp is at most MaxDelay older.
LEMMA FullIsJustified ==
  ASSUME NEW e \in Seq(Nat), NEW L \in Seq(Admission), NEW n \in Nat, NEW s \in Nat,
         Recent(e, L, n), InOrder(L, n), Len(e) >= Limit, s - e[1] < Window
  PROVE  Cardinality({i \in DOMAIN L : L[i].stamp > s - Window - MaxDelay}) >= Limit
<1> DEFINE J == {i \in DOMAIN L : L[i].stamp > s - Window - MaxDelay}
           a == Len(L) - Len(e) + 1
           b == Len(L)
<1>1. /\ Len(e) \in Nat /\ Len(L) \in Nat /\ Len(e) <= Len(L)
      /\ Window \in Nat /\ MaxDelay \in Nat /\ Limit \in Nat \ {0}
  BY LimiterAssumption DEF Recent
<1>2. a \in 1..Len(L) /\ b \in Int /\ b - a + 1 = Len(e)
  BY <1>1
<1>3. L[a].stamp = e[1]
  <2>1. 1 \in 1..Len(e) /\ Len(L) - Len(e) + 1 = a
    BY <1>1
  <2> QED
    BY <2>1 DEF Recent
<1> HIDE DEF a
<1>4. a..b \in SUBSET J
  <2> SUFFICES ASSUME NEW i \in a..b
               PROVE  i \in 1..Len(L) /\ L[i].stamp > s - Window - MaxDelay
    OBVIOUS
  <2>1. i \in 1..Len(L) /\ a \in 1..i
    BY <1>1, <1>2
  <2>2. /\ L[i].at \in Nat /\ L[i].stamp \in Nat
        /\ L[a].at \in Nat /\ L[a].stamp \in Nat
    BY <1>2, <2>1, AdmissionType
  <2>3. L[a].stamp <= L[a].at /\ L[a].at <= L[i].at
    BY <1>2, <2>1 DEF InOrder
  <2>4. L[i].at <= L[i].stamp + MaxDelay
    BY <2>1 DEF Recent
  <2>5. s - L[a].stamp < Window
    BY <1>3
  <2> QED
    BY <2>1, <2>2, <2>3, <2>4, <2>5, StampsAreClose
<1>5. IsFiniteSet(J)
  <2>1. IsFiniteSet(1..Len(L))
    BY <1>1, FS_Interval
  <2>2. J \in SUBSET (1..Len(L))
    OBVIOUS
  <2> QED
    BY <2>1, <2>2, FS_Subset
<1> HIDE DEF J, b
<1>6. Cardinality(a..b) = IF a > b THEN 0 ELSE b - a + 1
  BY <1>2, FS_Interval
<1>7. Cardinality(a..b) <= Cardinality(J) /\ Cardinality(J) \in Nat
  BY <1>4, <1>5, FS_Subset, FS_CardinalityType
<1>8. Cardinality(J) >= Limit
  BY <1>1, <1>2, <1>6, <1>7
<1> QED
  BY <1>8 DEF J

-----------------------------------------------------------------------------
(* The inductive invariant.                                                *)

Inv == TypeOK /\ DequeIsRecent /\ SampleRecent

\* The invariant holds of empty deques.
LEMMA InitInv == Init => Inv
<1> SUFFICES ASSUME Init PROVE Inv
  OBVIOUS
<1>1. /\ requests \in [Key -> Seq(Nat)] /\ log \in [Key -> Seq(Admission)]
      /\ \A k \in Key : Len(requests[k]) = 0 /\ Len(log[k]) = 0
  BY DEF Init
<1>2. TypeOK
  BY <1>1, LimiterAssumption DEF Init, TypeOK
<1>3. DequeIsRecent
  BY <1>1 DEF DequeIsRecent, Recent
<1>4. SampleRecent
  BY DEF Init, SampleRecent
<1> QED
  BY <1>2, <1>3, <1>4 DEF Inv

\* A thread in the critical section works on a natural time, not too old.
LEMMA Entering ==
  ASSUME Inv, NEW t \in Threads, pc[t] = "waiting"
  PROVE  /\ key[t] \in Key /\ requests[key[t]] \in Seq(Nat)
         /\ log[key[t]] \in Seq(Admission)
         /\ Len(requests[key[t]]) <= Limit
         /\ now \in Nat /\ sample[t] \in Nat
         /\ sample[t] <= now /\ now <= sample[t] + MaxDelay
         /\ Kept(t) \in Seq(Nat)
         /\ Len(Kept(t)) <= Len(requests[key[t]])
         /\ Recent(Kept(t), log[key[t]], now)
<1> DEFINE k == key[t]
<1>1. k \in Key
  BY DEF Inv, TypeOK
<1>2. /\ requests[k] \in Seq(Nat) /\ log[k] \in Seq(Admission)
      /\ Len(requests[k]) <= Limit
      /\ now \in Nat /\ sample[t] \in Nat /\ MaxDelay \in Nat
  BY <1>1, LimiterAssumption DEF Inv, TypeOK
<1>3. sample[t] <= now /\ now - sample[t] <= MaxDelay
  BY DEF Inv, SampleRecent
<1>4. now <= sample[t] + MaxDelay
  BY <1>2, <1>3
<1>5. Recent(requests[k], log[k], now)
  BY <1>1 DEF Inv, DequeIsRecent
<1>6. /\ Kept(t) \in Seq(Nat)
      /\ Len(Kept(t)) <= Len(requests[k])
      /\ Recent(Kept(t), log[k], now)
  BY <1>2, <1>3, <1>5, RecentEvict DEF Kept
<1> QED
  BY <1>1, <1>2, <1>3, <1>4, <1>6

\* Admitting a request keeps the invariant.
LEMMA AdmitStep ==
  ASSUME Inv, NEW t \in Threads, Admit(t)
  PROVE  Inv'
<1> DEFINE a == [stamp |-> sample[t], at |-> now]
<1>1. PICK k : k = key[t]
  OBVIOUS
<1>2. /\ k \in Key /\ requests[k] \in Seq(Nat) /\ log[k] \in Seq(Admission)
      /\ Kept(t) \in Seq(Nat) /\ Len(Kept(t)) \in Nat
      /\ Recent(Kept(t), log[k], now)
      /\ now \in Nat /\ sample[t] \in Nat /\ now <= sample[t] + MaxDelay
  BY <1>1, Entering DEF Admit
<1>3. PICK e : e = Append(Kept(t), sample[t])
  OBVIOUS
<1>4. a \in Admission /\ a.stamp = sample[t] /\ a.at = now
  BY <1>2 DEF Admission
<1> HIDE DEF a
<1>5. PICK M : M = Append(log[k], a)
  OBVIOUS
<1>6. /\ requests' = [requests EXCEPT ![k] = e]
      /\ log' = [log EXCEPT ![k] = M]
  BY <1>1, <1>3, <1>5 DEF Admit, a
<1>7. /\ pc' = [pc EXCEPT ![t] = "idle"] /\ sample' = [sample EXCEPT ![t] = 0]
      /\ UNCHANGED << now, key >>
  BY DEF Admit, Return
<1>8. e \in Seq(Nat) /\ Len(e) = Len(Kept(t)) + 1
  BY <1>2, <1>3, Appended
<1>9. M \in Seq(Admission)
  BY <1>2, <1>4, <1>5, Appended
<1>10. Recent(e, M, now)
  BY <1>2, <1>3, <1>4, <1>5, RecentAppend
<1>11. Len(e) <= Limit
  <2>1. Len(Kept(t)) < Limit
    BY <1>2, LimiterAssumption DEF Admit, Full
  <2> QED
    BY <1>2, <1>8, <2>1, LimiterAssumption
<1>12. TypeOK'
  BY <1>2, <1>6, <1>7, <1>8, <1>9, <1>11 DEF Inv, TypeOK
<1>13. DequeIsRecent'
  BY <1>2, <1>6, <1>7, <1>10 DEF Inv, TypeOK, DequeIsRecent, Recent
<1>14. SampleRecent'
  BY <1>7 DEF Inv, TypeOK, SampleRecent
<1> QED
  BY <1>12, <1>13, <1>14 DEF Inv

\* Refusing a request, which still evicts, keeps the invariant.
LEMMA RefuseStep ==
  ASSUME Inv, NEW t \in Threads, Refuse(t)
  PROVE  Inv'
<1>1. PICK k : k = key[t]
  OBVIOUS
<1>2. PICK e : e = Kept(t)
  OBVIOUS
<1>3. /\ k \in Key /\ e \in Seq(Nat) /\ Len(e) <= Limit /\ Recent(e, log[k], now)
  <2>1. /\ k \in Key /\ e \in Seq(Nat) /\ Recent(e, log[k], now)
        /\ Len(e) <= Len(requests[k]) /\ Len(requests[k]) <= Limit
        /\ requests[k] \in Seq(Nat)
    BY <1>1, <1>2, Entering DEF Refuse
  <2>2. Len(e) \in Nat /\ Len(requests[k]) \in Nat
    BY <2>1
  <2> QED
    BY <2>1, <2>2, LimiterAssumption
<1>4. /\ requests' = [requests EXCEPT ![k] = e]
      /\ pc' = [pc EXCEPT ![t] = "idle"] /\ sample' = [sample EXCEPT ![t] = 0]
      /\ UNCHANGED << now, key, log >>
  BY <1>1, <1>2 DEF Refuse, Return
<1>5. TypeOK'
  BY <1>3, <1>4 DEF Inv, TypeOK
<1>6. DequeIsRecent'
  BY <1>3, <1>4 DEF Inv, TypeOK, DequeIsRecent, Recent
<1>7. SampleRecent'
  BY <1>4 DEF Inv, TypeOK, SampleRecent
<1> QED
  BY <1>5, <1>6, <1>7 DEF Inv

\* Every step keeps the invariant.
LEMMA StepInv ==
  ASSUME Inv, [Next]_vars
  PROVE  Inv'
<1>1. ASSUME NEW t \in Threads, NEW k \in Key, Arrive(t, k) PROVE Inv'
  <2>1. /\ pc' = [pc EXCEPT ![t] = "waiting"] /\ key' = [key EXCEPT ![t] = k]
        /\ sample' = [sample EXCEPT ![t] = now] /\ now \in Nat /\ MaxDelay \in Nat
        /\ UNCHANGED << now, requests, log >>
    BY <1>1, LimiterAssumption DEF Arrive, Inv, TypeOK
  <2>2. TypeOK'
    BY <2>1 DEF Inv, TypeOK
  <2>3. DequeIsRecent'
    BY <2>1 DEF Inv, DequeIsRecent, Recent
  <2>4. SampleRecent'
    BY <2>1 DEF Inv, TypeOK, SampleRecent
  <2> QED
    BY <2>2, <2>3, <2>4 DEF Inv
<1>2. CASE Tick
  <2>1. now' = now + 1 /\ now \in Nat /\ UNCHANGED << pc, key, sample, requests, log >>
    BY <1>2 DEF Tick, Inv, TypeOK
  <2>2. TypeOK'
    BY <2>1 DEF Inv, TypeOK
  <2>3. DequeIsRecent'
    <3>1. \A k \in Key : Recent(requests[k], log[k], now + 1)
      BY <2>1, RecentLater DEF Inv, TypeOK, DequeIsRecent
    <3> QED
      BY <2>1, <3>1 DEF DequeIsRecent, Recent
  <2>4. SampleRecent'
    BY <1>2, <2>1, LimiterAssumption DEF Tick, Inv, TypeOK, SampleRecent
  <2> QED
    BY <2>2, <2>3, <2>4 DEF Inv
<1>3. CASE UNCHANGED vars
  BY <1>3 DEF vars, Inv, TypeOK, DequeIsRecent, Recent, SampleRecent
<1> QED
  BY <1>1, <1>2, <1>3, AdmitStep, RefuseStep DEF Next

\* The limiter's state is type-correct, and no deque outgrows the limit.
THEOREM TypeCorrect == Spec => []TypeOK
<1>1. Inv => TypeOK
  BY DEF Inv
<1> QED
  BY <1>1, InitInv, StepInv, PTL DEF Spec

\* Whatever the order in which threads get the mutex, a key is admitted at most
\* Limit times within a window, up to the delay of a thread.
THEOREM WindowIsBounded == Spec => []WindowBound
<1>1. Inv => WindowBound
  BY RecentBounds DEF Inv, TypeOK, DequeIsRecent, WindowBound
<1> QED
  BY <1>1, InitInv, StepInv, PTL DEF Spec

-----------------------------------------------------------------------------
(* Refusals.                                                               *)

\* The log stays in order: an admission is stamped before it is made, and made
\* no earlier than those before it.
LEMMA StepInOrder ==
  ASSUME Inv, LogInOrder, [Next]_vars
  PROVE  LogInOrder'
<1>1. ASSUME NEW t \in Threads, Admit(t) PROVE LogInOrder'
  <2> DEFINE a == [stamp |-> sample[t], at |-> now]
  <2>1. /\ key[t] \in Key /\ log[key[t]] \in Seq(Admission)
        /\ now \in Nat /\ sample[t] \in Nat /\ sample[t] <= now
    BY <1>1, Entering DEF Admit
  <2>2. a \in Admission /\ a.stamp <= a.at /\ a.at = now
    BY <2>1 DEF Admission
  <2> HIDE DEF a
  <2>3. PICK M : M = Append(log[key[t]], a)
    OBVIOUS
  <2>4. log' = [log EXCEPT ![key[t]] = M] /\ now' = now
    BY <1>1, <2>3 DEF Admit, a
  <2>5. InOrder(M, now)
    <3>1. /\ Len(M) = Len(log[key[t]]) + 1
          /\ \A i \in 1..Len(log[key[t]]) : M[i] = log[key[t]][i]
          /\ M[Len(log[key[t]]) + 1] = a
      BY <2>1, <2>2, <2>3, Appended
    <3>2. InOrder(log[key[t]], now)
      BY <2>1 DEF LogInOrder
    <3>3. Len(log[key[t]]) \in Nat
      BY <2>1
    <3>4. ASSUME NEW j \in 1..Len(M)
          PROVE  /\ M[j].stamp <= M[j].at /\ M[j].at <= now
                 /\ \A i \in 1..j : M[i].at <= M[j].at
      <4>1. CASE j = Len(log[key[t]]) + 1
        <5>1. M[j].stamp <= M[j].at /\ M[j].at = now
          BY <2>2, <3>1, <4>1
        <5>2. ASSUME NEW i \in 1..j PROVE M[i].at <= now
          <6>1. i = j \/ i \in 1..Len(log[key[t]])
            BY <3>3, <4>1
          <6> QED
            BY <2>1, <3>1, <3>2, <5>1, <6>1 DEF InOrder
        <5> QED
          BY <2>1, <5>1, <5>2
      <4>2. CASE j # Len(log[key[t]]) + 1
        <5>1. /\ j \in 1..Len(log[key[t]])
              /\ \A i \in 1..j : i \in 1..Len(log[key[t]])
          BY <3>1, <3>3, <4>2
        <5> QED
          BY <3>1, <3>2, <5>1 DEF InOrder
      <4> QED
        BY <4>1, <4>2
    <3> QED
      BY <3>4 DEF InOrder
  <2> QED
    BY <2>1, <2>4, <2>5 DEF Inv, TypeOK, LogInOrder, InOrder
<1>2. CASE Tick
  <2>1. now' = now + 1 /\ now \in Nat /\ log' = log
    BY <1>2 DEF Tick, Inv, TypeOK
  <2>2. \A k \in Key : \A j \in 1..Len(log[k]) : log[k][j].at \in Nat
    BY AdmissionType DEF Inv, TypeOK
  <2> QED
    BY <2>1, <2>2 DEF LogInOrder, InOrder
<1>3. ASSUME NEW t \in Threads, NEW k \in Key, Arrive(t, k) PROVE LogInOrder'
  BY <1>3 DEF Arrive, LogInOrder, InOrder
<1>4. ASSUME NEW t \in Threads, Refuse(t) PROVE LogInOrder'
  BY <1>4 DEF Refuse, LogInOrder, InOrder
<1>5. CASE UNCHANGED vars
  BY <1>5 DEF vars, LogInOrder, InOrder
<1> QED
  BY <1>1, <1>2, <1>3, <1>4, <1>5 DEF Next

\* Only a refusal sends a waiting thread away and leaves the log alone.
LEMMA OnlyRefusalsLeaveTheLog ==
  ASSUME Inv, [Next]_vars, NEW t \in Threads,
         pc[t] = "waiting", pc'[t] = "idle", log' = log
  PROVE  Refuse(t)
<1>1. ASSUME NEW u \in Threads, Admit(u) PROVE FALSE
  <2>1. key[u] \in Key /\ log[key[u]] \in Seq(Admission) /\ now \in Nat /\ sample[u] \in Nat
    BY <1>1, Entering DEF Admit
  <2>2. PICK a : a = [stamp |-> sample[u], at |-> now]
    OBVIOUS
  <2>3. a \in Admission
    BY <2>1, <2>2 DEF Admission
  <2>4. log'[key[u]] = Append(log[key[u]], a)
    BY <1>1, <2>1, <2>2 DEF Admit, Inv, TypeOK
  <2>5. Len(Append(log[key[u]], a)) = Len(log[key[u]]) + 1 /\ Len(log[key[u]]) \in Nat
    BY <2>1, <2>3, Appended
  <2> QED
    BY <2>4, <2>5
<1>2. ASSUME NEW u \in Threads, NEW k \in Key, Arrive(u, k) PROVE FALSE
  BY <1>2 DEF Arrive, Inv, TypeOK
<1>3. ASSUME NEW u \in Threads, Refuse(u) PROVE u = t
  BY <1>3 DEF Refuse, Return, Inv, TypeOK
<1>4. CASE Tick
  BY <1>4 DEF Tick
<1>5. CASE UNCHANGED vars
  BY <1>5 DEF vars
<1> QED
  BY <1>1, <1>2, <1>3, <1>4, <1>5 DEF Next

\* A client is refused only if it was admitted Limit times in the window before,
\* up to the delay of a thread.
THEOREM RefusalsAreJustified == Spec => RefusalJustified
<1>1. Init => LogInOrder
  BY DEF Init, LogInOrder, InOrder
<1>2. ASSUME Inv, LogInOrder, [Next]_vars, NEW t \in Threads,
             pc[t] = "waiting" /\ pc'[t] = "idle" /\ UNCHANGED log
      PROVE  Cardinality({i \in DOMAIN log[key[t]] :
                log[key[t]][i].stamp > sample[t] - Window - MaxDelay}) >= Limit
  <2>1. Refuse(t)
    BY <1>2, OnlyRefusalsLeaveTheLog
  <2>2. /\ key[t] \in Key /\ requests[key[t]] \in Seq(Nat)
        /\ log[key[t]] \in Seq(Admission)
        /\ now \in Nat /\ sample[t] \in Nat
        /\ Kept(t) \in Seq(Nat) /\ Recent(Kept(t), log[key[t]], now)
    BY <1>2, Entering
  <2>3. Len(Kept(t)) >= Limit
    BY <2>1 DEF Refuse, Full
  <2>4. sample[t] - Kept(t)[1] < Window
    <3>1. Len(Kept(t)) > 0
      BY <2>2, <2>3, LimiterAssumption
    <3> QED
      BY <2>2, <3>1, FrontIsFresh DEF Kept
  <2>5. InOrder(log[key[t]], now)
    BY <1>2, <2>2 DEF LogInOrder
  <2> QED
    BY <2>2, <2>3, <2>4, <2>5, FullIsJustified
<1>3. Inv /\ LogInOrder /\ [Next]_vars =>
        [\A t \in Threads : pc[t] = "waiting" /\ pc'[t] = "idle" /\ UNCHANGED log =>
           Cardinality({i \in DOMAIN log[key[t]] :
                          log[key[t]][i].stamp > sample[t] - Window - MaxDelay})
             >= Limit]_vars
  BY <1>2
<1> QED
  BY <1>1, <1>3, InitInv, StepInv, StepInOrder, PTL DEF Spec, RefusalJustified

-----------------------------------------------------------------------------
(* The pipeline: what each step does to its request, and to no other.      *)

\* What HttpPipeline's TypeOK says of the functions and of one request.
IsOfRequests(f) == f = [q \in Threads |-> f[q]]

Shaped ==
  /\ IsOfRequests(kind) /\ IsOfRequests(stage) /\ IsOfRequests(id) /\ IsOfRequests(logged)
  /\ IsOfRequests(header) /\ IsOfRequests(status)
  /\ IsOfRequests(shown) /\ IsOfRequests(before)

Statuses == {0, 200, 401, 404, 429, 500, 503}

Shown == [requests : Nat, responses : Nat, errors : Nat]

RequestTypeOK(r) ==
  /\ kind[r] \in P!Kinds /\ stage[r] \in P!Stages
  /\ id[r] \in {"none", "supplied", "generated"}
  /\ logged[r] \in {"none", "supplied", "generated"}
  /\ header[r] \in {"none", "supplied", "generated"}
  /\ status[r] \in Statuses
  /\ shown[r] \in Shown /\ before[r] \in SUBSET Threads

\* The answer of the limiter, and the answers of handlers.
TooMany == {429}
Answered == {200, 401, 404, 500, 503}

\* They are different, and all of them are statuses.
LEMMA StatusesAre ==
  TooMany \subseteq Statuses /\ Answered \subseteq Statuses /\ TooMany \cap Answered = {}
BY DEF Statuses, TooMany, Answered

\* The types, one request at a time.
LEMMA TypesByRequest ==
  P!TypeOK <=> /\ Shaped
               /\ \A r \in Threads : RequestTypeOK(r)
               /\ counted \in Nat /\ responses \in Nat /\ errors \in Nat
BY DEF P!TypeOK, Shaped, IsOfRequests, RequestTypeOK, Statuses, Shown

\* The types after a step, one request at a time.
LEMMA TypesByRequestAfter ==
  ASSUME Shaped', \A r \in Threads : RequestTypeOK(r)',
         counted' \in Nat, responses' \in Nat, errors' \in Nat
  PROVE  P!TypeOK'
BY DEF P!TypeOK, Shaped, IsOfRequests, RequestTypeOK, Statuses, Shown

\* A step of request r leaves the other requests alone, and the kinds of all.
Alone(r) ==
  /\ kind' = kind /\ Shaped'
  /\ \A q \in Threads \ {r} :
       /\ stage'[q] = stage[q] /\ status'[q] = status[q]
       /\ id'[q] = id[q] /\ logged'[q] = logged[q] /\ header'[q] = header[q]
       /\ shown'[q] = shown[q] /\ before'[q] = before[q]

SameIds(r) == id'[r] = id[r] /\ logged'[r] = logged[r] /\ header'[r] = header[r]

SameReadings(r) == shown'[r] = shown[r] /\ before'[r] = before[r]

SameCounters == counted' = counted /\ responses' = responses /\ errors' = errors

\* What the limiter refuses is answered, and nothing else is said of it.
LEMMA RateLimitedEffect ==
  ASSUME Shaped, NEW r \in Threads, P!RateLimited(r)
  PROVE  /\ Alone(r) /\ SameIds(r) /\ SameReadings(r) /\ SameCounters
         /\ kind[r] = "api" /\ stage[r] = "new" /\ stage'[r] = "answered"
         /\ status'[r] \in TooMany
BY ZenonT(60) DEF TooMany, Shaped, IsOfRequests, Alone, SameIds, SameReadings,
       SameCounters, P!RateLimited, P!Goes, P!Answers

\* The pre-routing advice gives a request its id and counts it.
LEMMA PreRoutingEffect ==
  ASSUME Shaped, NEW r \in Threads, P!PreRouting(r)
  PROVE  /\ Alone(r)
         /\ stage[r] = "new" /\ stage'[r] = "routed"
         /\ id'[r] = P!RequestId(r) /\ logged'[r] = P!RequestId(r)
         /\ header'[r] = header[r] /\ status'[r] = status[r] /\ shown'[r] = shown[r]
         /\ before'[r] = {s \in Threads : P!Ended(s)}
         /\ counted' = counted + 1 /\ responses' = responses /\ errors' = errors
BY DEF Shaped, IsOfRequests, Alone, P!PreRouting, P!Goes, P!Ended

\* A handler, the filter before it or the framework in its place answers.
HandlerStep(r) ==
  /\ kind[r] # "metrics" /\ stage[r] = "routed"
  /\ stage'[r] \in {"by itself", "handled"}
  /\ status'[r] \in Answered

\* Whatever a handler does, it gives an answer, and does not count.
LEMMA HandlerEffect ==
  ASSUME Shaped, NEW r \in Threads, P!Handler(r)
  PROVE  Alone(r) /\ SameIds(r) /\ SameReadings(r) /\ SameCounters /\ HandlerStep(r)
<1>1. UNCHANGED << kind, id, logged, header, counted, responses, errors, shown, before >>
  BY DEF P!Handler
<1>2. ASSUME NEW to \in {"by itself", "handled"}, NEW code \in Answered,
             kind[r] # "metrics", P!Goes(r, "routed", to), P!Answers(r, code)
      PROVE  Alone(r) /\ SameIds(r) /\ SameReadings(r) /\ SameCounters /\ HandlerStep(r)
  BY <1>1, <1>2 DEF Shaped, IsOfRequests, Alone, SameIds, SameReadings, SameCounters,
                    HandlerStep, P!Goes, P!Answers
<1>3. CASE P!Unauthorized(r)
  BY ZenonT(60), <1>2, <1>3 DEF P!Unauthorized, Answered
<1>4. CASE P!NotFound(r)
  BY ZenonT(60), <1>2, <1>4 DEF P!NotFound, Answered
<1>5. CASE P!HandlerThrows(r)
  BY ZenonT(60), <1>2, <1>5 DEF P!HandlerThrows, Answered
<1>6. CASE P!HandlerAnswers(r)
  <2>1. P!Goes(r, "routed", "handled")
    BY <1>6 DEF P!HandlerAnswers
  <2>2. CASE kind[r] # "metrics" /\ P!Answers(r, 200)
    BY ZenonT(60), <1>2, <2>1, <2>2 DEF Answered
  <2>3. CASE kind[r] = "api" /\ P!Answers(r, 500)
    BY ZenonT(60), <1>2, <2>1, <2>3 DEF Answered
  <2>4. CASE kind[r] = "probe" /\ P!Answers(r, 503)
    BY ZenonT(60), <1>2, <2>1, <2>4 DEF Answered
  <2> QED
    BY <1>6, <2>2, <2>3, <2>4 DEF P!HandlerAnswers
<1> QED
  BY <1>3, <1>4, <1>5, <1>6 DEF P!Handler

\* A scrape reads the requests first.
LEMMA LoadRequestsEffect ==
  ASSUME Shaped, NEW r \in Threads, P!LoadRequests(r)
  PROVE  /\ Alone(r) /\ SameIds(r) /\ SameCounters
         /\ kind[r] = "metrics" /\ stage[r] = "routed" /\ stage'[r] = "read requests"
         /\ status'[r] = status[r] /\ before'[r] = before[r]
         /\ shown'[r] = [shown[r] EXCEPT !.requests = counted]
BY DEF Shaped, IsOfRequests, Alone, SameIds, SameCounters, P!LoadRequests, P!Goes

\* It reads the responses next.
LEMMA LoadResponsesEffect ==
  ASSUME Shaped, NEW r \in Threads, P!LoadResponses(r)
  PROVE  /\ Alone(r) /\ SameIds(r) /\ SameCounters
         /\ stage[r] = "read requests" /\ stage'[r] = "read responses"
         /\ status'[r] = status[r] /\ before'[r] = before[r]
         /\ shown'[r] = [shown[r] EXCEPT !.responses = responses]
BY DEF Shaped, IsOfRequests, Alone, SameIds, SameCounters, P!LoadResponses, P!Goes

\* It reads the errors last, and answers.
LEMMA LoadErrorsEffect ==
  ASSUME Shaped, NEW r \in Threads, P!LoadErrors(r)
  PROVE  /\ Alone(r) /\ SameIds(r) /\ SameCounters
         /\ stage[r] = "read responses" /\ stage'[r] = "handled"
         /\ status'[r] \in Answered /\ before'[r] = before[r]
         /\ shown'[r] = [shown[r] EXCEPT !.errors = errors]
BY ZenonT(60) DEF Answered, Shaped, IsOfRequests, Alone, SameIds, SameCounters,
       P!LoadErrors, P!Goes, P!Answers

\* What the framework sends by itself is not counted.
LEMMA SentByItselfEffect ==
  ASSUME Shaped, NEW r \in Threads, P!SentByItself(r)
  PROVE  /\ Alone(r) /\ SameIds(r) /\ SameReadings(r) /\ SameCounters
         /\ stage[r] = "by itself" /\ stage'[r] = "answered" /\ status'[r] = status[r]
BY DEF Shaped, IsOfRequests, Alone, SameIds, SameReadings, SameCounters,
       P!SentByItself, P!Goes

\* The post-handling advice counts the response,
LEMMA CountResponseEffect ==
  ASSUME Shaped, NEW r \in Threads, P!CountResponse(r)
  PROVE  /\ Alone(r) /\ SameIds(r) /\ SameReadings(r)
         /\ stage[r] \in {"handled", "by itself"} /\ stage'[r] = "counted"
         /\ status'[r] = status[r]
         /\ counted' = counted /\ responses' = responses + 1 /\ errors' = errors
BY DEF Shaped, IsOfRequests, Alone, SameIds, SameReadings, P!CountResponse, P!Goes

\* and then the error, and sends the id.
LEMMA CountErrorEffect ==
  ASSUME Shaped, NEW r \in Threads, P!CountError(r)
  PROVE  /\ Alone(r) /\ SameReadings(r)
         /\ stage[r] = "counted" /\ stage'[r] = "answered" /\ status'[r] = status[r]
         /\ id'[r] = id[r] /\ logged'[r] = logged[r] /\ header'[r] = P!RequestId(r)
         /\ counted' = counted /\ responses' = responses
         /\ errors' = errors + 1 \/ errors' = errors + 0
<1>1. errors' = errors + 1 \/ errors' = errors + 0
  BY DEF P!CountError
<1>2. Alone(r) /\ SameReadings(r)
  BY DEF Shaped, IsOfRequests, Alone, SameReadings, P!CountError, P!Goes
<1>3. /\ stage[r] = "counted" /\ stage'[r] = "answered" /\ status'[r] = status[r]
      /\ id'[r] = id[r] /\ logged'[r] = logged[r] /\ header'[r] = P!RequestId(r)
      /\ counted' = counted /\ responses' = responses
  BY DEF Shaped, IsOfRequests, P!CountError, P!Goes
<1> QED
  BY <1>1, <1>2, <1>3

PipelineStep(r) ==
  \/ P!RateLimited(r) \/ P!PreRouting(r) \/ P!Handler(r)
  \/ P!LoadRequests(r) \/ P!LoadResponses(r) \/ P!LoadErrors(r)
  \/ P!SentByItself(r) \/ P!CountResponse(r) \/ P!CountError(r)

\* A step touches one request.
LEMMA StepIsAlone ==
  ASSUME Shaped, NEW r \in Threads, PipelineStep(r)
  PROVE  Alone(r)
<1>1. CASE P!RateLimited(r)
  BY <1>1, RateLimitedEffect
<1>2. CASE P!PreRouting(r)
  BY <1>2, PreRoutingEffect
<1>3. CASE P!Handler(r)
  BY <1>3, HandlerEffect
<1>4. CASE P!LoadRequests(r)
  BY <1>4, LoadRequestsEffect
<1>5. CASE P!LoadResponses(r)
  BY <1>5, LoadResponsesEffect
<1>6. CASE P!LoadErrors(r)
  BY <1>6, LoadErrorsEffect
<1>7. CASE P!SentByItself(r)
  BY <1>7, SentByItselfEffect
<1>8. CASE P!CountResponse(r)
  BY <1>8, CountResponseEffect
<1>9. CASE P!CountError(r)
  BY <1>9, CountErrorEffect
<1> QED
  BY <1>1, <1>2, <1>3, <1>4, <1>5, <1>6, <1>7, <1>8, <1>9 DEF PipelineStep

\* The id that a request gets.
LEMMA RequestIdType ==
  ASSUME NEW r \in Threads, RequestTypeOK(r)
  PROVE  /\ P!RequestId(r) \in {"supplied", "generated"}
         /\ id[r] # "none" => P!RequestId(r) = id[r]
         /\ id[r] = "none" /\ r \in Own => P!RequestId(r) = "supplied"
BY DEF RequestTypeOK, P!RequestId

\* A step keeps the types of its request,
LEMMA TypesOfOne ==
  ASSUME Shaped, NEW r \in Threads, RequestTypeOK(r),
         counted \in Nat, responses \in Nat, errors \in Nat, PipelineStep(r)
  PROVE  RequestTypeOK(r)'
<1>0. kind'[r] = kind[r]
  BY StepIsAlone DEF Alone
<1>1. CASE P!RateLimited(r)
  BY <1>0, <1>1, RateLimitedEffect, StatusesAre
     DEF SameIds, SameReadings, RequestTypeOK, P!Stages
<1>2. CASE P!PreRouting(r)
  BY <1>0, <1>2, PreRoutingEffect, RequestIdType
     DEF RequestTypeOK, P!Stages
<1>3. CASE P!Handler(r)
  BY <1>0, <1>3, HandlerEffect, StatusesAre
     DEF HandlerStep, SameIds, SameReadings, RequestTypeOK, P!Stages
<1>4. CASE P!LoadRequests(r)
  <2>1. shown'[r] \in Shown
    <3>1. shown'[r] = [shown[r] EXCEPT !.requests = counted]
      BY <1>4, LoadRequestsEffect
    <3>2. [shown[r] EXCEPT !.requests = counted] \in Shown
      BY DEF RequestTypeOK, Shown
    <3> QED
      BY <3>1, <3>2
  <2>2. /\ stage'[r] \in P!Stages /\ status'[r] = status[r]
        /\ id'[r] = id[r] /\ logged'[r] = logged[r] /\ header'[r] = header[r]
        /\ before'[r] = before[r]
    BY <1>4, LoadRequestsEffect DEF SameIds, P!Stages
  <2> QED
    BY <1>0, <2>1, <2>2 DEF RequestTypeOK
<1>5. CASE P!LoadResponses(r)
  <2>1. shown'[r] \in Shown
    <3>1. shown'[r] = [shown[r] EXCEPT !.responses = responses]
      BY <1>5, LoadResponsesEffect
    <3>2. [shown[r] EXCEPT !.responses = responses] \in Shown
      BY DEF RequestTypeOK, Shown
    <3> QED
      BY <3>1, <3>2
  <2>2. /\ stage'[r] \in P!Stages /\ status'[r] = status[r]
        /\ id'[r] = id[r] /\ logged'[r] = logged[r] /\ header'[r] = header[r]
        /\ before'[r] = before[r]
    BY <1>5, LoadResponsesEffect DEF SameIds, P!Stages
  <2> QED
    BY <1>0, <2>1, <2>2 DEF RequestTypeOK
<1>6. CASE P!LoadErrors(r)
  <2>1. shown'[r] \in Shown
    <3>1. shown'[r] = [shown[r] EXCEPT !.errors = errors]
      BY <1>6, LoadErrorsEffect
    <3>2. [shown[r] EXCEPT !.errors = errors] \in Shown
      BY DEF RequestTypeOK, Shown
    <3> QED
      BY <3>1, <3>2
  <2>2. /\ stage'[r] \in P!Stages /\ status'[r] \in Statuses
        /\ id'[r] = id[r] /\ logged'[r] = logged[r] /\ header'[r] = header[r]
        /\ before'[r] = before[r]
    BY <1>6, LoadErrorsEffect, StatusesAre DEF SameIds, P!Stages
  <2> QED
    BY <1>0, <2>1, <2>2 DEF RequestTypeOK
<1>7. CASE P!SentByItself(r)
  BY <1>0, <1>7, SentByItselfEffect DEF SameIds, SameReadings, RequestTypeOK, P!Stages
<1>8. CASE P!CountResponse(r)
  BY <1>0, <1>8, CountResponseEffect DEF SameIds, SameReadings, RequestTypeOK, P!Stages
<1>9. CASE P!CountError(r)
  <2>1. /\ stage'[r] = "answered" /\ status'[r] = status[r] /\ id'[r] = id[r]
        /\ logged'[r] = logged[r] /\ header'[r] = P!RequestId(r)
        /\ shown'[r] = shown[r] /\ before'[r] = before[r]
    BY <1>9, CountErrorEffect DEF SameReadings
  <2> QED
    BY <1>0, <2>1, RequestIdType DEF RequestTypeOK, P!Stages
<1> QED
  BY <1>1, <1>2, <1>3, <1>4, <1>5, <1>6, <1>7, <1>8, <1>9 DEF PipelineStep

\* and of the counters.
LEMMA TypesOfCounters ==
  ASSUME Shaped, NEW r \in Threads,
         counted \in Nat, responses \in Nat, errors \in Nat, PipelineStep(r)
  PROVE  counted' \in Nat /\ responses' \in Nat /\ errors' \in Nat
<1>1. ASSUME P!CountResponse(r)
      PROVE  counted' = counted /\ responses' = responses + 1 /\ errors' = errors
  BY <1>1, CountResponseEffect
<1>2. ASSUME P!PreRouting(r)
      PROVE  counted' = counted + 1 /\ responses' = responses /\ errors' = errors
  BY <1>2, PreRoutingEffect
<1>3. ASSUME P!CountError(r)
      PROVE  counted' = counted /\ responses' = responses
             /\ (errors' = errors + 1 \/ errors' = errors + 0)
  BY <1>3, CountErrorEffect
<1>4. ASSUME ~ (P!CountResponse(r) \/ P!PreRouting(r) \/ P!CountError(r))
      PROVE  SameCounters
  BY <1>4, RateLimitedEffect, HandlerEffect, LoadRequestsEffect, LoadResponsesEffect,
     LoadErrorsEffect, SentByItselfEffect DEF PipelineStep
<1> QED
  BY <1>1, <1>2, <1>3, <1>4 DEF SameCounters

\* A step of the pipeline keeps the types.
LEMMA PipelineTypes ==
  ASSUME P!TypeOK, NEW r \in Threads, PipelineStep(r)
  PROVE  P!TypeOK'
<1>1. Shaped /\ (\A q \in Threads : RequestTypeOK(q)) /\ Alone(r)
  BY TypesByRequest, StepIsAlone
<1>2. ASSUME NEW q \in Threads, q # r PROVE RequestTypeOK(q)'
  BY <1>1, <1>2 DEF Alone, RequestTypeOK
<1>3. RequestTypeOK(r)' /\ counted' \in Nat /\ responses' \in Nat /\ errors' \in Nat
  BY <1>1, TypesByRequest, TypesOfOne, TypesOfCounters
<1>4. Shaped'
  BY <1>1 DEF Alone
<1> QED
  BY <1>2, <1>3, <1>4, TypesByRequestAfter

-----------------------------------------------------------------------------
(* The pipeline: ids.                                                      *)

\* The id, the log line and the header of a request.
IdsOf(r) ==
  /\ id[r] = logged[r]
  /\ stage[r] \notin {"new", "answered"} => id[r] # "none"
  /\ id[r] # "none" /\ r \in Own => id[r] = "supplied"
  /\ stage[r] # "answered" => header[r] = "none"
  /\ header[r] # "none" => header[r] = id[r]

\* A step of the pipeline keeps the ids of its request.
LEMMA PipelineIdsOf ==
  ASSUME NEW r \in Threads, Shaped, RequestTypeOK(r), IdsOf(r), PipelineStep(r)
  PROVE  IdsOf(r)'
<1>0. /\ P!RequestId(r) # "none"
      /\ id[r] # "none" => P!RequestId(r) = id[r]
      /\ r \in Own => P!RequestId(r) = "supplied"
  BY RequestIdType DEF IdsOf
<1> USE DEF SameIds, IdsOf
<1>1. CASE P!RateLimited(r)
  BY <1>1, RateLimitedEffect, <1>0
<1>2. CASE P!PreRouting(r)
  BY <1>2, PreRoutingEffect, <1>0
<1>3. CASE P!Handler(r)
  BY <1>3, HandlerEffect, <1>0 DEF HandlerStep
<1>4. CASE P!LoadRequests(r)
  BY <1>4, LoadRequestsEffect, <1>0
<1>5. CASE P!LoadResponses(r)
  BY <1>5, LoadResponsesEffect, <1>0
<1>6. CASE P!LoadErrors(r)
  BY <1>6, LoadErrorsEffect, <1>0
<1>7. CASE P!SentByItself(r)
  BY <1>7, SentByItselfEffect, <1>0
<1>8. CASE P!CountResponse(r)
  BY <1>8, CountResponseEffect, <1>0
<1>9. CASE P!CountError(r)
  BY <1>9, CountErrorEffect, <1>0
<1> QED
  BY <1>1, <1>2, <1>3, <1>4, <1>5, <1>6, <1>7, <1>8, <1>9 DEF PipelineStep

\* A step of the pipeline keeps the ids of all requests.
LEMMA PipelineIds ==
  ASSUME P!TypeOK, P!IdsKept, NEW r \in Threads, PipelineStep(r)
  PROVE  P!IdsKept'
<1>1. \A q \in Threads : IdsOf(q)
  BY DEF P!IdsKept, IdsOf
<1>2. Shaped /\ RequestTypeOK(r) /\ Alone(r)
  BY TypesByRequest, StepIsAlone
<1>3. ASSUME NEW q \in Threads, q # r PROVE IdsOf(q)'
  BY <1>1, <1>2, <1>3 DEF IdsOf, Alone
<1>4. IdsOf(r)'
  BY <1>1, <1>2, PipelineIdsOf
<1>5. \A q \in Threads : IdsOf(q)'
  BY <1>3, <1>4
<1> QED
  BY <1>5 DEF P!IdsKept, IdsOf

-----------------------------------------------------------------------------
(* The pipeline: counters.                                                 *)

\* HttpPipeline counts and calls finite what this module does.
LEMMA SameCounts ==
  \A S : P!Cardinality(S) = Cardinality(S) /\ P!IsFiniteSet(S) = IsFiniteSet(S)
<1>1. \A S : P!Cardinality(S) = Cardinality(S)
  BY DEF P!Cardinality, Cardinality
<1>2. \A S : P!IsFiniteSet(S) = IsFiniteSet(S)
  BY DEF P!IsFiniteSet, IsFiniteSet
<1> QED
  BY <1>1, <1>2

\* Two finite sets that differ in one element at most.
LEMMA ButOne ==
  ASSUME NEW S, NEW T, NEW x, IsFiniteSet(S), S \ {x} = T \ {x}
  PROVE  /\ IsFiniteSet(T)
         /\ Cardinality(S) \in Nat /\ Cardinality(T) \in Nat
         /\ (x \in S <=> x \in T) => Cardinality(T) = Cardinality(S)
         /\ x \in S /\ x \notin T => Cardinality(S) = Cardinality(T) + 1
         /\ x \notin S /\ x \in T => Cardinality(T) = Cardinality(S) + 1
<1> DEFINE R == S \ {x}
<1>1. IsFiniteSet(R) /\ x \notin R
  BY FS_Difference
<1>2. /\ IsFiniteSet(R \cup {x})
      /\ Cardinality(R) \in Nat
      /\ Cardinality(R \cup {x}) = Cardinality(R) + 1
  BY <1>1, FS_AddElement, FS_CardinalityType
<1>3. S = IF x \in S THEN R \cup {x} ELSE R
  OBVIOUS
<1>4. T = IF x \in T THEN R \cup {x} ELSE R
  OBVIOUS
<1> HIDE DEF R
<1>5. x \in S => S = R \cup {x}
  BY <1>3
<1>6. x \notin S => S = R
  BY <1>3
<1>7. x \in T => T = R \cup {x}
  BY <1>4
<1>8. x \notin T => T = R
  BY <1>4
<1>9. PICK c \in Nat : Cardinality(R) = c /\ Cardinality(R \cup {x}) = c + 1
  BY <1>2
<1>10. IsFiniteSet(T)
  BY <1>1, <1>2, <1>7, <1>8
<1>11. (x \in S => Cardinality(S) = c + 1) /\ (x \notin S => Cardinality(S) = c)
  BY <1>5, <1>6, <1>9
<1>12. (x \in T => Cardinality(T) = c + 1) /\ (x \notin T => Cardinality(T) = c)
  BY <1>7, <1>8, <1>9
<1> QED
  BY <1>9, <1>10, <1>11, <1>12

\* HttpPipeline's Tallies in the words of this module.
TalliesHold ==
  /\ IsFiniteSet(P!UnderWay) /\ IsFiniteSet(P!Bypassed) /\ IsFiniteSet(P!Counting)
  /\ counted = responses + Cardinality(P!UnderWay) + Cardinality(P!Bypassed)
  /\ errors + Cardinality(P!Counting) <= responses

RefusedAreAnswered == \A q \in Threads : status[q] \in TooMany => stage[q] = "answered"

\* They say the same, before and after a step.
LEMMA TalliesAre ==
  /\ P!Tallies <=> TalliesHold /\ RefusedAreAnswered
  /\ P!Tallies' <=> TalliesHold' /\ RefusedAreAnswered'
BY SameCounts DEF P!Tallies, TalliesHold, RefusedAreAnswered, TooMany

\* Only what is answered has the status of a refusal.
LEMMA PipelineRefusals ==
  ASSUME P!TypeOK, RefusedAreAnswered, NEW r \in Threads, PipelineStep(r)
  PROVE  RefusedAreAnswered'
<1>0. Shaped /\ Alone(r)
  BY TypesByRequest, StepIsAlone
<1>1. CASE P!RateLimited(r)
  BY <1>0, <1>1, RateLimitedEffect DEF RefusedAreAnswered, Alone
<1>2. CASE P!PreRouting(r)
  <2>1. stage[r] = "new" /\ status'[r] = status[r]
    BY <1>0, <1>2, PreRoutingEffect
  <2> QED
    BY <1>0, <2>1 DEF RefusedAreAnswered, Alone
<1>3. CASE P!Handler(r)
  BY <1>0, <1>3, HandlerEffect, StatusesAre DEF RefusedAreAnswered, Alone, HandlerStep
<1>4. CASE P!LoadRequests(r)
  <2>1. stage[r] = "routed" /\ status'[r] = status[r]
    BY <1>0, <1>4, LoadRequestsEffect
  <2> QED
    BY <1>0, <2>1 DEF RefusedAreAnswered, Alone
<1>5. CASE P!LoadResponses(r)
  <2>1. stage[r] = "read requests" /\ status'[r] = status[r]
    BY <1>0, <1>5, LoadResponsesEffect
  <2> QED
    BY <1>0, <2>1 DEF RefusedAreAnswered, Alone
<1>6. CASE P!LoadErrors(r)
  <2>1. status'[r] \in Answered
    BY <1>0, <1>6, LoadErrorsEffect
  <2> QED
    BY <1>0, <2>1, StatusesAre DEF RefusedAreAnswered, Alone
<1>7. CASE P!SentByItself(r)
  BY <1>0, <1>7, SentByItselfEffect DEF RefusedAreAnswered, Alone
<1>8. CASE P!CountResponse(r)
  <2>1. stage[r] \in {"handled", "by itself"} /\ status'[r] = status[r]
    BY <1>0, <1>8, CountResponseEffect
  <2> QED
    BY <1>0, <2>1 DEF RefusedAreAnswered, Alone
<1>9. CASE P!CountError(r)
  <2>1. stage'[r] = "answered" /\ status'[r] = status[r]
    BY <1>0, <1>9, CountErrorEffect
  <2> QED
    BY <1>0, <2>1 DEF RefusedAreAnswered, Alone
<1> QED
  BY <1>1, <1>2, <1>3, <1>4, <1>5, <1>6, <1>7, <1>8, <1>9 DEF PipelineStep

\* Where the request of a step is counted, before and after it.
LEMMA Memberships ==
  ASSUME P!TypeOK, NEW r \in Threads
  PROVE  /\ r \in P!UnderWay <=> stage[r] \in P!Stages \ {"new", "counted", "answered"}
         /\ r \in P!Bypassed <=>
              stage[r] = "answered" /\ header[r] = "none" /\ status[r] \notin TooMany
         /\ r \in P!Counting <=> stage[r] = "counted"
         /\ r \in P!UnderWay' <=> stage'[r] \in P!Stages \ {"new", "counted", "answered"}
         /\ r \in P!Bypassed' <=>
              stage'[r] = "answered" /\ header'[r] = "none" /\ status'[r] \notin TooMany
         /\ r \in P!Counting' <=> stage'[r] = "counted"
BY DEF P!UnderWay, P!Bypassed, P!Counting, TooMany

\* A step keeps what the counters say.
LEMMA PipelineTallies ==
  ASSUME P!TypeOK, P!IdsKept, TalliesHold, RefusedAreAnswered,
         NEW r \in Threads, PipelineStep(r)
  PROVE  TalliesHold'
<1> DEFINE U == P!UnderWay
           B == P!Bypassed
           C == P!Counting
           u == Cardinality(U)
           b == Cardinality(B)
           c == Cardinality(C)
<1>1. Shaped /\ Alone(r) /\ RequestTypeOK(r) /\ IdsOf(r)
  BY TypesByRequest, StepIsAlone DEF P!IdsKept, IdsOf
<1>2. U \ {r} = U' \ {r} /\ B \ {r} = B' \ {r} /\ C \ {r} = C' \ {r}
  BY <1>1 DEF P!UnderWay, P!Bypassed, P!Counting, Alone
<1>3. /\ r \in U <=> stage[r] \in P!Stages \ {"new", "counted", "answered"}
      /\ r \in B <=> stage[r] = "answered" /\ header[r] = "none" /\ status[r] \notin TooMany
      /\ r \in C <=> stage[r] = "counted"
      /\ r \in U' <=> stage'[r] \in P!Stages \ {"new", "counted", "answered"}
      /\ r \in B' <=>
           stage'[r] = "answered" /\ header'[r] = "none" /\ status'[r] \notin TooMany
      /\ r \in C' <=> stage'[r] = "counted"
  BY Memberships
<1>4. /\ IsFiniteSet(U) /\ IsFiniteSet(B) /\ IsFiniteSet(C)
      /\ counted = responses + u + b /\ errors + c <= responses
  BY DEF TalliesHold
<1>5. counted \in Nat /\ responses \in Nat /\ errors \in Nat
  BY TypesByRequest
<1> HIDE DEF U, B, C
<1>6. /\ IsFiniteSet(U') /\ u \in Nat /\ u' \in Nat
      /\ (r \in U <=> r \in U') => u' = u
      /\ r \in U /\ r \notin U' => u = u' + 1
      /\ r \notin U /\ r \in U' => u' = u + 1
  BY <1>2, <1>4, ButOne
<1>7. /\ IsFiniteSet(B') /\ b \in Nat /\ b' \in Nat
      /\ (r \in B <=> r \in B') => b' = b
      /\ r \in B /\ r \notin B' => b = b' + 1
      /\ r \notin B /\ r \in B' => b' = b + 1
  BY <1>2, <1>4, ButOne
<1>8. /\ IsFiniteSet(C') /\ c \in Nat /\ c' \in Nat
      /\ (r \in C <=> r \in C') => c' = c
      /\ r \in C /\ r \notin C' => c = c' + 1
      /\ r \notin C /\ r \in C' => c' = c + 1
  BY <1>2, <1>4, ButOne
<1> HIDE DEF u, b, c
<1>9. ASSUME counted' = responses' + u' + b' /\ errors' + c' <= responses'
      PROVE  TalliesHold'
  BY <1>6, <1>7, <1>8, <1>9 DEF TalliesHold, U, B, C, u, b, c
<1>11. CASE P!RateLimited(r)
  <2>1. ~ (r \in U) /\ ~ (r \in U') /\ ~ (r \in B) /\ ~ (r \in B')
        /\ ~ (r \in C) /\ ~ (r \in C')
    BY <1>1, <1>3, <1>11, RateLimitedEffect
  <2>2. SameCounters
    BY <1>1, <1>11, RateLimitedEffect
  <2> QED
    BY <1>4, <1>6, <1>7, <1>8, <1>9, <2>1, <2>2 DEF SameCounters
<1>12. CASE P!PreRouting(r)
  <2>1. ~ (r \in U) /\ r \in U' /\ ~ (r \in B) /\ ~ (r \in B') /\ ~ (r \in C) /\ ~ (r \in C')
    BY <1>1, <1>3, <1>12, PreRoutingEffect DEF P!Stages
  <2>2. counted' = counted + 1 /\ responses' = responses /\ errors' = errors
    BY <1>1, <1>12, PreRoutingEffect
  <2>3. u' = u + 1 /\ b' = b /\ c' = c
    BY <1>6, <1>7, <1>8, <2>1
  <2>4. counted' = responses' + u' + b' /\ errors' + c' <= responses'
    BY <1>4, <1>5, <1>6, <1>7, <1>8, <2>2, <2>3
  <2> QED
    BY <1>9, <2>4
<1>13. CASE P!Handler(r) \/ P!LoadRequests(r) \/ P!LoadResponses(r) \/ P!LoadErrors(r)
  <2>1. /\ stage[r] \in {"routed", "read requests", "read responses"}
        /\ stage'[r] \in {"read requests", "read responses", "handled", "by itself"}
    BY <1>1, <1>13, HandlerEffect, LoadRequestsEffect, LoadResponsesEffect, LoadErrorsEffect
       DEF HandlerStep
  <2>2. r \in U /\ r \in U' /\ ~ (r \in B) /\ ~ (r \in B') /\ ~ (r \in C) /\ ~ (r \in C')
    BY <1>3, <2>1 DEF P!Stages
  <2>3. SameCounters
    BY <1>1, <1>13, HandlerEffect, LoadRequestsEffect, LoadResponsesEffect, LoadErrorsEffect
  <2> QED
    BY <1>4, <1>6, <1>7, <1>8, <1>9, <2>2, <2>3 DEF SameCounters
<1>14. CASE P!SentByItself(r)
  <2>1. /\ stage[r] = "by itself" /\ stage'[r] = "answered" /\ status'[r] = status[r]
        /\ header'[r] = header[r]
    BY <1>1, <1>14, SentByItselfEffect DEF SameIds
  <2>2. header[r] = "none" /\ status[r] \notin TooMany
    BY <1>1, <2>1 DEF IdsOf, RefusedAreAnswered
  <2>3. r \in U /\ ~ (r \in U') /\ ~ (r \in B) /\ r \in B' /\ ~ (r \in C) /\ ~ (r \in C')
    BY <1>3, <2>1, <2>2 DEF P!Stages
  <2>4. SameCounters
    BY <1>1, <1>14, SentByItselfEffect
  <2>5. u = u' + 1 /\ b' = b + 1 /\ c' = c
    BY <1>6, <1>7, <1>8, <2>3
  <2>6. counted' = responses' + u' + b' /\ errors' + c' <= responses'
    BY <1>4, <1>5, <1>6, <1>7, <1>8, <2>4, <2>5 DEF SameCounters
  <2> QED
    BY <1>9, <2>6
<1>15. CASE P!CountResponse(r)
  <2>1. stage[r] \in {"handled", "by itself"} /\ stage'[r] = "counted"
    BY <1>1, <1>15, CountResponseEffect
  <2>2. r \in U /\ ~ (r \in U') /\ ~ (r \in B) /\ ~ (r \in B') /\ ~ (r \in C) /\ r \in C'
    BY <1>3, <2>1 DEF P!Stages
  <2>3. counted' = counted /\ responses' = responses + 1 /\ errors' = errors
    BY <1>1, <1>15, CountResponseEffect
  <2> QED
    BY <1>4, <1>5, <1>6, <1>7, <1>8, <1>9, <2>2, <2>3
<1>16. CASE P!CountError(r)
  <2>1. stage[r] = "counted" /\ stage'[r] = "answered" /\ header'[r] = P!RequestId(r)
    BY <1>1, <1>16, CountErrorEffect
  <2>2. header'[r] # "none"
    BY <1>1, <2>1, RequestIdType
  <2>3. ~ (r \in U) /\ ~ (r \in U') /\ ~ (r \in B) /\ ~ (r \in B') /\ r \in C /\ ~ (r \in C')
    BY <1>3, <2>1, <2>2 DEF P!Stages
  <2>4. counted' = counted /\ responses' = responses /\ errors' \in Int /\ errors' <= errors + 1
    <3>1. counted' = counted /\ responses' = responses
      BY <1>1, <1>16, CountErrorEffect
    <3>2. errors' = errors + 1 \/ errors' = errors + 0
      BY <1>1, <1>16, CountErrorEffect
    <3> QED
      BY <1>5, <3>1, <3>2
  <2>5. u' = u /\ b' = b /\ c = c' + 1
    BY <1>6, <1>7, <1>8, <2>3
  <2>6. counted' = responses' + u' + b'
    BY <1>4, <2>4, <2>5
  <2>7. c' \in Nat /\ errors + (c' + 1) <= responses
    BY <1>4, <1>8, <2>5
  <2>8. errors' + c' <= responses'
    <3>1. \A e, n, k \in Nat : \A f \in Int :
            f <= e + 1 /\ e + (k + 1) <= n => f + k <= n
      OBVIOUS
    <3> QED
      BY <1>5, <2>4, <2>7, <3>1
  <2> QED
    BY <1>9, <2>6, <2>8
<1> QED
  BY <1>11, <1>12, <1>13, <1>14, <1>15, <1>16 DEF PipelineStep

\* What the counters add up to is what is under way.
LEMMA TalliesAddUp ==
  ASSUME P!Tallies, errors \in Nat, responses \in Nat
  PROVE  P!CountersAddUp
<1>1. /\ counted = responses + P!Cardinality(P!UnderWay) + P!Cardinality(P!Bypassed)
      /\ errors + P!Cardinality(P!Counting) <= responses
      /\ IsFiniteSet(P!Counting)
  BY SameCounts DEF P!Tallies
<1>2. P!Cardinality(P!Counting) \in Nat
  BY <1>1, SameCounts, FS_CardinalityType
<1>3. errors <= responses
  BY <1>1, <1>2
<1>4. P!InStage(P!Stages \ {"new", "counted", "answered"}) = P!Cardinality(P!UnderWay)
  BY DEF P!InStage, P!UnderWay
<1> QED
  BY <1>1, <1>3, <1>4 DEF P!CountersAddUp, P!Bypassed

-----------------------------------------------------------------------------
(* The pipeline: scrapes.                                                  *)

\* What a scrape has read was there, and it never bypasses the advice.
Reads(r) ==
  /\ shown[r].requests <= counted
  /\ shown[r].responses <= responses
  /\ shown[r].errors <= errors
  /\ kind[r] = "metrics" => stage[r] # "by itself"

\* What e has shown, when it had ended before s began, and what s reads.
FirstRead(e, s) ==
  shown[e].requests <= shown[s].requests /\ shown[e].responses <= shown[s].requests

SecondRead(e, s) ==
  shown[e].responses <= shown[s].responses /\ shown[e].errors <= shown[s].responses

ThirdRead(e, s) == shown[e].errors <= shown[s].errors

Ordered(e, s) ==
  /\ P!Ended(e)
  /\ kind[s] = "metrics" =>
       /\ stage[s] \in P!ReadRequests => FirstRead(e, s)
       /\ stage[s] \in P!ReadResponses => SecondRead(e, s)
       /\ stage[s] \in P!ReadErrors => ThirdRead(e, s)

\* HttpPipeline's ScrapesInOrder, one request or two at a time.
LEMMA ScrapesAre ==
  P!ScrapesInOrder <=> /\ \A q \in Threads : Reads(q)
                       /\ \A s \in Threads : \A e \in before[s] : Ordered(e, s)
BY DEF P!ScrapesInOrder, Reads, Ordered, FirstRead, SecondRead, ThirdRead

\* The same after a step.
LEMMA ScrapesAreAfter ==
  ASSUME \A q \in Threads : Reads(q)',
         \A s \in Threads : \A e \in before'[s] : Ordered(e, s)'
  PROVE  P!ScrapesInOrder'
BY DEF P!ScrapesInOrder, Reads, Ordered, FirstRead, SecondRead, ThirdRead

\* The counters grow, and there is never an error that is not a response, nor a
\* response that was not a request.
LEMMA CountersGrow ==
  ASSUME P!TypeOK, TalliesHold, NEW r \in Threads, PipelineStep(r)
  PROVE  /\ counted \in Nat /\ responses \in Nat /\ errors \in Nat
         /\ counted' \in Nat /\ responses' \in Nat /\ errors' \in Nat
         /\ counted <= counted' /\ responses <= responses' /\ errors <= errors'
         /\ errors <= responses /\ responses <= counted
<1>0. Shaped /\ counted \in Nat /\ responses \in Nat /\ errors \in Nat
  BY TypesByRequest
<1>1. counted' \in Nat /\ responses' \in Nat /\ errors' \in Nat
  BY <1>0, TypesOfCounters
<1>2. /\ Cardinality(P!UnderWay) \in Nat /\ Cardinality(P!Bypassed) \in Nat
      /\ Cardinality(P!Counting) \in Nat
  BY FS_CardinalityType DEF TalliesHold
<1>3. errors <= responses /\ responses <= counted
  <2>1. \A x, y, u, v, w, z \in Nat : x = y + u + v /\ z + w <= y => z <= y /\ y <= x
    OBVIOUS
  <2> QED
    BY <1>0, <1>2, <2>1 DEF TalliesHold
<1>4. ASSUME P!CountResponse(r) PROVE responses <= responses' /\ UNCHANGED << counted, errors >>
  <2>1. counted' = counted /\ responses' = responses + 1 /\ errors' = errors
    BY <1>0, <1>4, CountResponseEffect
  <2> QED
    BY <1>0, <2>1
<1>5. ASSUME P!PreRouting(r) PROVE counted <= counted' /\ UNCHANGED << responses, errors >>
  <2>1. counted' = counted + 1 /\ responses' = responses /\ errors' = errors
    BY <1>0, <1>5, PreRoutingEffect
  <2> QED
    BY <1>0, <2>1
<1>6. ASSUME P!CountError(r) PROVE errors <= errors' /\ UNCHANGED << counted, responses >>
  <2>1. counted' = counted /\ responses' = responses
    BY <1>0, <1>6, CountErrorEffect
  <2>2. errors' = errors + 1 \/ errors' = errors + 0
    BY <1>0, <1>6, CountErrorEffect
  <2> QED
    BY <1>0, <2>1, <2>2
<1>7. ASSUME ~ (P!CountResponse(r) \/ P!PreRouting(r) \/ P!CountError(r))
      PROVE  SameCounters
  BY <1>0, <1>7, RateLimitedEffect, HandlerEffect, LoadRequestsEffect, LoadResponsesEffect,
     LoadErrorsEffect, SentByItselfEffect DEF PipelineStep
<1>8. counted <= counted' /\ responses <= responses' /\ errors <= errors'
  BY <1>0, <1>4, <1>5, <1>6, <1>7 DEF SameCounters
<1> QED
  BY <1>0, <1>1, <1>3, <1>8

\* A request that is answered takes no step.
LEMMA AnsweredIsDone ==
  ASSUME P!TypeOK, NEW r \in Threads, PipelineStep(r)
  PROVE  stage[r] # "answered"
<1>1. Shaped
  BY TypesByRequest
<1>2. CASE P!CountResponse(r) \/ P!CountError(r)
  BY <1>1, <1>2, CountResponseEffect, CountErrorEffect
<1>3. CASE ~ (P!CountResponse(r) \/ P!CountError(r))
  BY <1>1, <1>3, RateLimitedEffect, PreRoutingEffect, HandlerEffect, LoadRequestsEffect,
     LoadResponsesEffect, LoadErrorsEffect, SentByItselfEffect DEF PipelineStep, HandlerStep
<1> QED
  BY <1>2, <1>3

\* What each load reads, field by field.
LEMMA LoadRequestsReads ==
  ASSUME Shaped, NEW r \in Threads, RequestTypeOK(r), P!LoadRequests(r)
  PROVE  /\ shown'[r].requests = counted
         /\ shown'[r].responses = shown[r].responses /\ shown'[r].errors = shown[r].errors
<1>1. shown'[r] = [shown[r] EXCEPT !.requests = counted]
  BY LoadRequestsEffect
<1>2. shown[r] \in Shown
  BY DEF RequestTypeOK
<1> QED
  BY <1>1, <1>2 DEF Shown

\* The same of the responses.
LEMMA LoadResponsesReads ==
  ASSUME Shaped, NEW r \in Threads, RequestTypeOK(r), P!LoadResponses(r)
  PROVE  /\ shown'[r].responses = responses
         /\ shown'[r].requests = shown[r].requests /\ shown'[r].errors = shown[r].errors
<1>1. shown'[r] = [shown[r] EXCEPT !.responses = responses]
  BY LoadResponsesEffect
<1>2. shown[r] \in Shown
  BY DEF RequestTypeOK
<1> QED
  BY <1>1, <1>2 DEF Shown

\* The same of the errors.
LEMMA LoadErrorsReads ==
  ASSUME Shaped, NEW r \in Threads, RequestTypeOK(r), P!LoadErrors(r)
  PROVE  /\ shown'[r].errors = errors
         /\ shown'[r].requests = shown[r].requests
         /\ shown'[r].responses = shown[r].responses
<1>1. shown'[r] = [shown[r] EXCEPT !.errors = errors]
  BY LoadErrorsEffect
<1>2. shown[r] \in Shown
  BY DEF RequestTypeOK
<1> QED
  BY <1>1, <1>2 DEF Shown

\* Whatever is not a load leaves the readings alone.
LEMMA NoLoad ==
  ASSUME Shaped, NEW r \in Threads, PipelineStep(r),
         ~ (P!LoadRequests(r) \/ P!LoadResponses(r) \/ P!LoadErrors(r))
  PROVE  shown'[r] = shown[r]
<1>1. CASE P!CountResponse(r)
  BY <1>1, CountResponseEffect DEF SameReadings
<1>2. CASE P!CountError(r)
  BY <1>2, CountErrorEffect DEF SameReadings
<1>3. CASE ~ (P!CountResponse(r) \/ P!CountError(r))
  BY <1>3, RateLimitedEffect, PreRoutingEffect, HandlerEffect, SentByItselfEffect
     DEF SameReadings, PipelineStep
<1> QED
  BY <1>1, <1>2, <1>3

\* Only a step that begins sets the scrapes before it.
LEMMA OnlyBeginningsLookBack ==
  ASSUME Shaped, NEW r \in Threads, PipelineStep(r), ~ P!PreRouting(r)
  PROVE  before'[r] = before[r]
<1>1. CASE P!CountResponse(r)
  BY <1>1, CountResponseEffect DEF SameReadings
<1>2. CASE P!CountError(r)
  BY <1>2, CountErrorEffect DEF SameReadings
<1>3. CASE P!RateLimited(r) \/ P!Handler(r) \/ P!SentByItself(r)
  BY <1>3, RateLimitedEffect, HandlerEffect, SentByItselfEffect DEF SameReadings
<1>4. CASE P!LoadRequests(r) \/ P!LoadResponses(r) \/ P!LoadErrors(r)
  BY <1>4, LoadRequestsEffect, LoadResponsesEffect, LoadErrorsEffect
<1> QED
  BY <1>1, <1>2, <1>3, <1>4 DEF PipelineStep

\* Only handlers of other requests than scrapes are answered by the framework.
LEMMA ByItself ==
  ASSUME Shaped, NEW r \in Threads, PipelineStep(r), stage'[r] = "by itself"
  PROVE  kind[r] # "metrics"
<1>1. CASE P!Handler(r)
  BY <1>1, HandlerEffect DEF HandlerStep
<1>2. CASE P!CountResponse(r) \/ P!CountError(r)
  BY <1>2, CountResponseEffect, CountErrorEffect
<1>3. CASE ~ (P!Handler(r) \/ P!CountResponse(r) \/ P!CountError(r))
  BY <1>3, RateLimitedEffect, PreRoutingEffect, LoadRequestsEffect,
     LoadResponsesEffect, LoadErrorsEffect, SentByItselfEffect DEF PipelineStep
<1> QED
  BY <1>1, <1>2, <1>3

\* A step keeps what is read of the counters below them.
LEMMA PipelineReads ==
  ASSUME P!TypeOK, TalliesHold, \A q \in Threads : Reads(q),
         NEW r \in Threads, PipelineStep(r), NEW q \in Threads
  PROVE  Reads(q)'
<1>0. Shaped /\ Alone(r) /\ RequestTypeOK(r) /\ RequestTypeOK(q)
  BY TypesByRequest, StepIsAlone
<1>1. /\ counted \in Nat /\ responses \in Nat /\ errors \in Nat
      /\ counted' \in Nat /\ responses' \in Nat /\ errors' \in Nat
      /\ counted <= counted' /\ responses <= responses' /\ errors <= errors'
  BY CountersGrow
<1>2. /\ shown[q].requests \in Nat /\ shown[q].responses \in Nat /\ shown[q].errors \in Nat
  BY <1>0 DEF RequestTypeOK, Shown
<1>3. /\ shown[q].requests <= counted' /\ shown[q].responses <= responses'
      /\ shown[q].errors <= errors'
  <2>1. \A x, y, z \in Nat : x <= y /\ y <= z => x <= z
    OBVIOUS
  <2>2. /\ shown[q].requests <= counted /\ shown[q].responses <= responses
        /\ shown[q].errors <= errors
    BY DEF Reads
  <2> QED
    BY <1>1, <1>2, <2>1, <2>2
<1>4. kind'[q] = "metrics" => stage'[q] # "by itself"
  BY <1>0, ByItself DEF Alone, Reads
<1>5. CASE shown'[q] = shown[q]
  BY <1>3, <1>4, <1>5 DEF Reads
<1>6. CASE q = r /\ P!LoadRequests(r)
  <2>1. shown'[q].requests <= counted'
    BY <1>0, <1>1, <1>6, LoadRequestsReads
  <2>2. shown'[q].responses = shown[q].responses /\ shown'[q].errors = shown[q].errors
    BY <1>0, <1>6, LoadRequestsReads
  <2> QED
    BY <1>3, <1>4, <2>1, <2>2 DEF Reads
<1>7. CASE q = r /\ P!LoadResponses(r)
  <2>1. shown'[q].responses <= responses'
    BY <1>0, <1>1, <1>7, LoadResponsesReads
  <2>2. shown'[q].requests = shown[q].requests /\ shown'[q].errors = shown[q].errors
    BY <1>0, <1>7, LoadResponsesReads
  <2> QED
    BY <1>3, <1>4, <2>1, <2>2 DEF Reads
<1>8. CASE q = r /\ P!LoadErrors(r)
  <2>1. shown'[q].errors <= errors'
    BY <1>0, <1>1, <1>8, LoadErrorsReads
  <2>2. shown'[q].requests = shown[q].requests /\ shown'[q].responses = shown[q].responses
    BY <1>0, <1>8, LoadErrorsReads
  <2> QED
    BY <1>3, <1>4, <2>1, <2>2 DEF Reads
<1> QED
  BY <1>0, <1>5, <1>6, <1>7, <1>8, NoLoad DEF Alone

\* What had ended before a scrape began is as it was.
LEMMA EndedStays ==
  ASSUME P!TypeOK, NEW r \in Threads, PipelineStep(r), NEW e \in Threads, P!Ended(e)
  PROVE  e # r /\ P!Ended(e)' /\ shown'[e] = shown[e]
<1>1. e # r
  BY AnsweredIsDone DEF P!Ended
<1>2. Alone(r)
  BY TypesByRequest, StepIsAlone
<1> QED
  BY <1>1, <1>2 DEF Alone, P!Ended

\* A step keeps the scrapes that come one after the other in order.
LEMMA PipelineOrdered ==
  ASSUME P!TypeOK, TalliesHold, \A q \in Threads : Reads(q),
         \A s \in Threads : \A e \in before[s] : Ordered(e, s),
         NEW r \in Threads, PipelineStep(r),
         NEW s \in Threads, NEW e \in before'[s]
  PROVE  Ordered(e, s)'
<1>0. Shaped /\ Alone(r) /\ RequestTypeOK(r) /\ RequestTypeOK(s)
      /\ kind' = kind
  BY TypesByRequest, StepIsAlone DEF Alone
<1>1. ASSUME s # r PROVE Ordered(e, s)'
  <2>1. /\ e \in Threads /\ Ordered(e, s)
        /\ shown'[s] = shown[s] /\ stage'[s] = stage[s]
    BY <1>0, <1>1 DEF Alone, RequestTypeOK
  <2>2. P!Ended(e)' /\ shown'[e] = shown[e]
    BY <2>1, EndedStays DEF Ordered
  <2> QED
    BY <1>0, <2>1, <2>2 DEF Ordered, FirstRead, SecondRead, ThirdRead
<1>2. ASSUME s = r, P!PreRouting(r) PROVE Ordered(e, s)'
  <2>1. stage'[s] = "routed" /\ e \in Threads /\ P!Ended(e)
    BY <1>0, <1>2, PreRoutingEffect
  <2>2. P!Ended(e)'
    BY <2>1, EndedStays
  <2> QED
    BY <2>1, <2>2 DEF Ordered, P!ReadRequests, P!ReadResponses, P!ReadErrors
<1>3. ASSUME s = r, ~ P!PreRouting(r) PROVE Ordered(e, s)'
  <2>1. e \in Threads /\ Ordered(e, r)
    BY <1>0, <1>3, OnlyBeginningsLookBack DEF RequestTypeOK
  <2>2. P!Ended(e)' /\ shown'[e] = shown[e] /\ e # r
    BY <2>1, EndedStays DEF Ordered
  <2>3. ASSUME kind[r] # "metrics" PROVE Ordered(e, s)'
    BY <1>0, <1>3, <2>2, <2>3 DEF Ordered
  <2>4. /\ shown[e].requests \in Nat /\ shown[e].responses \in Nat /\ shown[e].errors \in Nat
        /\ shown[e].requests <= counted /\ shown[e].responses <= responses
        /\ shown[e].errors <= errors
    BY <2>1, TypesByRequest DEF RequestTypeOK, Shown, Reads
  <2>5. /\ counted \in Nat /\ responses \in Nat /\ errors \in Nat
        /\ errors <= responses /\ responses <= counted
    BY CountersGrow
  <2>6. shown[e].responses <= counted /\ shown[e].errors <= responses
    BY <2>4, <2>5
  <2>7. CASE P!LoadRequests(r)
    <3>1. stage'[r] = "read requests"
      BY <1>0, <2>7, LoadRequestsEffect
    <3>2. shown'[r].requests = counted
      BY <1>0, <2>7, LoadRequestsReads
    <3>3. FirstRead(e, r)'
      BY <2>2, <2>4, <2>6, <3>2 DEF FirstRead
    <3> QED
      BY <1>3, <2>2, <3>1, <3>3 DEF Ordered, P!ReadRequests, P!ReadResponses, P!ReadErrors
  <2>8. CASE P!LoadResponses(r)
    <3>1. stage[r] = "read requests" /\ stage'[r] = "read responses"
      BY <1>0, <2>8, LoadResponsesEffect
    <3>2. shown'[r].responses = responses /\ shown'[r].requests = shown[r].requests
      BY <1>0, <2>8, LoadResponsesReads
    <3>3. kind[r] = "metrics" => FirstRead(e, r)
      BY <2>1, <3>1 DEF Ordered, P!ReadRequests
    <3>4. (kind[r] = "metrics" => FirstRead(e, r)') /\ SecondRead(e, r)'
      BY <2>2, <2>4, <2>6, <3>2, <3>3 DEF FirstRead, SecondRead
    <3> QED
      BY <1>0, <1>3, <2>2, <3>1, <3>4
         DEF Ordered, P!ReadRequests, P!ReadResponses, P!ReadErrors
  <2>9. CASE P!LoadErrors(r)
    <3>1. stage[r] = "read responses" /\ stage'[r] = "handled"
      BY <1>0, <2>9, LoadErrorsEffect
    <3>2. /\ shown'[r].errors = errors /\ shown'[r].requests = shown[r].requests
          /\ shown'[r].responses = shown[r].responses
      BY <1>0, <2>9, LoadErrorsReads
    <3>3. kind[r] = "metrics" => FirstRead(e, r) /\ SecondRead(e, r)
      BY <2>1, <3>1 DEF Ordered, P!ReadRequests, P!ReadResponses
    <3>4. (kind[r] = "metrics" => FirstRead(e, r)' /\ SecondRead(e, r)') /\ ThirdRead(e, r)'
      BY <2>2, <2>4, <3>2, <3>3 DEF FirstRead, SecondRead, ThirdRead
    <3> QED
      BY <1>0, <1>3, <2>2, <3>1, <3>4
         DEF Ordered, P!ReadRequests, P!ReadResponses, P!ReadErrors
  <2>10. CASE P!CountResponse(r) \/ P!CountError(r)
    <3>1. stage[r] \in {"handled", "by itself", "counted"} /\ shown'[r] = shown[r]
      <4>1. CASE P!CountResponse(r)
        BY <1>0, <4>1, CountResponseEffect DEF SameReadings
      <4>2. CASE P!CountError(r)
        BY <1>0, <4>2, CountErrorEffect DEF SameReadings
      <4> QED
        BY <2>10, <4>1, <4>2
    <3>2. kind[r] = "metrics" => stage[r] # "by itself"
      BY DEF Reads
    <3>3. kind[r] = "metrics" => FirstRead(e, r) /\ SecondRead(e, r) /\ ThirdRead(e, r)
      BY <2>1, <3>1, <3>2 DEF Ordered, P!ReadRequests, P!ReadResponses, P!ReadErrors
    <3>4. kind[r] = "metrics" => FirstRead(e, r)' /\ SecondRead(e, r)' /\ ThirdRead(e, r)'
      BY <2>2, <3>1, <3>3 DEF FirstRead, SecondRead, ThirdRead
    <3> QED
      BY <1>0, <1>3, <2>2, <3>4 DEF Ordered
  <2>11. CASE P!RateLimited(r) \/ P!Handler(r)
    BY <1>0, <2>3, <2>11, RateLimitedEffect, HandlerEffect DEF HandlerStep
  <2>12. CASE P!SentByItself(r)
    BY <1>0, <2>3, <2>12, SentByItselfEffect DEF Reads
  <2> QED
    BY <1>3, <2>7, <2>8, <2>9, <2>10, <2>11, <2>12 DEF PipelineStep
<1> QED
  BY <1>1, <1>2, <1>3

-----------------------------------------------------------------------------
(* The pipeline: its invariant.                                            *)

PipelineInv == P!TypeOK /\ P!IdsKept /\ P!Tallies /\ P!ScrapesInOrder

\* The invariant holds when no request was made yet.
LEMMA PipelineInitInv == P!Init => PipelineInv
<1> SUFFICES ASSUME P!Init PROVE PipelineInv
  OBVIOUS
<1>1. P!TypeOK
  BY DEF P!Init, P!TypeOK, P!Stages, P!Nothing
<1>2. P!IdsKept
  BY DEF P!Init, P!IdsKept
<1>3. P!UnderWay = {} /\ P!Bypassed = {} /\ P!Counting = {}
  BY DEF P!Init, P!UnderWay, P!Bypassed, P!Counting
<1>4. TalliesHold
  BY <1>3, FS_EmptySet DEF P!Init, TalliesHold
<1>5. \A q \in Threads : status[q] # 429
  BY DEF P!Init
<1>6. P!Tallies
  BY <1>4, <1>5, TalliesAre DEF RefusedAreAnswered, TooMany
<1>7. P!ScrapesInOrder
  BY DEF P!Init, P!ScrapesInOrder, P!Nothing
<1> QED
  BY <1>1, <1>2, <1>6, <1>7 DEF PipelineInv

\* A step of a request keeps the invariant.
LEMMA PipelineStepInv ==
  ASSUME PipelineInv, NEW r \in Threads, PipelineStep(r)
  PROVE  PipelineInv'
<1>1. P!TypeOK /\ P!IdsKept /\ TalliesHold /\ RefusedAreAnswered /\ P!ScrapesInOrder
  BY TalliesAre DEF PipelineInv
<1>2. P!TypeOK' /\ P!IdsKept'
  BY <1>1, PipelineTypes, PipelineIds
<1>3. P!Tallies'
  BY <1>1, PipelineTallies, PipelineRefusals, TalliesAre
<1>4. /\ \A q \in Threads : Reads(q)
      /\ \A s \in Threads : \A e \in before[s] : Ordered(e, s)
  BY <1>1, ScrapesAre
<1>5. \A q \in Threads : Reads(q)'
  BY <1>1, <1>4, PipelineReads
<1>6. \A s \in Threads : \A e \in before'[s] : Ordered(e, s)'
  BY <1>1, <1>4, PipelineOrdered
<1>7. P!ScrapesInOrder'
  BY <1>5, <1>6, ScrapesAreAfter
<1> QED
  BY <1>2, <1>3, <1>7 DEF PipelineInv

\* So does a step that leaves the pipeline alone.
LEMMA PipelineStutterInv ==
  ASSUME PipelineInv, UNCHANGED pipelineVars
  PROVE  PipelineInv'
<1>1. P!TypeOK'
  BY DEF PipelineInv, pipelineVars, P!TypeOK
<1>2. P!IdsKept'
  BY DEF PipelineInv, pipelineVars, P!IdsKept
<1>3. P!UnderWay' = P!UnderWay /\ P!Bypassed' = P!Bypassed /\ P!Counting' = P!Counting
  BY DEF pipelineVars, P!UnderWay, P!Bypassed, P!Counting
<1>4. P!Tallies'
  BY <1>3 DEF PipelineInv, pipelineVars, P!Tallies
<1>5. P!ScrapesInOrder'
  BY DEF PipelineInv, pipelineVars, P!ScrapesInOrder, P!Ended
<1> QED
  BY <1>1, <1>2, <1>4, <1>5 DEF PipelineInv

\* What the invariant means for ids, for counters,
LEMMA PipelineInvIds == PipelineInv => P!AnswersCarryTheirId /\ P!CountersAddUp
<1> SUFFICES ASSUME PipelineInv PROVE P!AnswersCarryTheirId /\ P!CountersAddUp
  OBVIOUS
<1>1. P!AnswersCarryTheirId
  BY DEF PipelineInv, P!IdsKept, P!AnswersCarryTheirId
<1>2. P!CountersAddUp
  BY TalliesAddUp, TypesByRequest DEF PipelineInv
<1> QED
  BY <1>1, <1>2

\* and for scrapes.
LEMMA PipelineInvScrapes == PipelineInv => P!ScrapesAgree
<1> SUFFICES ASSUME PipelineInv, NEW s \in Threads, P!Ended(s), NEW e \in before[s]
             PROVE  /\ shown[e].requests <= shown[s].requests
                    /\ shown[e].responses <= shown[s].responses
                    /\ shown[e].errors <= shown[s].errors
                    /\ shown[e].responses <= shown[s].requests
                    /\ shown[e].errors <= shown[s].responses
  BY DEF P!ScrapesAgree
<1>1. Ordered(e, s)
  BY ScrapesAre DEF PipelineInv
<1>2. FirstRead(e, s) /\ SecondRead(e, s) /\ ThirdRead(e, s)
  BY <1>1 DEF Ordered, P!Ended, P!ReadRequests, P!ReadResponses, P!ReadErrors
<1> QED
  BY <1>2 DEF FirstRead, SecondRead, ThirdRead

-----------------------------------------------------------------------------
(* The limiter before the pipeline.                                        *)

\* Admitting a request adds one to what is admitted.
LEMMA AdmittedGrows ==
  ASSUME NEW k \in Key, NEW a \in Admission, log \in [Key -> Seq(Admission)],
         log' = [log EXCEPT ![k] = Append(@, a)], IsFiniteSet(Admitted)
  PROVE  /\ IsFiniteSet(Admitted') /\ Cardinality(Admitted) \in Nat
         /\ Cardinality(Admitted') = Cardinality(Admitted) + 1
<1> DEFINE x == << k, Len(log[k]) + 1 >>
<1>1. log[k] \in Seq(Admission) /\ Len(log[k]) \in Nat
  OBVIOUS
<1>2. /\ Len(Append(log[k], a)) = Len(log[k]) + 1
      /\ Append(log[k], a) \in Seq(Admission)
  BY <1>1, Appended
<1>3. DOMAIN log[k] = 1..Len(log[k]) /\ DOMAIN log'[k] = 1..(Len(log[k]) + 1)
  BY <1>1, <1>2
<1>4. \A l \in Key \ {k} : log'[l] = log[l]
  OBVIOUS
<1>5. \A y : y \in Admitted <=> \E l \in Key : \E i \in DOMAIN log[l] : y = << l, i >>
  BY DEF Admitted
<1>6. \A y : y \in Admitted' <=> \E l \in Key : \E i \in DOMAIN log'[l] : y = << l, i >>
  BY DEF Admitted
<1>7. \A l, i : << l, i >> \in Admitted <=> l \in Key /\ i \in DOMAIN log[l]
  BY <1>5
<1>8. \A l, i : << l, i >> \in Admitted' <=> l \in Key /\ i \in DOMAIN log'[l]
  BY <1>6
<1>9. x \notin Admitted
  BY <1>1, <1>3, <1>7
<1>10. x \in Admitted'
  BY <1>1, <1>3, <1>8
<1>11. ASSUME NEW l, NEW i, << l, i >> # x
       PROVE  << l, i >> \in Admitted <=> << l, i >> \in Admitted'
  <2>1. CASE l = k
    <3>1. i # Len(log[k]) + 1
      BY <1>11, <2>1
    <3>2. i \in 1..Len(log[k]) <=> i \in 1..(Len(log[k]) + 1)
      BY <1>1, <3>1
    <3> QED
      BY <1>3, <1>7, <1>8, <2>1, <3>2
  <2>2. CASE l # k
    BY <1>4, <1>7, <1>8, <2>2
  <2> QED
    BY <2>1, <2>2
<1>12. Admitted \ {x} = Admitted' \ {x}
  <2>1. \A y : y \in Admitted \/ y \in Admitted' => \E l, i : y = << l, i >>
    BY <1>5, <1>6
  <2>2. \A y : y # x => (y \in Admitted <=> y \in Admitted')
    BY <1>11, <2>1
  <2> QED
    BY <2>2
<1> HIDE DEF x
<1> QED
  BY <1>9, <1>10, <1>12, ButOne

ServerInv == Inv /\ PipelineInv /\ Passing

\* The invariant holds when no request was made yet.
LEMMA ServerInitInv == ServerInit => ServerInv
<1> SUFFICES ASSUME ServerInit PROVE ServerInv
  OBVIOUS
<1>1. Inv /\ PipelineInv
  BY InitInv, PipelineInitInv DEF ServerInit
<1>2. Admitted = {} /\ Unlimited = {} /\ passed = {} /\ counted = 0
  BY DEF ServerInit, Init, P!Init, Admitted, Unlimited
<1>3. \A t \in Threads : pc[t] = "idle"
  BY DEF ServerInit, Init
<1>4. OnlyAdmittedAreCounted
  BY <1>2, FS_EmptySet DEF OnlyAdmittedAreCounted
<1>5. Passing
  BY <1>2, <1>3, <1>4, FS_EmptySet DEF Passing
<1> QED
  BY <1>1, <1>5 DEF ServerInv

\* Every step of the server is one of the limiter or leaves it alone, and is one
\* of the pipeline or leaves that alone.
LEMMA ServerSteps ==
  ASSUME ServerNext
  PROVE  /\ [Next]_vars
         /\ UNCHANGED pipelineVars \/ \E r \in Threads : PipelineStep(r)
         /\ [P!Next]_(P!vars)
<1>1. CASE ClockTicks
  BY <1>1 DEF ClockTicks, Next, pipelineVars, P!vars
<1>2. ASSUME NEW r \in Threads, NEW k \in Key, Asks(r, k)
      PROVE  Arrive(r, k) /\ UNCHANGED pipelineVars
  BY <1>2 DEF Asks
<1>3. ASSUME NEW r \in Threads, LetIn(r)
      PROVE  Admit(r) /\ UNCHANGED pipelineVars
  BY <1>3 DEF LetIn
<1>4. ASSUME NEW r \in Threads, TurnAway(r)
      PROVE  Refuse(r) /\ P!RateLimited(r)
  BY <1>4 DEF TurnAway
<1>5. ASSUME NEW r \in Threads, Begins(r)
      PROVE  UNCHANGED vars /\ P!PreRouting(r)
  BY <1>5 DEF Begins
<1>6. ASSUME NEW r \in Threads, GoesOn(r)
      PROVE  /\ UNCHANGED vars
             /\ P!Handler(r) \/ P!Scrape(r) \/ P!SentByItself(r) \/ P!PostHandling(r)
  BY <1>6 DEF GoesOn
<1>7. [Next]_vars
  BY <1>1, <1>2, <1>3, <1>4, <1>5, <1>6 DEF ServerNext, ClockTicks, Next
<1>8. UNCHANGED pipelineVars \/ \E r \in Threads :
        P!RateLimited(r) \/ P!PreRouting(r) \/ P!Handler(r)
          \/ P!Scrape(r) \/ P!SentByItself(r) \/ P!PostHandling(r)
  BY <1>1, <1>2, <1>3, <1>4, <1>5, <1>6 DEF ServerNext, ClockTicks
<1>9. UNCHANGED pipelineVars \/ \E r \in Threads : PipelineStep(r)
  BY <1>8 DEF PipelineStep, P!Scrape, P!PostHandling
<1>10. [P!Next]_(P!vars)
  BY <1>8 DEF P!Next, P!vars, pipelineVars
<1> QED
  BY <1>7, <1>9, <1>10

\* What the advices do with a request, and with the requests that passed.
LEMMA PassingStep ==
  ASSUME ServerInv, ServerNext
  PROVE  Passing'
<1>0. /\ passed \subseteq Threads
      /\ \A r \in passed : kind[r] = "api" /\ stage[r] = "new" /\ pc[r] = "idle"
      /\ \A r \in Threads : pc[r] = "waiting" => kind[r] = "api" /\ stage[r] = "new"
      /\ IsFiniteSet(passed) /\ IsFiniteSet(Admitted) /\ IsFiniteSet(Unlimited)
      /\ counted + Cardinality(passed) = Cardinality(Admitted) + Cardinality(Unlimited)
      /\ Cardinality(passed) \in Nat /\ Cardinality(Admitted) \in Nat
      /\ Cardinality(Unlimited) \in Nat
  BY FS_CardinalityType DEF ServerInv, Passing, OnlyAdmittedAreCounted
<1>1. /\ pc \in [Threads -> {"idle", "waiting"}] /\ key \in [Threads -> Key]
      /\ log \in [Key -> Seq(Admission)] /\ sample \in [Threads -> Nat] /\ now \in Nat
  BY DEF ServerInv, Inv, TypeOK
<1>2. Shaped /\ counted \in Nat
  BY TypesByRequest DEF ServerInv, PipelineInv
<1>3. CASE ClockTicks
  BY <1>0, <1>3 DEF ClockTicks, Tick, pipelineVars, Passing, OnlyAdmittedAreCounted,
                    Admitted, Unlimited
<1>4. ASSUME NEW r \in Threads, NEW k \in Key, Asks(r, k) PROVE Passing'
  <2>1. /\ kind[r] = "api" /\ stage[r] = "new" /\ r \notin passed
        /\ pc' = [pc EXCEPT ![r] = "waiting"] /\ log' = log /\ passed' = passed
        /\ UNCHANGED pipelineVars
    BY <1>4 DEF Asks, Arrive
  <2>2. Admitted' = Admitted /\ Unlimited' = Unlimited
    BY <2>1 DEF Admitted, Unlimited, pipelineVars
  <2> QED
    BY <1>0, <1>1, <2>1, <2>2 DEF Passing, OnlyAdmittedAreCounted, pipelineVars
<1>5. ASSUME NEW r \in Threads, LetIn(r) PROVE Passing'
  <2> DEFINE a == [stamp |-> sample[r], at |-> now]
  <2>1. /\ pc[r] = "waiting" /\ pc' = [pc EXCEPT ![r] = "idle"]
        /\ log' = [log EXCEPT ![key[r]] = Append(@, a)]
        /\ passed' = passed \cup {r} /\ UNCHANGED pipelineVars
    BY <1>5 DEF LetIn, Admit, Return
  <2>2. a \in Admission
    BY <1>1 DEF Admission
  <2>3. IsFiniteSet(Admitted') /\ Cardinality(Admitted') = Cardinality(Admitted) + 1
    <3> HIDE DEF a
    <3> QED
      BY <1>0, <1>1, <2>1, <2>2, AdmittedGrows
  <2>4. r \notin passed /\ kind[r] = "api" /\ stage[r] = "new"
    BY <1>0, <2>1
  <2>5. IsFiniteSet(passed') /\ Cardinality(passed') = Cardinality(passed) + 1
    BY <1>0, <2>1, <2>4, FS_AddElement
  <2>6. Unlimited' = Unlimited /\ counted' = counted
    BY <2>1 DEF Unlimited, pipelineVars
  <2>7. OnlyAdmittedAreCounted'
    BY <1>0, <1>2, <2>3, <2>5, <2>6 DEF OnlyAdmittedAreCounted
  <2>8. /\ passed' \subseteq Threads
        /\ \A q \in passed' : kind'[q] = "api" /\ stage'[q] = "new" /\ pc'[q] = "idle"
        /\ \A q \in Threads : pc'[q] = "waiting" => kind'[q] = "api" /\ stage'[q] = "new"
    BY <1>0, <1>1, <2>1, <2>4 DEF pipelineVars
  <2> QED
    BY <1>0, <2>3, <2>5, <2>6, <2>7, <2>8 DEF Passing
<1>6. ASSUME NEW r \in Threads, TurnAway(r) PROVE Passing'
  <2>1. pc[r] = "waiting" /\ pc' = [pc EXCEPT ![r] = "idle"] /\ log' = log /\ passed' = passed
    BY <1>6 DEF TurnAway, Refuse, Return
  <2>2. /\ Alone(r) /\ counted' = counted /\ kind[r] = "api"
        /\ stage[r] = "new" /\ stage'[r] = "answered"
    BY <1>2, <1>6, RateLimitedEffect DEF TurnAway, SameCounters
  <2>3. Admitted' = Admitted
    BY <2>1 DEF Admitted
  <2>4. Unlimited' = Unlimited
    BY <2>2 DEF Unlimited, Alone
  <2>5. r \notin passed
    BY <1>0, <2>1
  <2>6. \A q \in Threads \ {r} : kind'[q] = kind[q] /\ stage'[q] = stage[q] /\ pc'[q] = pc[q]
    BY <1>1, <2>1, <2>2 DEF Alone
  <2>7. /\ \A q \in passed : kind'[q] = "api" /\ stage'[q] = "new" /\ pc'[q] = "idle"
        /\ \A q \in Threads : pc'[q] = "waiting" => kind'[q] = "api" /\ stage'[q] = "new"
    BY ZenonT(60), <1>0, <1>1, <2>1, <2>5, <2>6
  <2> QED
    BY <1>0, <2>1, <2>2, <2>3, <2>4, <2>7 DEF Passing, OnlyAdmittedAreCounted
<1>7. ASSUME NEW r \in Threads, Begins(r) PROVE Passing'
  <2>1. /\ kind[r] = "api" => r \in passed
        /\ passed' = passed \ {r} /\ pc' = pc /\ log' = log
    BY <1>7 DEF Begins, vars
  <2>2. /\ Alone(r) /\ stage[r] = "new" /\ stage'[r] = "routed" /\ counted' = counted + 1
    BY <1>2, <1>7, PreRoutingEffect DEF Begins
  <2>3. Admitted' = Admitted
    BY <2>1 DEF Admitted
  <2>4. \A q \in Threads \ {r} : kind'[q] = kind[q] /\ stage'[q] = stage[q]
    BY <2>2 DEF Alone
  <2>5. pc[r] # "waiting"
    BY <1>0, <2>1
  <2>6. /\ passed' \subseteq Threads
        /\ \A q \in passed' : kind'[q] = "api" /\ stage'[q] = "new" /\ pc'[q] = "idle"
        /\ \A q \in Threads : pc'[q] = "waiting" => kind'[q] = "api" /\ stage'[q] = "new"
    BY <1>0, <2>1, <2>4, <2>5
  <2>7. CASE kind[r] = "api"
    <3>1. Unlimited' = Unlimited
      BY <2>2, <2>4, <2>7 DEF Unlimited, Alone
    <3>2. IsFiniteSet(passed') /\ Cardinality(passed') = Cardinality(passed) - 1
      BY <1>0, <2>1, <2>7, FS_RemoveElement
    <3>3. OnlyAdmittedAreCounted'
      BY <1>0, <1>2, <2>2, <2>3, <3>1, <3>2 DEF OnlyAdmittedAreCounted
    <3> QED
      BY <1>0, <2>3, <2>6, <3>1, <3>2, <3>3 DEF Passing
  <2>8. CASE kind[r] # "api"
    <3>1. Unlimited' = Unlimited \cup {r} /\ r \notin Unlimited
      BY <2>2, <2>4, <2>8 DEF Unlimited, Alone
    <3>2. /\ IsFiniteSet(Unlimited')
          /\ Cardinality(Unlimited') = Cardinality(Unlimited) + 1
      BY <1>0, <3>1, FS_AddElement
    <3>3. passed' = passed
      BY <1>0, <2>1, <2>8
    <3>4. OnlyAdmittedAreCounted'
      BY <1>0, <1>2, <2>2, <2>3, <3>2, <3>3 DEF OnlyAdmittedAreCounted
    <3> QED
      BY <1>0, <2>3, <2>6, <3>2, <3>3, <3>4 DEF Passing
  <2> QED
    BY <2>7, <2>8
<1>8. ASSUME NEW r \in Threads, GoesOn(r) PROVE Passing'
  <2>1. passed' = passed /\ pc' = pc /\ log' = log
    BY <1>8 DEF GoesOn, vars
  <2>2. /\ Alone(r) /\ stage[r] # "new" /\ stage'[r] # "new" /\ counted' = counted
    <3>1. CASE P!CountResponse(r) \/ P!CountError(r)
      BY <1>2, <3>1, CountResponseEffect, CountErrorEffect
    <3>2. CASE P!Handler(r) \/ P!SentByItself(r)
      BY <1>2, <3>2, HandlerEffect, SentByItselfEffect DEF HandlerStep, SameCounters
    <3>3. CASE P!LoadRequests(r) \/ P!LoadResponses(r) \/ P!LoadErrors(r)
      BY <1>2, <3>3, LoadRequestsEffect, LoadResponsesEffect, LoadErrorsEffect
         DEF SameCounters
    <3> QED
      BY <1>8, <3>1, <3>2, <3>3 DEF GoesOn, P!Scrape, P!PostHandling
  <2>3. Admitted' = Admitted
    BY <2>1 DEF Admitted
  <2>4. Unlimited' = Unlimited
    BY <2>2 DEF Unlimited, Alone
  <2>5. \A q \in Threads : kind'[q] = kind[q] /\ (stage[q] = "new" <=> stage'[q] = "new")
    BY <2>2 DEF Alone
  <2> QED
    BY <1>0, <2>1, <2>2, <2>3, <2>4, <2>5 DEF Passing, OnlyAdmittedAreCounted
<1> QED
  BY <1>3, <1>4, <1>5, <1>6, <1>7, <1>8 DEF ServerNext

\* Every step of the server keeps its invariant.
LEMMA ServerStepInv ==
  ASSUME ServerInv, [ServerNext]_<< vars, passed, pipelineVars >>
  PROVE  ServerInv'
<1>1. CASE ServerNext
  <2>1. Inv'
    BY <1>1, ServerSteps, StepInv DEF ServerInv
  <2>2. PipelineInv'
    BY <1>1, ServerSteps, PipelineStepInv, PipelineStutterInv DEF ServerInv
  <2>3. Passing'
    BY <1>1, PassingStep
  <2> QED
    BY <2>1, <2>2, <2>3 DEF ServerInv
<1>2. CASE UNCHANGED << vars, passed, pipelineVars >>
  <2>1. Inv' /\ PipelineInv'
    BY <1>2, StepInv, PipelineStutterInv DEF ServerInv
  <2>2. Passing'
    BY <1>2 DEF ServerInv, Passing, OnlyAdmittedAreCounted, Admitted, Unlimited,
                vars, pipelineVars
  <2> QED
    BY <2>1, <2>2 DEF ServerInv
<1> QED
  BY <1>1, <1>2

\* The server's requests go through the limiter as RateLimiter says: whatever it
\* promises, the server promises.
THEOREM ServerIsLimited == ServerSpec => Spec
<1>1. ServerInit => Init
  BY DEF ServerInit
<1>2. [ServerNext]_<< vars, passed, pipelineVars >> => [Next]_vars
  BY ServerSteps DEF vars
<1> QED
  BY <1>1, <1>2, PTL DEF ServerSpec, Spec

\* They go through the advices as HttpPipeline says, with the limiter's answer
\* where HttpPipeline leaves it open.
THEOREM ServerIsPipeline == ServerSpec => P!Spec
<1>1. ServerInit => P!Init
  BY DEF ServerInit
<1>2. [ServerNext]_<< vars, passed, pipelineVars >> => [P!Next]_(P!vars)
  BY ServerSteps DEF pipelineVars, P!vars
<1> QED
  BY <1>1, <1>2, PTL DEF ServerSpec, P!Spec

\* However many requests there are and however the threads run: scrapes that
\* follow each other agree.
THEOREM ServerScrapesAgree == ServerSpec => []ScrapesAgree
<1>1. ServerInv => ScrapesAgree
  BY PipelineInvScrapes DEF ServerInv, ScrapesAgree
<1> QED
  BY <1>1, ServerInitInv, ServerStepInv, PTL DEF ServerSpec

\* What the limiter lets in is counted, and the counters, the log and the answers
\* of what the post-handling advice sees fit together.
THEOREM ServerTracesAdmitted == ServerSpec => []AdmittedAreTraced
<1>1. ServerInv => AdmittedAreTraced
  BY PipelineInvIds DEF ServerInv, Passing, AdmittedAreTraced
<1> QED
  BY <1>1, ServerInitInv, ServerStepInv, PTL DEF ServerSpec

\* The bound and the justification of the limiter hold of the server.
THEOREM ServerLimits == ServerSpec => []WindowBound /\ RefusalJustified
BY ServerIsLimited, WindowIsBounded, RefusalsAreJustified

=============================================================================
