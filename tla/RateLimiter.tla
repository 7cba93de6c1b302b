---------------------------- MODULE RateLimiter ----------------------------
(***************************************************************************)
(* The sliding-window limiter of observability/RateLimiter.cc and its call *)
(* in the synchronous advice of main.cc.                                   *)
(*                                                                         *)
(* allow() reads the clock and only then waits for the mutex, so a thread  *)
(* may enter the critical section with a stale time and after a thread     *)
(* whose time is newer.  MaxDelay bounds how stale: the clock is only as   *)
(* coarse as its ticks, and a thread is scheduled within MaxDelay of them. *)
(***************************************************************************)
EXTENDS Integers, Sequences, FiniteSets

CONSTANTS Threads,   \* the request (IO) threads
          Key,       \* the addresses and ports: peerAddr().toIpPort()
          Limit,     \* RATE_LIMIT_REQUESTS, when the limiter is enabled
          Window,    \* RATE_LIMIT_WINDOW_SECONDS, in ticks
          MaxDelay,  \* the most ticks between reading the clock and the lock
          MaxTime    \* bound: the last tick of the clock

\* A limit of zero disables the limiter: allow() returns before anything else.
ASSUME LimiterAssumption ==
  /\ Limit \in Nat \ {0}
  /\ Window \in Nat \ {0}
  /\ MaxDelay \in Nat
  /\ MaxTime \in Nat

VARIABLES
  now,      \* the steady clock
  pc,       \* "idle", or "waiting" for the mutex with the time in sample
  key,      \* the key of the request a thread works on
  sample,   \* the local variable now of allow()
  requests, \* requests_: the time stamps of each key
  log       \* history: every admission of a key, its stamp and when it was made

vars == << now, pc, key, sample, requests, log >>

Init ==
  /\ now = 0
  /\ pc = [t \in Threads |-> "idle"]
  /\ key \in [Threads -> Key]
  /\ sample = [t \in Threads |-> 0]
  /\ requests = [k \in Key |-> << >>]
  /\ log = [k \in Key |-> << >>]

\* A request that is not for /health, /ready or /metrics reads the clock.
Arrive(t, k) ==
  /\ pc[t] = "idle"
  /\ pc' = [pc EXCEPT ![t] = "waiting"]
  /\ key' = [key EXCEPT ![t] = k]
  /\ sample' = [sample EXCEPT ![t] = now]
  /\ UNCHANGED << now, requests, log >>

\* Mutant: what is exactly as old as the window is still counted, which keeps
\* what is behind it, and may be older, as well.
FreshIndicesLate(q, n) == {i \in DOMAIN q : \E j \in 1..i : n - q[j] <= Window}

\* The loop pops from the front until it meets a stamp inside the window; what
\* is behind that stamp stays, whatever its age.
FreshIndices(q, n) == {i \in DOMAIN q : \E j \in 1..i : n - q[j] < Window}

Evict(q, n) ==
  LET fresh == FreshIndices(q, n)
  IN  SubSeq(q, Len(q) - Cardinality(fresh) + 1, Len(q))

Kept(t) == Evict(requests[key[t]], sample[t])

\* Mutant: one request more than the limit is let in.
FullOffByOne(t) == Len(Kept(t)) > Limit

Full(t) == Len(Kept(t)) >= Limit

Return(t) ==
  /\ pc' = [pc EXCEPT ![t] = "idle"]
  /\ sample' = [sample EXCEPT ![t] = 0]  \* the local is gone

Admit(t) ==
  /\ pc[t] = "waiting"
  /\ ~ Full(t)
  /\ requests' = [requests EXCEPT ![key[t]] = Append(Kept(t), sample[t])]
  /\ log' = [log EXCEPT ![key[t]] = Append(@, [stamp |-> sample[t], at |-> now])]
  /\ Return(t)
  /\ UNCHANGED << now, key >>

Refuse(t) ==
  /\ pc[t] = "waiting"
  /\ Full(t)
  /\ requests' = [requests EXCEPT ![key[t]] = Kept(t)]
  /\ Return(t)
  /\ UNCHANGED << now, key, log >>

Tick ==
  /\ now < MaxTime
  /\ \A t \in Threads : pc[t] = "waiting" => now - sample[t] < MaxDelay
  /\ now' = now + 1
  /\ UNCHANGED << pc, key, sample, requests, log >>

Next ==
  \/ \E t \in Threads : (\E k \in Key : Arrive(t, k)) \/ Admit(t) \/ Refuse(t)
  \/ Tick

Spec == Init /\ [][Next]_vars

-----------------------------------------------------------------------------
Admission == [stamp : Nat, at : Nat]

TypeOK ==
  /\ now \in Nat
  /\ pc \in [Threads -> {"idle", "waiting"}]
  /\ key \in [Threads -> Key]
  /\ sample \in [Threads -> Nat]
  /\ requests \in [Key -> Seq(Nat)]
  /\ \A k \in Key : Len(requests[k]) <= Limit
  /\ log \in [Key -> Seq(Admission)]

\* A sliding window: among the admissions of one key, at most Limit were made
\* during the last window, shortened by how long a thread may wait for the
\* mutex.  Evictions by a thread that read a newer clock must not open room for
\* one that read an older one.
WindowBound ==
  \A k \in Key :
    Cardinality({i \in DOMAIN log[k] : log[k][i].at > now - (Window - MaxDelay)})
      <= Limit

\* A request is refused only when its key was admitted Limit times during the
\* window before it, lengthened by the same delay: stamps that are out of order
\* behind the front do not keep a client out for longer.
RefusalJustified ==
  [][\A t \in Threads : pc[t] = "waiting" /\ pc'[t] = "idle" /\ UNCHANGED log =>
       Cardinality({i \in DOMAIN log[key[t]] :
                      log[key[t]][i].stamp > sample[t] - Window - MaxDelay})
         >= Limit]_vars

-----------------------------------------------------------------------------
(* Strengthenings, which make the two properties inductive.                *)

\* The deque q of a key is the end of its log L, and what was popped is old.
Recent(q, L, n) ==
  /\ Len(q) <= Len(L)
  /\ \A i \in 1..Len(q) : q[i] = L[Len(L) - Len(q) + i].stamp
  /\ \A j \in 1..Len(L) : L[j].at <= L[j].stamp + MaxDelay
  /\ \A j \in 1..(Len(L) - Len(q)) : L[j].at <= n - (Window - MaxDelay)

DequeIsRecent == \A k \in Key : Recent(requests[k], log[k], now)

\* A log L is in the order of its admissions, none of them later than n or
\* stamped after it was made: what makes RefusalJustified hold.
InOrder(L, n) ==
  \A j \in 1..Len(L) :
    /\ L[j].stamp <= L[j].at
    /\ L[j].at <= n
    /\ \A i \in 1..j : L[i].at <= L[j].at

LogInOrder == \A k \in Key : InOrder(log[k], now)

SampleRecent ==
  \A t \in Threads : pc[t] = "waiting" => sample[t] <= now /\ now - sample[t] <= MaxDelay
=============================================================================
