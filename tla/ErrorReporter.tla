--------------------------- MODULE ErrorReporter ---------------------------
(***************************************************************************)
(* HttpErrorReporter (observability/ErrorReporter.cc): exceptions captured *)
(* on the request threads are queued, batched, and posted to a collector,  *)
(* with retries and a circuit breaker.                                     *)
(*                                                                         *)
(* The queue and timerId_ are guarded by queueMutex_, the breaker by its   *)
(* own mutex, and between two critical sections a thread holds only local  *)
(* values: pc says which critical section a thread enters next.  Timers,   *)
(* responses and retries are callbacks of the client's event loop, which   *)
(* is the main loop of the application (Loop); flush() is called there     *)
(* too, by the signal handlers of main.cc.                                 *)
(*                                                                         *)
(* An event is the number of the capture that made it; a batch is named    *)
(* by its first event.                                                     *)
(***************************************************************************)
EXTENDS Naturals, Sequences, FiniteSets, CircuitState

CONSTANTS Workers,       \* the request (IO) threads, which capture exceptions
          Loop,          \* the thread of the client's event loop
          MaxEvents,     \* bound: how many captures a behaviour has
          BatchSize,     \* OBSERVABILITY_BATCH_SIZE
          MaxQueueSize,  \* OBSERVABILITY_MAX_QUEUE_SIZE
          MaxAttempts,   \* OBSERVABILITY_RETRY_MAX_ATTEMPTS
          BuildThrows    \* whether building a payload may throw

\* What the constructor enforces of the settings it is given.
ASSUME SettingsAssumption ==
  /\ BatchSize \in Nat \ {0}
  /\ MaxQueueSize \in Nat \ {0}
  /\ MaxAttempts \in 1..10

ASSUME ModelAssumption ==
  /\ Loop \notin Workers
  /\ IsFiniteSet(Workers)
  /\ MaxEvents \in Nat
  /\ BuildThrows \in BOOLEAN

Threads == Workers \cup {Loop}
Event == 1..MaxEvents
Invalid == 0  \* trantor::InvalidTimerId; an armed timer has its event's number

VARIABLES
  queue,     \* queue_
  timerId,   \* timerId_
  timers,    \* the flush timers pending in the event loop
  pc,        \* the critical section a thread enters next
  batchOf,   \* the batch a thread in flushQueue() holds in its local events
  delivery,  \* the batches taken so far: their events and how they fared
  circuit,   \* circuit_
  captures,  \* how many exceptions have been captured
  metrics,   \* the observability counters of class Metrics
  lifecycle, \* of the process: "running", "draining" after a signal, "stopped"
  mark,      \* history: the captures made before the signal
  overtaken  \* history: the probes during whose delivery another batch's
             \* answer reached the breaker

vars == << queue, timerId, timers, pc, batchOf, delivery, circuit, captures,
           metrics, lifecycle, mark, overtaken >>

queueVars == << queue, timerId, timers >>
processVars == << captures, lifecycle, mark >>

Batch == [ events  : Seq(Event),
           state   : {"none", "taken", "counted", "rejected", "admitted",
                      "sending", "backoff", "delivered", "failed", "abandoned"},
           attempt : Nat,
           probe   : BOOLEAN ]

Counters == {"queued", "dropped", "batches", "batchEvents", "retries",
             "failures", "circuitOpen"}

NoBatch == [events |-> << >>, state |-> "none", attempt |-> 0, probe |-> FALSE]

Init ==
  /\ queue = << >>
  /\ timerId = Invalid
  /\ timers = {}
  /\ pc = [t \in Threads |-> "idle"]
  /\ batchOf = [t \in Threads |-> 0]
  /\ delivery = [b \in Event |-> NoBatch]
  /\ circuit = ClosedCircuit
  /\ captures = 0
  /\ metrics = [c \in Counters |-> 0]
  /\ lifecycle = "running"
  /\ mark = 0
  /\ overtaken = {}

Count(m, c) == [m EXCEPT ![c] = @ + 1]

Alive == lifecycle # "stopped"
BatchesIn(S) == {b \in Event : delivery[b].state \in S}
InFlight == {"admitted", "sending", "backoff"}
LoopIdle == Alive /\ pc[Loop] = "idle"  \* the event loop can run a callback

-----------------------------------------------------------------------------
(* captureException: one critical section of queueMutex_, then, when the   *)
(* batch is full, flushQueue() outside the lock.                           *)

NextEvent(w) ==
  /\ Alive
  /\ pc[w] = "idle"
  /\ captures < MaxEvents
  /\ captures' = captures + 1

\* Mutant: the capacity test lets one event too many in.
HasRoomOffByOne == Len(queue) <= MaxQueueSize

HasRoom == Len(queue) < MaxQueueSize

\* Mutant: the comparison with the batch size is strict.
CompletesBatchLate == Len(queue) >= BatchSize

CompletesBatch == Len(queue) + 1 >= BatchSize

Enqueue ==
  /\ HasRoom
  /\ queue' = Append(queue, captures + 1)
  /\ metrics' = Count(metrics, "queued")

CaptureDropped(w) ==
  /\ NextEvent(w)
  /\ ~ HasRoom
  /\ metrics' = Count(metrics, "dropped")
  /\ UNCHANGED << queueVars, pc, batchOf, delivery, circuit, lifecycle, mark,
                  overtaken >>

ArmTimer ==
  IF timerId = Invalid
    THEN timerId' = captures + 1 /\ timers' = timers \cup {captures + 1}
    ELSE UNCHANGED << timerId, timers >>

CaptureQueued(w) ==
  /\ NextEvent(w)
  /\ ~ CompletesBatch
  /\ Enqueue
  /\ ArmTimer
  /\ UNCHANGED << pc, batchOf, delivery, circuit, lifecycle, mark, overtaken >>

CaptureFull(w) ==
  /\ NextEvent(w)
  /\ CompletesBatch
  /\ Enqueue
  /\ pc' = [pc EXCEPT ![w] = "flush"]
  /\ UNCHANGED << timerId, timers, batchOf, delivery, circuit, lifecycle, mark,
                  overtaken >>

-----------------------------------------------------------------------------
(* flushQueue: take the whole queue under the lock, count the batch, ask   *)
(* the circuit for admission, and count its refusal, or build the request  *)
(* and hand it to deliver().  Each counter is an atomic of its own.        *)

TimerFires(i) ==
  /\ LoopIdle
  /\ i \in timers
  /\ timers' = timers \ {i}
  /\ pc' = [pc EXCEPT ![Loop] = "flush"]
  /\ UNCHANGED << queue, timerId, batchOf, delivery, circuit, metrics,
                  processVars, overtaken >>

\* Mutant: the flush leaves timerId_ as it is.
ForgetTimerNot == UNCHANGED timerId

\* The flush forgets the timer; it does not cancel it in the loop.
ForgetTimer == timerId' = Invalid

TakeNothing(t) ==
  /\ Alive
  /\ pc[t] = "flush"
  /\ queue = << >>
  /\ ForgetTimer
  /\ pc' = [pc EXCEPT ![t] = "idle"]
  /\ UNCHANGED << queue, timers, batchOf, delivery, circuit, metrics,
                  processVars, overtaken >>

\* Mutant: at most a batch is taken, the rest stays queued without a timer.
ClearQueuePartly == queue' = SubSeq(queue, BatchSize + 1, Len(queue))

ClearQueue == queue' = << >>

KeepEvents(t) == batchOf' = [batchOf EXCEPT ![t] = Head(queue)]

TakeQueue(t) ==
  /\ Alive
  /\ pc[t] = "flush"
  /\ queue # << >>
  /\ ForgetTimer
  /\ ClearQueue
  /\ KeepEvents(t)
  /\ delivery' = [delivery EXCEPT ![Head(queue)].events = queue,
                                  ![Head(queue)].state = "taken"]
  /\ pc' = [pc EXCEPT ![t] = "count"]
  /\ UNCHANGED << timers, circuit, metrics, processVars, overtaken >>

\* recordObservabilityBatch moves two counters, before the circuit is asked.
CountBatch(t) ==
  /\ Alive
  /\ pc[t] = "count"
  /\ metrics' = Count(metrics, "batches")
  /\ pc' = [pc EXCEPT ![t] = "size"]
  /\ UNCHANGED << queueVars, batchOf, delivery, circuit, processVars, overtaken >>

\* Mutant: the events are counted after they were moved away.
MovedSize(b) == Len(queue)

Size(b) == Len(delivery[b].events)

CountEvents(t) ==
  LET b == batchOf[t] IN
  /\ Alive
  /\ pc[t] = "size"
  /\ metrics' = [metrics EXCEPT !["batchEvents"] = @ + Size(b)]
  /\ delivery' = [delivery EXCEPT ![b].state = "counted"]
  /\ pc' = [pc EXCEPT ![t] = "admit"]
  /\ UNCHANGED << queueVars, batchOf, circuit, processVars, overtaken >>

Reject(t) ==
  /\ Alive
  /\ pc[t] = "admit"
  /\ ~ Allow(circuit)
  /\ delivery' = [delivery EXCEPT ![batchOf[t]].state = "rejected"]
  /\ pc' = [pc EXCEPT ![t] = "rejected"]
  /\ UNCHANGED << queueVars, batchOf, circuit, metrics, processVars, overtaken >>

CountRejected(t) ==
  /\ Alive
  /\ pc[t] = "rejected"
  /\ metrics' = Count(metrics, "circuitOpen")
  /\ pc' = [pc EXCEPT ![t] = "dropped"]
  /\ UNCHANGED << queueVars, batchOf, delivery, circuit, processVars, overtaken >>

\* One event for the whole batch.
CountDropped(t) ==
  /\ Alive
  /\ pc[t] = "dropped"
  /\ metrics' = Count(metrics, "dropped")
  /\ pc' = [pc EXCEPT ![t] = "idle"]
  /\ UNCHANGED << queueVars, batchOf, delivery, circuit, processVars, overtaken >>

\* The field probe is history: the admission set probeInFlight for this batch.
Admit(t) ==
  LET b == batchOf[t] IN
  /\ Alive
  /\ pc[t] = "admit"
  /\ Allow(circuit)
  /\ circuit' = AfterAllow(circuit)
  /\ delivery' = [delivery EXCEPT ![b].state = "admitted",
                                  ![b].probe = AfterAllow(circuit).probeInFlight]
  /\ pc' = [pc EXCEPT ![t] = "deliver"]
  /\ UNCHANGED << queueVars, batchOf, metrics, processVars, overtaken >>

\* payload() or an allocation throws; flushQueue() swallows the exception.
BuildFails(t) ==
  /\ Alive
  /\ BuildThrows
  /\ pc[t] = "deliver"
  /\ delivery' = [delivery EXCEPT ![batchOf[t]].state = "abandoned"]
  /\ pc' = [pc EXCEPT ![t] = "idle"]
  /\ UNCHANGED << queueVars, batchOf, circuit, metrics, processVars, overtaken >>

-----------------------------------------------------------------------------
(* deliver() and the callbacks it leaves in the event loop.                *)

\* Another batch's answer changes the breaker under the probe that is out.
ProbesOut == {b \in BatchesIn(InFlight) : delivery[b].probe}
Overtakes(b) == overtaken' = overtaken \cup (ProbesOut \ {b})

Attempt(b, s) ==
  [delivery EXCEPT ![b].state = s, ![b].attempt = delivery[b].attempt + 1]

Send(b) == delivery' = Attempt(b, "sending")

Fail(b) ==
  /\ delivery' = [delivery EXCEPT ![b].state = "failed"]
  /\ metrics' = Count(metrics, "failures")
  /\ circuit' = AfterFailure(circuit)
  /\ Overtakes(b)

\* sendRequest throws: a failure of the batch at once, whatever is left of its
\* attempts.
SendThrows(b) ==
  /\ delivery' = Attempt(b, "failed")
  /\ metrics' = Count(metrics, "failures")
  /\ circuit' = AfterFailure(circuit)
  /\ Overtakes(b)

Start(t) ==
  /\ Alive
  /\ pc[t] = "deliver"
  /\ pc' = [pc EXCEPT ![t] = "idle"]
  /\ \/ Send(batchOf[t]) /\ UNCHANGED << circuit, metrics, overtaken >>
     \/ SendThrows(batchOf[t])
  /\ UNCHANGED << queueVars, batchOf, processVars >>

Delivered(b) ==
  /\ LoopIdle
  /\ delivery[b].state = "sending"
  /\ delivery' = [delivery EXCEPT ![b].state = "delivered"]
  /\ circuit' = AfterSuccess(circuit)
  /\ Overtakes(b)
  /\ UNCHANGED << queueVars, pc, batchOf, metrics, processVars >>

MayRetry(b) == delivery[b].attempt < MaxAttempts

Retry(b) ==
  /\ LoopIdle
  /\ delivery[b].state = "sending"
  /\ MayRetry(b)
  /\ delivery' = [delivery EXCEPT ![b].state = "backoff"]
  /\ metrics' = Count(metrics, "retries")
  /\ UNCHANGED << queueVars, pc, batchOf, circuit, processVars, overtaken >>

Exhausted(b) ==
  /\ LoopIdle
  /\ delivery[b].state = "sending"
  /\ ~ MayRetry(b)
  /\ Fail(b)
  /\ UNCHANGED << queueVars, pc, batchOf, processVars >>

\* Mutant: a retry asks the circuit again, which refuses while a probe is out.
BackoffAsksCircuit(b) ==
  /\ LoopIdle
  /\ delivery[b].state = "backoff"
  /\ Allow(circuit)
  /\ \/ Send(b) /\ UNCHANGED << circuit, metrics, overtaken >>
     \/ SendThrows(b)
  /\ UNCHANGED << queueVars, pc, batchOf, processVars >>

BackoffEnds(b) ==
  /\ LoopIdle
  /\ delivery[b].state = "backoff"
  /\ \/ Send(b) /\ UNCHANGED << circuit, metrics, overtaken >>
     \/ SendThrows(b)
  /\ UNCHANGED << queueVars, pc, batchOf, processVars >>

\* The steady clock reaches openUntil.  The settings do not relate the pause to
\* how long a delivery can take: batches that were admitted before the circuit
\* opened may still be under way.
CooldownElapses ==
  /\ Alive
  /\ circuit.openUntil = "future"
  /\ circuit' = AfterCooldown(circuit)
  /\ UNCHANGED << queueVars, pc, batchOf, delivery, metrics, processVars, overtaken >>

-----------------------------------------------------------------------------
(* The signal handlers of runServer: flush on the loop, quit 250 ms later. *)

Signal ==
  /\ lifecycle = "running"
  /\ LoopIdle
  /\ lifecycle' = "draining"
  /\ mark' = captures
  /\ pc' = [pc EXCEPT ![Loop] = "flush"]
  /\ UNCHANGED << queueVars, batchOf, delivery, circuit, captures, metrics,
                  overtaken >>

Quit ==
  /\ lifecycle = "draining"
  /\ LoopIdle
  /\ lifecycle' = "stopped"
  /\ UNCHANGED << queueVars, pc, batchOf, delivery, circuit, captures,
                  metrics, mark, overtaken >>

-----------------------------------------------------------------------------
Capture(w) == CaptureDropped(w) \/ CaptureQueued(w) \/ CaptureFull(w)

FlushStep(t) ==
  \/ TakeNothing(t)
  \/ TakeQueue(t)
  \/ CountBatch(t)
  \/ CountEvents(t)
  \/ Reject(t)
  \/ CountRejected(t)
  \/ CountDropped(t)
  \/ Admit(t)
  \/ BuildFails(t)
  \/ Start(t)

Response(b) == Delivered(b) \/ Retry(b) \/ Exhausted(b)

Next ==
  \/ \E w \in Workers : Capture(w)
  \/ \E t \in Threads : FlushStep(t)
  \/ \E i \in Event : TimerFires(i)
  \/ \E b \in Event : Response(b) \/ BackoffEnds(b)
  \/ CooldownElapses
  \/ Signal
  \/ Quit

Spec == Init /\ [][Next]_vars

\* A thread inside flushQueue() is scheduled again, a timer set with runAfter
\* fires, the HTTP client answers every request (with a response or with an
\* error or timeout of its own), and the steady clock advances.  Nothing makes
\* a request thread capture an exception or a signal arrive.
Fairness ==
  /\ \A t \in Threads : WF_vars(FlushStep(t))
  /\ \A i \in Event : WF_vars(TimerFires(i))
  /\ \A b \in Event : WF_vars(Response(b)) /\ WF_vars(BackoffEnds(b))
  /\ WF_vars(CooldownElapses)

FairSpec == Spec /\ Fairness

-----------------------------------------------------------------------------
(* Properties.                                                             *)

Holding == {"count", "size", "admit", "deliver"}

TypeOK ==
  /\ queue \in Seq(Event)
  /\ timerId \in Event \cup {Invalid}
  /\ timers \subseteq Event
  /\ pc \in [Threads -> {"idle", "flush", "rejected", "dropped"} \cup Holding]
  /\ batchOf \in [Threads -> Event \cup {0}]
  /\ \A t \in Threads : pc[t] \in Holding => batchOf[t] # 0
  /\ delivery \in [Event -> Batch]
  /\ circuit \in Circuit
  /\ captures \in Nat
  /\ captures <= MaxEvents
  /\ metrics \in [Counters -> Nat]
  /\ lifecycle \in {"running", "draining", "stopped"}
  /\ mark \in Nat
  /\ overtaken \subseteq Event

EventsOf(s) == {s[i] : i \in DOMAIN s}
Flushing == {t \in Threads : pc[t] = "flush"}

\* A queued event is never left without somebody to flush it: as long as the
\* queue holds events, the timer in timerId_ is still pending in the loop or a
\* thread is about to enter the critical section of flushQueue().  flushQueue()
\* forgets timers without cancelling them and captureException() arms none
\* when it decides to flush, so both sides have to agree in every interleaving.
NoStrandedEvents ==
  queue # << >> => timerId \in timers \/ Flushing # {}

\* "Events are buffered briefly and delivered in bounded batches".  The bound is
\* not the batch size: the capture that completes a batch flushes outside the
\* lock, and each other request thread may get one more event in before it.
BatchesBounded ==
  \A b \in Event :
    /\ Len(delivery[b].events) <= MaxQueueSize
    /\ Len(delivery[b].events) <= BatchSize - 1 + Cardinality(Workers)

\* The breaker is open or half-open exactly from the failure that reaches the
\* threshold to the next success, and a probe is only out once the pause is
\* over.  Responses of several batches reach the breaker in any order.
CircuitCoherent ==
  /\ circuit.openUntil # "unset" <=> circuit.failures >= FailureThreshold
  /\ circuit.probeInFlight => circuit.openUntil = "past"

\* While probeInFlight is set and keeps every other batch out, there is a batch
\* admitted as a probe whose outcome will clear it: if not, the half-open
\* circuit refuses forever ("then permits one recovery probe").
ProbeFlagOwned ==
  circuit.probeInFlight => \E b \in BatchesIn(InFlight) : delivery[b].probe

\* "... then permits one recovery probe": of the batches that were admitted as
\* probes, a second one is out only when another batch's answer reached the
\* breaker during the delivery of the first.  Answers do not say to whom they
\* are an answer, and a pause may end before the batches that were admitted
\* before it; without such an answer two probes are never out at once.
OneProbeUnlessOvertaken == Cardinality(ProbesOut \ overtaken) <= 1

-----------------------------------------------------------------------------
(* Strengthenings, which make the properties above inductive.              *)

\* timerId_ never outlives its timer unnoticed: a timer that fired has its
\* flush still ahead, which resets timerId_.  A capture that finds timerId_
\* valid may rely on that timer.
TimerIdLive == timerId # Invalid => timerId \in timers \/ pc[Loop] = "flush"

\* After the signal, what was captured before it is in the queue only until the
\* handler's flush.
FlushedAtSignal ==
  /\ mark <= captures
  /\ lifecycle # "running" /\ pc[Loop] # "flush" =>
       \A e \in EventsOf(queue) : e > mark

\* The queue exceeds BatchSize - 1 by as many events as there are request
\* threads on their way into flushQueue(), and never by more.
Completing == {w \in Workers : pc[w] = "flush"}

QueueBounded ==
  /\ Len(queue) <= MaxQueueSize
  /\ Len(queue) <= BatchSize - 1 + Cardinality(Completing)

\* Every thread past the queue's critical section has a batch of its own, and
\* that batch has come as far as the thread.
Ownership ==
  /\ \A t \in Threads :
       /\ pc[t] \in {"count", "size"} => delivery[batchOf[t]].state = "taken"
       /\ pc[t] = "admit" => delivery[batchOf[t]].state = "counted"
       /\ pc[t] = "deliver" => delivery[batchOf[t]].state = "admitted"
  /\ \A t, u \in Threads :
       t # u /\ pc[t] \in Holding /\ pc[u] \in Holding => batchOf[t] # batchOf[u]

\* Queued events and events to come name no batch yet.
Freshness ==
  /\ \A i \in DOMAIN queue :
       queue[i] <= captures /\ delivery[queue[i]].state = "none"
  /\ \A b \in Event : b > captures => delivery[b].state = "none"

\* A probe that nothing has overtaken still has the flag, in a half-open circuit,
\* and so is the only one.
SoloProbe ==
  \A b, c \in ProbesOut \ overtaken :
    circuit.openUntil = "past" /\ circuit.probeInFlight /\ b = c

-----------------------------------------------------------------------------
(* Properties of the counters, of shutdown, and liveness.                  *)

\* The sum of f over all batches, as a number of pairs.
Pairs(f) == UNION {{b} \X (1..f[b]) : b \in Event}
Total(f) == Cardinality(Pairs(f))

\* recordObservabilityBatch has counted its events, and no event comes back.
CountedStates == {"counted", "rejected", "delivered", "failed", "abandoned"} \cup InFlight

Sizes(S) ==
  [b \in Event |-> IF b \in BatchesIn(S) THEN Len(delivery[b].events) ELSE 0]

\* How often a batch has been, or is about to be, sent again.
Resends ==
  [b \in Event |-> IF delivery[b].attempt = 0 THEN 0
                   ELSE delivery[b].attempt - 1
                        + IF delivery[b].state = "backoff" THEN 1 ELSE 0]

At(S) == Cardinality({t \in Threads : pc[t] \in S})

\* What the counters account for, as the code moves them and at any moment of it:
\* captured events are queued or dropped, and one more is dropped for each batch
\* that the circuit rejects; queued events are in the queue, in a batch that is
\* not counted yet, or counted, whatever becomes of the batch; and the retry and
\* failure counters agree with how the batches fared.  A thread that has moved
\* one of two counters is the only reason for them to disagree.  The HELP texts
\* (Observability.cc:119-131) say less: "sent" counts rejected batches too, and
\* "dropped due to queue pressure" is captures that found the queue full and
\* rejected batches, added up.
MetricsBalance ==
  /\ captures + metrics.circuitOpen = metrics.queued + metrics.dropped + At({"dropped"})
  /\ metrics.circuitOpen + At({"rejected"}) = Cardinality(BatchesIn({"rejected"}))
  /\ metrics.queued = Len(queue) + Total(Sizes({"taken"})) + metrics.batchEvents
  /\ metrics.batchEvents = Total(Sizes(CountedStates))
  /\ metrics.batches = Cardinality(BatchesIn(CountedStates)) + At({"size"})
  /\ metrics.failures = Cardinality(BatchesIn({"failed"}))
  /\ metrics.retries = Total(Resends)

\* What makes it inductive: a batch is sent first when a thread starts it, and
\* only what was sent waits for an answer or for a retry.
Unsent == {"none", "taken", "counted", "rejected", "admitted", "abandoned"}

Accounted ==
  /\ \A b \in Event :
       /\ delivery[b].state \in Unsent => delivery[b].attempt = 0
       /\ delivery[b].state \in {"sending", "backoff"} => delivery[b].attempt # 0
  /\ IsFiniteSet(Pairs(Sizes({"taken"}))) /\ IsFiniteSet(Pairs(Sizes(CountedStates)))
  /\ IsFiniteSet(Pairs(Resends))
  /\ MetricsBalance

\* "SIGTERM and SIGINT trigger a bounded flush window before the Drogon event
\* loop exits": once the handler's flush is over, and still when the loop
\* quits, no exception captured before the signal waits in the queue.
ShutdownFlush ==
  lifecycle # "running" /\ pc[Loop] = "idle" =>
    \A e \in EventsOf(queue) : e > mark

\* Every captured exception that was queued leaves the queue, unless the
\* process stops first.
QueueDrains ==
  \A e \in Event :
    e \in EventsOf(queue) ~> e \notin EventsOf(queue) \/ lifecycle = "stopped"

\* Every batch taken from the queue is settled: rejected, delivered, or failed
\* after its attempts; delivery is bounded.
BatchesSettle ==
  \A b \in Event :
    delivery[b].state # "none" ~>
      \/ delivery[b].state \in {"rejected", "delivered", "failed"}
      \/ lifecycle = "stopped"

\* An open circuit comes to admit batches again: its pause ends, and whatever
\* becomes of the probe, it is not held by it for ever.
CircuitRecovers ==
  [](circuit.openUntil # "unset" => <>(Allow(circuit) \/ lifecycle = "stopped"))

-----------------------------------------------------------------------------
(* The reporter implements the abstract exporter: what a queue, a thread   *)
(* inside flushQueue() and a delivery hold is what is waiting and being    *)
(* exported, and every other captured event has been given up.             *)

Waiting == EventsOf(queue)
Exporting == {"taken", "counted"} \cup InFlight
EventsIn(S) == UNION {EventsOf(delivery[b].events) : b \in BatchesIn(S)}
Exports == {EventsOf(delivery[b].events) : b \in BatchesIn(Exporting)}
GivenUp == (1..captures) \ (Waiting \cup EventsIn(Exporting \cup {"delivered"}))

Exporter == INSTANCE EventExport WITH
  Capacity  <- MaxQueueSize,
  waiting   <- Waiting,
  exports   <- Exports,
  delivered <- EventsIn({"delivered"}),
  discarded <- GivenUp

\* The queue, the batches and their outcomes behave as EventExport promises:
\* whole queues leave, each batch is settled once, and an event is discarded
\* only at a full queue or with its whole batch.
ImplementsEventExport == Exporter!Spec

\* What makes the mapping one: an event is queued once, or in one batch, and a
\* batch has the event that names it.
Apart ==
  /\ IsFiniteSet(Waiting) /\ Cardinality(Waiting) = Len(queue)
  /\ Waiting \subseteq 1..captures
  /\ \A b \in Event : delivery[b].state # "none" =>
       /\ b \in EventsOf(delivery[b].events)
       /\ EventsOf(delivery[b].events) \subseteq (1..captures) \ Waiting
       /\ \A c \in Event \ {b} : delivery[c].state # "none" =>
            EventsOf(delivery[b].events) \cap EventsOf(delivery[c].events) = {}
=============================================================================
