------------------------ MODULE ErrorReporterProofs ------------------------
(***************************************************************************)
(* Proofs about ErrorReporter, for any number of threads, any settings and *)
(* any number of captures.                                                 *)
(***************************************************************************)
EXTENDS ErrorReporter, FiniteSetTheorems, TLAPS

-----------------------------------------------------------------------------
(* Types.                                                                  *)

\* Counting keeps the counters counters.
LEMMA CountType ==
  ASSUME NEW m \in [Counters -> Nat], NEW c \in Counters
  PROVE  Count(m, c) \in [Counters -> Nat]
  BY DEF Count

\* Counting the events of a batch keeps the counters natural numbers.
LEMMA SizeType ==
  ASSUME TypeOK, NEW b \in Event
  PROVE  [metrics EXCEPT !["batchEvents"] = @ + Size(b)] \in [Counters -> Nat]
<1>1. "batchEvents" \in Counters
  BY DEF Counters
<1>2. Len(delivery[b].events) \in Nat
  BY DEF TypeOK, Batch
<1> QED
  BY <1>1, <1>2 DEF Size, TypeOK

\* What an answer overtakes are batches.
LEMMA OvertakenType ==
  ASSUME TypeOK, NEW b, Overtakes(b)
  PROVE  overtaken' \subseteq Event
  BY DEF Overtakes, ProbesOut, BatchesIn, TypeOK

\* What the members of the breaker do to it keeps it a circuit.
LEMMA CircuitType ==
  ASSUME NEW c \in Circuit
  PROVE  /\ AfterAllow(c) \in Circuit
         /\ AfterSuccess(c) \in Circuit
         /\ AfterFailure(c) \in Circuit
         /\ AfterCooldown(c) \in Circuit
<1>1. AfterAllow(c) \in Circuit
  BY DEF AfterAllow, Circuit
<1>2. AfterSuccess(c) \in Circuit
  BY DEF AfterSuccess, ClosedCircuit, Circuit
<1>3. AfterFailure(c) \in Circuit
  BY DEF AfterFailure, Circuit
<1>4. AfterCooldown(c) \in Circuit
  BY DEF AfterCooldown, Circuit
<1> QED
  BY <1>1, <1>2, <1>3, <1>4

\* What the handlers do to a batch keeps it one.
LEMMA BatchType ==
  ASSUME delivery \in [Event -> Batch], NEW b \in Event
  PROVE  /\ \A s \in {"counted", "rejected", "backoff", "delivered", "failed", "abandoned"} :
              [delivery EXCEPT ![b].state = s] \in [Event -> Batch]
         /\ \A s \in {"sending", "failed"} : Attempt(b, s) \in [Event -> Batch]
         /\ \A p \in BOOLEAN :
              [delivery EXCEPT ![b].state = "admitted", ![b].probe = p]
                \in [Event -> Batch]
         /\ \A q \in Seq(Event) :
              [delivery EXCEPT ![b].events = q, ![b].state = "taken"]
                \in [Event -> Batch]
<1>1. ASSUME NEW s \in {"counted", "rejected", "backoff", "delivered", "failed", "abandoned"}
      PROVE  [delivery EXCEPT ![b].state = s] \in [Event -> Batch]
  BY DEF Batch
<1>2. ASSUME NEW s \in {"sending", "failed"}
      PROVE  Attempt(b, s) \in [Event -> Batch]
  <2>1. delivery[b].attempt + 1 \in Nat
    BY DEF Batch
  <2> QED
    BY <2>1 DEF Attempt, Batch
<1>3. ASSUME NEW p \in BOOLEAN
      PROVE  [delivery EXCEPT ![b].state = "admitted", ![b].probe = p]
               \in [Event -> Batch]
  BY DEF Batch
<1>4. ASSUME NEW q \in Seq(Event)
      PROVE  [delivery EXCEPT ![b].events = q, ![b].state = "taken"]
               \in [Event -> Batch]
  BY DEF Batch
<1> QED
  BY <1>1, <1>2, <1>3, <1>4

\* The reporter starts well-typed.
LEMMA TypeInit == Init => TypeOK
  BY ModelAssumption
     DEF Init, TypeOK, NoBatch, Batch, ClosedCircuit, Circuit, Invalid, Holding

\* Every step of a request thread, of the event loop and of time keeps the types.
LEMMA TypeStep == TypeOK /\ [Next]_vars => TypeOK'
<1> SUFFICES ASSUME TypeOK, [Next]_vars PROVE TypeOK'
  OBVIOUS
<1>c. /\ "queued" \in Counters /\ "dropped" \in Counters
      /\ "retries" \in Counters /\ "failures" \in Counters
      /\ "circuitOpen" \in Counters /\ "batches" \in Counters
  BY DEF Counters
<1>t. ASSUME NEW t \in Threads, pc[t] \in Holding
      PROVE  batchOf[t] \in Event
  BY <1>t DEF TypeOK
<1>k. {"count", "size", "admit", "deliver"} \subseteq Holding
      /\ "idle" \notin Holding /\ "flush" \notin Holding
      /\ "rejected" \notin Holding /\ "dropped" \notin Holding
  BY DEF Holding
<1>h. ASSUME queue # << >> PROVE Head(queue) \in Event /\ Head(queue) # 0
  <2>1. Head(queue) \in Event
    BY <1>h DEF TypeOK
  <2> QED
    BY <2>1 DEF Event
<1>1. ASSUME NEW w \in Workers, CaptureDropped(w) PROVE TypeOK'
  <2>1. metrics' \in [Counters -> Nat]
    BY <1>1, <1>c, CountType DEF CaptureDropped, TypeOK
  <2> QED
    BY <1>1, <2>1, ModelAssumption
       DEF CaptureDropped, NextEvent, queueVars, TypeOK
<1>2. ASSUME NEW w \in Workers, NextEvent(w), Enqueue
      PROVE  /\ captures' \in Nat /\ captures' <= MaxEvents
             /\ queue' \in Seq(Event)
             /\ metrics' \in [Counters -> Nat]
             /\ captures + 1 \in Event
  <2>1. captures' \in Nat /\ captures' <= MaxEvents /\ captures + 1 \in Event
    BY <1>2, ModelAssumption DEF NextEvent, TypeOK, Event
  <2>2. queue' \in Seq(Event)
    BY <1>2, <2>1 DEF Enqueue, TypeOK
  <2>3. metrics' \in [Counters -> Nat]
    BY <1>2, <1>c, CountType DEF Enqueue, TypeOK
  <2> QED
    BY <2>1, <2>2, <2>3
<1>3. ASSUME NEW w \in Workers, CaptureQueued(w) PROVE TypeOK'
  BY <1>2, <1>3 DEF CaptureQueued, ArmTimer, TypeOK
<1>4. ASSUME NEW w \in Workers, CaptureFull(w) PROVE TypeOK'
  BY <1>2, <1>4, <1>k DEF CaptureFull, TypeOK
<1>5. ASSUME NEW t \in Threads, TakeNothing(t) PROVE TypeOK'
  BY <1>5, <1>k DEF TakeNothing, ForgetTimer, processVars, TypeOK
<1>6. ASSUME NEW t \in Threads, TakeQueue(t) PROVE TypeOK'
  <2>1. delivery' \in [Event -> Batch]
    BY <1>6, <1>h, BatchType DEF TakeQueue, KeepEvents, TypeOK
  <2> QED
    BY <1>6, <1>h, <1>k, <2>1
       DEF TakeQueue, KeepEvents, ForgetTimer, ClearQueue, processVars, TypeOK
<1>7. ASSUME NEW t \in Threads, Reject(t) PROVE TypeOK'
  <2>1. delivery' \in [Event -> Batch]
    BY <1>7, <1>t, <1>k, BatchType DEF Reject, TypeOK
  <2> QED
    BY <1>7, <1>k, <2>1 DEF Reject, queueVars, processVars, TypeOK
<1>8. ASSUME NEW t \in Threads, Admit(t) PROVE TypeOK'
  <2>1. circuit' \in Circuit
    BY <1>8, CircuitType DEF Admit, TypeOK
  <2>2. delivery' \in [Event -> Batch]
    <3>1. AfterAllow(circuit).probeInFlight \in BOOLEAN
      BY CircuitType DEF TypeOK, Circuit
    <3> QED
      BY <1>8, <1>t, <1>k, <3>1, BatchType DEF Admit, TypeOK
  <2> QED
    BY <1>8, <1>k, <2>1, <2>2 DEF Admit, queueVars, processVars, TypeOK
<1>21. ASSUME NEW t \in Threads, CountBatch(t) PROVE TypeOK'
  <2>1. metrics' \in [Counters -> Nat]
    BY <1>21, <1>c, CountType DEF CountBatch, TypeOK
  <2> QED
    BY <1>21, <1>k, <2>1 DEF CountBatch, queueVars, processVars, TypeOK
<1>22. ASSUME NEW t \in Threads, CountEvents(t) PROVE TypeOK'
  <2>1. delivery' \in [Event -> Batch] /\ metrics' \in [Counters -> Nat]
    BY <1>22, <1>t, <1>k, BatchType, SizeType DEF CountEvents, TypeOK
  <2> QED
    BY <1>22, <1>k, <2>1 DEF CountEvents, queueVars, processVars, TypeOK
<1>23. ASSUME NEW t \in Threads, CountRejected(t) PROVE TypeOK'
  <2>1. metrics' \in [Counters -> Nat]
    BY <1>23, <1>c, CountType DEF CountRejected, TypeOK
  <2> QED
    BY <1>23, <1>k, <2>1 DEF CountRejected, queueVars, processVars, TypeOK
<1>24. ASSUME NEW t \in Threads, CountDropped(t) PROVE TypeOK'
  <2>1. metrics' \in [Counters -> Nat]
    BY <1>24, <1>c, CountType DEF CountDropped, TypeOK
  <2> QED
    BY <1>24, <1>k, <2>1 DEF CountDropped, queueVars, processVars, TypeOK
<1>9. ASSUME NEW t \in Threads, BuildFails(t) PROVE TypeOK'
  <2>1. delivery' \in [Event -> Batch]
    BY <1>9, <1>t, <1>k, BatchType DEF BuildFails, TypeOK
  <2> QED
    BY <1>9, <1>k, <2>1 DEF BuildFails, queueVars, processVars, TypeOK
<1>10. ASSUME NEW b \in Event,
              \/ Send(b) /\ UNCHANGED << circuit, metrics, overtaken >>
              \/ SendThrows(b)
       PROVE  /\ delivery' \in [Event -> Batch]
              /\ metrics' \in [Counters -> Nat]
              /\ circuit' \in Circuit
              /\ overtaken' \subseteq Event
  <2>1. CASE Send(b) /\ UNCHANGED << circuit, metrics, overtaken >>
    BY <2>1, BatchType DEF Send, TypeOK
  <2>2. CASE SendThrows(b)
    <3>1. delivery' \in [Event -> Batch]
      BY <2>2, BatchType DEF SendThrows, TypeOK
    <3>2. metrics' \in [Counters -> Nat]
      BY <2>2, <1>c, CountType DEF SendThrows, TypeOK
    <3>3. circuit' \in Circuit
      BY <2>2, CircuitType DEF SendThrows, TypeOK
    <3>4. overtaken' \subseteq Event
      BY <2>2, OvertakenType DEF SendThrows
    <3> QED
      BY <3>1, <3>2, <3>3, <3>4
  <2> QED
    BY <1>10, <2>1, <2>2
<1>11. ASSUME NEW t \in Threads, Start(t) PROVE TypeOK'
  <2>1. batchOf[t] \in Event
    BY <1>11, <1>t, <1>k DEF Start
  <2> QED
    BY <1>10, <1>11, <1>k, <2>1 DEF Start, queueVars, processVars, TypeOK
<1>12. ASSUME NEW i \in Event, TimerFires(i) PROVE TypeOK'
  BY <1>12, <1>k DEF TimerFires, processVars, TypeOK
<1>13. ASSUME NEW b \in Event, Delivered(b) PROVE TypeOK'
  <2>1. /\ delivery' \in [Event -> Batch] /\ circuit' \in Circuit
        /\ overtaken' \subseteq Event
    BY <1>13, BatchType, CircuitType, OvertakenType DEF Delivered, TypeOK
  <2> QED
    BY <1>13, <2>1 DEF Delivered, queueVars, processVars, TypeOK
<1>14. ASSUME NEW b \in Event, Retry(b) PROVE TypeOK'
  <2>1. delivery' \in [Event -> Batch] /\ metrics' \in [Counters -> Nat]
    BY <1>14, <1>c, BatchType, CountType DEF Retry, TypeOK
  <2> QED
    BY <1>14, <2>1 DEF Retry, queueVars, processVars, TypeOK
<1>15. ASSUME NEW b \in Event, Exhausted(b) PROVE TypeOK'
  <2>1. /\ delivery' \in [Event -> Batch]
        /\ metrics' \in [Counters -> Nat]
        /\ circuit' \in Circuit
        /\ overtaken' \subseteq Event
    BY <1>15, <1>c, BatchType, CountType, CircuitType, OvertakenType
       DEF Exhausted, Fail, TypeOK
  <2> QED
    BY <1>15, <2>1 DEF Exhausted, queueVars, processVars, TypeOK
<1>16. ASSUME NEW b \in Event, BackoffEnds(b) PROVE TypeOK'
  BY <1>10, <1>16 DEF BackoffEnds, queueVars, processVars, TypeOK
<1>17. CASE CooldownElapses
  BY <1>17, CircuitType DEF CooldownElapses, queueVars, processVars, TypeOK
<1>18. CASE Signal
  BY <1>18, <1>k DEF Signal, queueVars, TypeOK
<1>19. CASE Quit
  BY <1>19 DEF Quit, queueVars, TypeOK
<1>20. CASE UNCHANGED vars
  BY <1>20 DEF vars, TypeOK
<1> QED
  BY <1>1, <1>3, <1>4, <1>5, <1>6, <1>7, <1>8, <1>9, <1>11, <1>12, <1>13,
     <1>14, <1>15, <1>16, <1>17, <1>18, <1>19, <1>20, <1>21, <1>22, <1>23, <1>24
     DEF Next, Capture, FlushStep, Response

\* The reporter is type-correct, and a thread past the queue's critical section
\* holds a batch.
THEOREM TypeCorrect == Spec => []TypeOK
  BY TypeInit, TypeStep, PTL DEF Spec

-----------------------------------------------------------------------------
(* The queue is never stranded.                                            *)

\* At the start nothing is queued and no timer is known.
LEMMA StrandedInit == Init => NoStrandedEvents /\ TimerIdLive
  BY DEF Init, NoStrandedEvents, TimerIdLive, Invalid

\* The steps of a thread past the critical section of the queue, and of the
\* event loop, that leave the queue, the timers and the flushing threads alone.
Elsewhere ==
  /\ UNCHANGED queueVars
  /\ \A t \in Threads : pc'[t] = "flush" <=> pc[t] = "flush"

\* Every step is one of those that matter to the queue or leaves it alone.
LEMMA StepsOfQueue ==
  ASSUME TypeOK, [Next]_vars
  PROVE  \/ \E w \in Workers : CaptureQueued(w) \/ CaptureFull(w)
         \/ \E t \in Threads : TakeNothing(t) \/ TakeQueue(t)
         \/ \E i \in Event : TimerFires(i)
         \/ Signal
         \/ Elsewhere
<1>1. ASSUME NEW w \in Workers, CaptureDropped(w) PROVE Elsewhere
  BY <1>1 DEF CaptureDropped, Elsewhere
<1>2. ASSUME NEW t \in Threads, Reject(t) PROVE Elsewhere
  BY <1>2 DEF Reject, Elsewhere, TypeOK
<1>8. ASSUME NEW t \in Threads,
             CountBatch(t) \/ CountEvents(t) \/ CountRejected(t) \/ CountDropped(t)
      PROVE  Elsewhere
  BY <1>8 DEF CountBatch, CountEvents, CountRejected, CountDropped, Elsewhere, TypeOK
<1>3. ASSUME NEW t \in Threads, Admit(t) PROVE Elsewhere
  BY <1>3 DEF Admit, Elsewhere, TypeOK
<1>4. ASSUME NEW t \in Threads, BuildFails(t) PROVE Elsewhere
  BY <1>4 DEF BuildFails, Elsewhere, TypeOK
<1>5. ASSUME NEW t \in Threads, Start(t) PROVE Elsewhere
  BY <1>5 DEF Start, Elsewhere, TypeOK
<1>6. ASSUME NEW b \in Event, Response(b) \/ BackoffEnds(b) PROVE Elsewhere
  BY <1>6 DEF Response, Delivered, Retry, Exhausted, BackoffEnds, Elsewhere
<1>7. ASSUME CooldownElapses \/ Quit \/ UNCHANGED vars PROVE Elsewhere
  BY <1>7 DEF CooldownElapses, Quit, vars, Elsewhere, queueVars
<1> QED
  BY <1>1, <1>2, <1>3, <1>4, <1>5, <1>6, <1>7, <1>8 DEF Next, Capture, FlushStep

\* No step leaves queued events without a live timer or a flushing thread, nor
\* lets timerId_ name a timer that is gone.
LEMMA StrandedStep ==
  ASSUME TypeOK, NoStrandedEvents, TimerIdLive, [Next]_vars
  PROVE  NoStrandedEvents' /\ TimerIdLive'
<1> USE DEF NoStrandedEvents, TimerIdLive, Flushing
<1>l. Loop \in Threads /\ Workers \subseteq Threads
  BY DEF Threads
<1>1. ASSUME NEW w \in Workers, CaptureQueued(w)
      PROVE  NoStrandedEvents' /\ TimerIdLive'
  <2>1. timerId' \in timers' \/ pc'[Loop] = "flush"
    BY <1>1 DEF CaptureQueued, ArmTimer
  <2> QED
    BY <2>1, <1>l
<1>2. ASSUME NEW w \in Workers, CaptureFull(w)
      PROVE  NoStrandedEvents' /\ TimerIdLive'
  <2>1. pc'[w] = "flush"
    BY <1>2, <1>l DEF CaptureFull, TypeOK
  <2>2. TimerIdLive'
    <3>1. Loop # w
      BY ModelAssumption
    <3> QED
      BY <1>2, <3>1 DEF CaptureFull, TypeOK
  <2> QED
    BY <2>1, <2>2, <1>l
<1>3. ASSUME NEW t \in Threads, TakeNothing(t)
      PROVE  NoStrandedEvents' /\ TimerIdLive'
  BY <1>3 DEF TakeNothing, ForgetTimer
<1>4. ASSUME NEW t \in Threads, TakeQueue(t)
      PROVE  NoStrandedEvents' /\ TimerIdLive'
  BY <1>4 DEF TakeQueue, ForgetTimer, ClearQueue
<1>5. ASSUME NEW i \in Event, TimerFires(i)
      PROVE  NoStrandedEvents' /\ TimerIdLive'
  <2>1. pc'[Loop] = "flush"
    BY <1>5, <1>l DEF TimerFires, TypeOK
  <2> QED
    BY <2>1, <1>l
<1>6. CASE Signal
  <2>1. pc'[Loop] = "flush"
    BY <1>6, <1>l DEF Signal, TypeOK
  <2> QED
    BY <2>1, <1>l
<1>7. CASE Elsewhere
  BY <1>7, <1>l DEF Elsewhere, queueVars
<1> QED
  BY StepsOfQueue, <1>1, <1>2, <1>3, <1>4, <1>5, <1>6, <1>7

\* No interleaving of captures, flushes and timers leaves an event in the queue
\* with neither a timer nor a flushing thread to take it.
THEOREM NeverStranded == Spec => []NoStrandedEvents
<1>1. Init => TypeOK /\ NoStrandedEvents /\ TimerIdLive
  BY TypeInit, StrandedInit
<1>2. TypeOK /\ NoStrandedEvents /\ TimerIdLive /\ [Next]_vars
        => (TypeOK /\ NoStrandedEvents /\ TimerIdLive)'
  BY TypeStep, StrandedStep
<1> QED
  BY <1>1, <1>2, PTL DEF Spec

-----------------------------------------------------------------------------
(* The flush of a shutdown.                                                *)

\* A step that is neither a capture, nor the taking of a queue, nor the start of
\* the loop's flush.
Aside ==
  /\ UNCHANGED << queue, captures, mark >>
  /\ pc'[Loop] = "flush" <=> pc[Loop] = "flush"
  /\ lifecycle' = "running" <=> lifecycle = "running"

\* The steps that the flush of a shutdown has to do with.
LEMMA StepsOfShutdown ==
  ASSUME TypeOK, [Next]_vars
  PROVE  \/ \E w \in Workers : CaptureQueued(w) \/ CaptureFull(w)
         \/ \E w \in Workers : CaptureDropped(w)
         \/ \E t \in Threads : TakeNothing(t) \/ TakeQueue(t)
         \/ \E i \in Event : TimerFires(i)
         \/ Signal
         \/ Aside
<1>l. Loop \in Threads
  BY DEF Threads
<1>1. ASSUME NEW t \in Threads, Reject(t) PROVE Aside
  BY <1>1, <1>l DEF Reject, Aside, TypeOK, queueVars, processVars
<1>7. ASSUME NEW t \in Threads,
             CountBatch(t) \/ CountEvents(t) \/ CountRejected(t) \/ CountDropped(t)
      PROVE  Aside
  BY <1>7, <1>l DEF CountBatch, CountEvents, CountRejected, CountDropped, Aside, TypeOK,
                    queueVars, processVars
<1>2. ASSUME NEW t \in Threads, Admit(t) PROVE Aside
  BY <1>2, <1>l DEF Admit, Aside, TypeOK, queueVars, processVars
<1>3. ASSUME NEW t \in Threads, BuildFails(t) PROVE Aside
  BY <1>3, <1>l DEF BuildFails, Aside, TypeOK, queueVars, processVars
<1>4. ASSUME NEW t \in Threads, Start(t) PROVE Aside
  BY <1>4, <1>l DEF Start, Aside, TypeOK, queueVars, processVars
<1>5. ASSUME NEW b \in Event, Response(b) \/ BackoffEnds(b) PROVE Aside
  BY <1>5 DEF Response, Delivered, Retry, Exhausted, BackoffEnds, Aside,
              queueVars, processVars
<1>6. ASSUME CooldownElapses \/ Quit \/ UNCHANGED vars PROVE Aside
  BY <1>6 DEF CooldownElapses, Quit, vars, Aside, queueVars, processVars
<1> QED
  BY <1>1, <1>2, <1>3, <1>4, <1>5, <1>6, <1>7 DEF Next, Capture, FlushStep

\* Whatever is captured after the signal, the loop's flush takes all that was
\* captured before it.
LEMMA ShutdownStep ==
  ASSUME TypeOK, FlushedAtSignal, [Next]_vars
  PROVE  FlushedAtSignal'
<1>l. Loop \in Threads /\ Workers \subseteq Threads /\ Loop \notin Workers
  BY ModelAssumption DEF Threads
<1>t. captures \in Nat /\ mark \in Nat
  BY DEF TypeOK
<1>1. ASSUME NEW w \in Workers, CaptureQueued(w) \/ CaptureFull(w)
      PROVE  FlushedAtSignal'
  <2>1. /\ captures' = captures + 1 /\ queue' = Append(queue, captures + 1)
        /\ mark' = mark /\ lifecycle' = lifecycle /\ pc'[Loop] = pc[Loop]
    BY <1>1, <1>l DEF CaptureQueued, CaptureFull, NextEvent, Enqueue, TypeOK
  <2>2. \A e \in EventsOf(queue') : e \in EventsOf(queue) \/ e = captures + 1
    BY <2>1 DEF EventsOf, TypeOK
  <2> QED
    BY <1>t, <2>1, <2>2 DEF FlushedAtSignal
<1>2. ASSUME NEW w \in Workers, CaptureDropped(w) PROVE FlushedAtSignal'
  BY <1>2, <1>t DEF CaptureDropped, NextEvent, queueVars, FlushedAtSignal
<1>3. ASSUME NEW t \in Threads, TakeNothing(t) \/ TakeQueue(t)
      PROVE  FlushedAtSignal'
  <2>1. queue' = << >> /\ mark' = mark /\ captures' = captures
    BY <1>3 DEF TakeNothing, TakeQueue, ClearQueue, processVars
  <2>2. EventsOf(queue') = {}
    BY <2>1 DEF EventsOf
  <2> QED
    BY <2>1, <2>2 DEF FlushedAtSignal
<1>4. ASSUME NEW i \in Event, TimerFires(i) PROVE FlushedAtSignal'
  BY <1>4, <1>l DEF TimerFires, processVars, TypeOK, FlushedAtSignal
<1>5. CASE Signal
  BY <1>5, <1>l, <1>t DEF Signal, TypeOK, FlushedAtSignal
<1>6. CASE Aside
  BY <1>6 DEF Aside, FlushedAtSignal
<1> QED
  BY StepsOfShutdown, <1>1, <1>2, <1>3, <1>4, <1>5, <1>6

\* Once the flush of the signal's handler is over, nothing captured before the
\* signal waits in the queue, whatever the request threads go on to capture.
THEOREM ShutdownFlushes == Spec => []ShutdownFlush
<1>1. Init => FlushedAtSignal
  BY DEF Init, FlushedAtSignal
<1>2. FlushedAtSignal => ShutdownFlush
  BY DEF FlushedAtSignal, ShutdownFlush
<1> QED
  BY <1>1, <1>2, TypeInit, TypeStep, ShutdownStep, PTL DEF Spec

-----------------------------------------------------------------------------
(* The queue and the batches are bounded.                                  *)

\* The threads that completed a batch and have not flushed it yet can be counted.
LEMMA CompletingFinite ==
  /\ IsFiniteSet(Completing)
  /\ Cardinality(Completing) \in Nat
  /\ Cardinality(Workers) \in Nat
  /\ Cardinality(Completing) <= Cardinality(Workers)
<1>1. Completing \in SUBSET Workers /\ IsFiniteSet(Workers)
  BY ModelAssumption DEF Completing
<1> QED
  BY <1>1, FS_Subset, FS_CardinalityType

Bounded == QueueBounded /\ BatchesBounded

\* The bounds hold of an empty queue and of batches that do not exist yet.
LEMMA BoundedInit == Init => Bounded
<1> SUFFICES ASSUME Init PROVE Bounded
  OBVIOUS
<1>1. Len(queue) = 0 /\ \A b \in Event : Len(delivery[b].events) = 0
  BY DEF Init, NoBatch
<1> QED
  BY <1>1, CompletingFinite, SettingsAssumption
     DEF Bounded, QueueBounded, BatchesBounded

\* A step gives a batch its events by taking the queue, and never changes them.
LEMMA BatchEvents ==
  ASSUME TypeOK, [Next]_vars, NEW b \in Event
  PROVE  delivery'[b].events = delivery[b].events \/ delivery'[b].events = queue
<1> USE DEF TypeOK, Batch
<1>1. ASSUME NEW t \in Threads, TakeQueue(t)
      PROVE  delivery'[b].events = delivery[b].events \/ delivery'[b].events = queue
  BY <1>1 DEF TakeQueue
<1>2. ASSUME NEW c, NEW s,
             \/ delivery' = [delivery EXCEPT ![c].state = s]
             \/ delivery' = Attempt(c, s)
      PROVE  delivery'[b].events = delivery[b].events
  <2>1. CASE delivery' = [delivery EXCEPT ![c].state = s]
    BY <2>1
  <2>2. CASE delivery' = Attempt(c, s) /\ c = b
    BY <2>2 DEF Attempt
  <2>3. CASE delivery' = Attempt(c, s) /\ c # b
    BY <2>3 DEF Attempt
  <2> QED
    BY <1>2, <2>1, <2>2, <2>3
<1>3. ASSUME NEW t \in Threads,
             \/ TakeNothing(t) \/ CountBatch(t) \/ CountEvents(t) \/ Reject(t)
             \/ CountRejected(t) \/ CountDropped(t)
             \/ Admit(t) \/ BuildFails(t) \/ Start(t)
      PROVE  delivery'[b].events = delivery[b].events
  <2>1. CASE Admit(t)
    BY <2>1 DEF Admit
  <2>2. CASE TakeNothing(t) \/ CountBatch(t) \/ CountRejected(t) \/ CountDropped(t)
    BY <2>2 DEF TakeNothing, CountBatch, CountRejected, CountDropped
  <2>3. CASE CountEvents(t) \/ Reject(t) \/ BuildFails(t)
    BY <1>2, <2>3 DEF CountEvents, Reject, BuildFails
  <2>4. CASE Start(t)
    BY <1>2, <2>4 DEF Start, Send, SendThrows
  <2> QED
    BY <1>3, <2>1, <2>2, <2>3, <2>4
<1>4. ASSUME NEW c \in Event, Response(c) \/ BackoffEnds(c)
      PROVE  delivery'[b].events = delivery[b].events
  <2>1. CASE Response(c)
    BY <1>2, <2>1 DEF Response, Delivered, Retry, Exhausted, Fail
  <2>2. CASE BackoffEnds(c)
    BY <1>2, <2>2 DEF BackoffEnds, Send, SendThrows
  <2> QED
    BY <1>4, <2>1, <2>2
<1>5. ASSUME \/ \E w \in Workers : Capture(w)
             \/ \E i \in Event : TimerFires(i)
             \/ CooldownElapses \/ Signal \/ Quit \/ UNCHANGED vars
      PROVE  delivery' = delivery
  BY <1>5 DEF Capture, CaptureDropped, CaptureQueued, CaptureFull, TimerFires,
              CooldownElapses, Signal, Quit, vars
<1> QED
  BY <1>1, <1>3, <1>4, <1>5 DEF Next, FlushStep

\* Every step keeps the queue and the batches within their bounds.
LEMMA BoundedStep ==
  ASSUME TypeOK, Bounded, [Next]_vars
  PROVE  Bounded'
<1>q. Len(queue) \in Nat
  BY DEF TypeOK
<1>f. Cardinality(Completing)' \in Nat
  <2>1. Completing' \in SUBSET Workers /\ IsFiniteSet(Workers)
    BY ModelAssumption DEF Completing
  <2>2. IsFiniteSet(Completing')
    BY <2>1, FS_Subset
  <2> QED
    BY <2>2, FS_CardinalityType
<1>1. QueueBounded'
  <2>1. ASSUME NEW w \in Workers, CaptureQueued(w) PROVE QueueBounded'
    <3>1. Len(queue') = Len(queue) + 1
      BY <2>1 DEF CaptureQueued, Enqueue, TypeOK
    <3>2. Len(queue) < MaxQueueSize /\ Len(queue) + 1 < BatchSize
      BY <2>1, <1>q, SettingsAssumption
         DEF CaptureQueued, Enqueue, HasRoom, CompletesBatch
    <3> QED
      BY <3>1, <3>2, <1>q, <1>f, SettingsAssumption DEF QueueBounded
  <2>2. ASSUME NEW w \in Workers, CaptureFull(w) PROVE QueueBounded'
    <3>1. Len(queue') = Len(queue) + 1 /\ Len(queue) < MaxQueueSize
      BY <2>2 DEF CaptureFull, Enqueue, HasRoom, TypeOK
    <3>2. w \notin Completing /\ Completing' = Completing \cup {w}
      BY <2>2 DEF CaptureFull, NextEvent, Completing, Threads, TypeOK
    <3>3. Cardinality(Completing)' = Cardinality(Completing) + 1
      BY <3>2, CompletingFinite, FS_AddElement
    <3> QED
      BY <3>1, <3>3, <1>q, CompletingFinite, SettingsAssumption
         DEF Bounded, QueueBounded
  <2>3. ASSUME NEW t \in Threads, TakeNothing(t) \/ TakeQueue(t)
        PROVE  QueueBounded'
    <3>1. queue' = << >>
      BY <2>3 DEF TakeNothing, TakeQueue, ClearQueue
    <3>2. Len(queue') = 0
      BY <3>1
    <3> QED
      BY <3>2, <1>f, SettingsAssumption DEF QueueBounded
  <2>4. ASSUME UNCHANGED queue, Completing' = Completing PROVE QueueBounded'
    BY <2>4 DEF Bounded, QueueBounded
  <2>5. ASSUME NEW i \in Event, TimerFires(i) PROVE QueueBounded'
    <3>1. UNCHANGED queue /\ Completing' = Completing
      BY <2>5, ModelAssumption DEF TimerFires, Completing, Threads, TypeOK
    <3> QED
      BY <2>4, <3>1
  <2>6. CASE Signal
    <3>1. UNCHANGED queue /\ Completing' = Completing
      BY <2>6, ModelAssumption DEF Signal, queueVars, Completing, Threads, TypeOK
    <3> QED
      BY <2>4, <3>1
  <2>7. CASE Elsewhere
    <3>1. UNCHANGED queue /\ Completing' = Completing
      BY <2>7 DEF Elsewhere, queueVars, Completing, Threads
    <3> QED
      BY <2>4, <3>1
  <2> QED
    BY StepsOfQueue, <2>1, <2>2, <2>3, <2>5, <2>6, <2>7
<1>2. BatchesBounded'
  <2> SUFFICES ASSUME NEW b \in Event
               PROVE  /\ Len(delivery'[b].events) <= MaxQueueSize
                      /\ Len(delivery'[b].events) <= BatchSize - 1 + Cardinality(Workers)
    BY DEF BatchesBounded
  <2>1. delivery'[b].events = delivery[b].events \/ delivery'[b].events = queue
    BY BatchEvents
  <2>2. CASE delivery'[b].events = queue
    BY <2>2, <1>q, CompletingFinite, SettingsAssumption
       DEF Bounded, QueueBounded
  <2>3. CASE delivery'[b].events = delivery[b].events
    BY <2>3 DEF Bounded, BatchesBounded
  <2> QED
    BY <2>1, <2>2, <2>3
<1> QED
  BY <1>1, <1>2 DEF Bounded

\* However many request threads get in before a flush, a batch is bounded by the
\* queue limit and by the batch size and the number of request threads.
THEOREM BatchesStayBounded == Spec => []BatchesBounded
<1>1. Init => TypeOK /\ Bounded
  BY TypeInit, BoundedInit
<1>2. TypeOK /\ Bounded /\ [Next]_vars => (TypeOK /\ Bounded)'
  BY TypeStep, BoundedStep
<1>3. Bounded => BatchesBounded
  BY DEF Bounded
<1> QED
  BY <1>1, <1>2, <1>3, PTL DEF Spec

-----------------------------------------------------------------------------
(* Threads own the batches they hold, and queued events name none yet.     *)

\* Batch c changes its state to s and keeps its probe mark; the others stay.
Moves(c, s) ==
  /\ c \in Event
  /\ delivery'[c].state = s
  /\ delivery'[c].probe = delivery[c].probe
  /\ \A b \in Event \ {c} : delivery'[b] = delivery[b]

\* A new state, or another attempt, is all that happens to one batch.
LEMMA MovesOf ==
  ASSUME TypeOK, NEW c \in Event, NEW s,
         \/ delivery' = [delivery EXCEPT ![c].state = s]
         \/ delivery' = Attempt(c, s)
  PROVE  Moves(c, s)
<1> USE DEF TypeOK, Batch
<1>1. CASE delivery' = [delivery EXCEPT ![c].state = s]
  BY <1>1 DEF Moves
<1>2. CASE delivery' = Attempt(c, s)
  BY <1>2 DEF Attempt, Moves
<1> QED
  BY <1>1, <1>2

\* Taking the queue moves the batch named after its first event.
LEMMA MovesOfTake ==
  ASSUME TypeOK, NEW t \in Threads, TakeQueue(t)
  PROVE  Moves(Head(queue), "taken")
<1>1. Head(queue) \in Event
  BY DEF TakeQueue, TypeOK
<1> QED
  BY <1>1 DEF TakeQueue, Moves, TypeOK, Batch

Owned == Ownership /\ Freshness

\* At the start no thread holds a batch.
LEMMA OwnedInit == Init => Owned
  BY DEF Init, Owned, Ownership, Freshness, NoBatch, Holding

\* A callback of the loop moves a batch that no thread holds any more.
LEMMA OwnedByLoop ==
  ASSUME TypeOK, Owned, NEW c, NEW s, Moves(c, s),
         delivery[c].state \in {"sending", "backoff"},
         UNCHANGED << queue, pc, batchOf, captures >>
  PROVE  Owned'
<1>1. Ownership'
  BY DEF Owned, Ownership, Moves, TypeOK, Holding
<1>2. Freshness'
  BY DEF Owned, Freshness, Moves, TypeOK
<1> QED
  BY <1>1, <1>2 DEF Owned

\* A thread moves the batch it holds and gives it up or comes to deliver it.
LEMMA OwnedByThread ==
  ASSUME TypeOK, Owned, NEW t \in Threads, pc[t] \in Holding, NEW s,
         delivery'[batchOf[t]].state = s,
         \A b \in Event \ {batchOf[t]} : delivery'[b] = delivery[b],
         \/ \E q \in {"idle", "rejected"} : pc' = [pc EXCEPT ![t] = q]
         \/ pc' = [pc EXCEPT ![t] = "admit"] /\ s = "counted"
         \/ pc' = [pc EXCEPT ![t] = "deliver"] /\ s = "admitted",
         UNCHANGED << queue, batchOf, captures >>
  PROVE  Owned'
<1>1. batchOf[t] \in Event
  BY DEF TypeOK, Holding
<1>2. delivery[batchOf[t]].state \in {"taken", "counted", "admitted"}
  BY DEF Owned, Ownership, Holding
<1>3. Ownership'
  <2>1. ASSUME NEW u \in Threads
        PROVE  /\ pc'[u] \in {"count", "size"} => delivery'[batchOf'[u]].state = "taken"
               /\ pc'[u] = "admit" => delivery'[batchOf'[u]].state = "counted"
               /\ pc'[u] = "deliver" => delivery'[batchOf'[u]].state = "admitted"
    <3>1. CASE u = t
      BY <3>1 DEF TypeOK
    <3>2. CASE u # t /\ pc[u] \in Holding
      BY <3>2 DEF Owned, Ownership, TypeOK, Holding
    <3>3. CASE u # t /\ pc[u] \notin Holding
      BY <3>3 DEF TypeOK, Holding
    <3> QED
      BY <3>1, <3>2, <3>3
  <2>2. ASSUME NEW u \in Threads, NEW v \in Threads, u # v,
               pc'[u] \in Holding, pc'[v] \in Holding
        PROVE  batchOf'[u] # batchOf'[v]
    <3>1. pc[u] \in Holding /\ pc[v] \in Holding
      BY <2>2 DEF TypeOK
    <3> QED
      BY <2>2, <3>1 DEF Owned, Ownership
  <2> QED
    BY <2>1, <2>2 DEF Ownership
<1>4. Freshness'
  <2>1. ASSUME NEW i \in DOMAIN queue
        PROVE  queue[i] <= captures /\ delivery'[queue[i]].state = "none"
    BY <1>2, <2>1 DEF Owned, Freshness, TypeOK
  <2>2. ASSUME NEW b \in Event, b > captures
        PROVE  delivery'[b].state = "none"
    BY <1>2, <2>2 DEF Owned, Freshness
  <2> QED
    BY <2>1, <2>2 DEF Freshness
<1> QED
  BY <1>3, <1>4 DEF Owned

\* Every step keeps each batch in one hand, and unborn batches untouched.
LEMMA OwnedStep ==
  ASSUME TypeOK, Owned, [Next]_vars
  PROVE  Owned'
<1>1. ASSUME NEW w \in Workers, CaptureDropped(w) PROVE Owned'
  <2>1. Ownership'
    BY <1>1 DEF CaptureDropped, Owned, Ownership
  <2>2. Freshness'
    <3>1. /\ queue' = queue /\ delivery' = delivery
          /\ captures' = captures + 1 /\ captures \in Nat
      BY <1>1 DEF CaptureDropped, NextEvent, queueVars, TypeOK
    <3>2. \A i \in DOMAIN queue : queue[i] \in Nat
      <4>1. \A i \in DOMAIN queue : queue[i] \in Event
        BY DEF TypeOK
      <4> QED
        BY <4>1 DEF Event
    <3>3. \A b \in Event : b \in Nat
      BY DEF Event
    <3> QED
      BY <3>1, <3>2, <3>3 DEF Owned, Freshness
  <2> QED
    BY <2>1, <2>2 DEF Owned
<1>2. ASSUME NEW w \in Workers, NextEvent(w), Enqueue, UNCHANGED delivery
      PROVE  Freshness'
  <2>0. captures + 1 \in Event
    BY <1>2, ModelAssumption DEF NextEvent, TypeOK, Event
  <2>1. ASSUME NEW i \in DOMAIN queue'
        PROVE  queue'[i] <= captures' /\ delivery[queue'[i]].state = "none"
    <3>1. CASE i \in DOMAIN queue
      <4>1. queue'[i] = queue[i] /\ queue[i] \in Event
        BY <1>2, <3>1 DEF Enqueue, TypeOK
      <4> QED
        BY <1>2, <3>1, <4>1 DEF NextEvent, Owned, Freshness, TypeOK, Event
    <3>2. CASE i \notin DOMAIN queue
      <4>1. queue'[i] = captures + 1
        BY <1>2, <2>0, <2>1, <3>2 DEF Enqueue, TypeOK
      <4> QED
        BY <1>2, <2>0, <4>1 DEF NextEvent, Owned, Freshness, TypeOK
    <3> QED
      BY <3>1, <3>2
  <2>2. ASSUME NEW b \in Event, b > captures' PROVE delivery[b].state = "none"
    BY <1>2, <2>2 DEF NextEvent, Owned, Freshness, TypeOK, Event
  <2> QED
    BY <1>2, <2>1, <2>2 DEF Freshness
<1>3. ASSUME NEW w \in Workers, CaptureQueued(w) PROVE Owned'
  <2>1. Ownership'
    BY <1>3 DEF CaptureQueued, Owned, Ownership
  <2> QED
    BY <1>2, <1>3, <2>1 DEF CaptureQueued, Owned
<1>4. ASSUME NEW t \in Threads,
             \E q \in {"idle", "flush", "dropped"} : pc' = [pc EXCEPT ![t] = q],
             UNCHANGED << delivery, batchOf >>
      PROVE  Ownership'
  BY <1>4 DEF Owned, Ownership, TypeOK, Holding
<1>5. ASSUME NEW w \in Workers, CaptureFull(w) PROVE Owned'
  BY <1>2, <1>4, <1>5 DEF CaptureFull, Owned, Threads
<1>6. ASSUME NEW t \in Threads, TakeNothing(t) PROVE Owned'
  <2>1. Freshness'
    BY <1>6 DEF TakeNothing, processVars, Owned, Freshness
  <2> QED
    BY <1>4, <1>6, <2>1 DEF TakeNothing, Owned
<1>7. ASSUME NEW t \in Threads, TakeQueue(t) PROVE Owned'
  <2>1. Moves(Head(queue), "taken")
    BY <1>7, MovesOfTake
  <2>2. Head(queue) <= captures /\ delivery[Head(queue)].state = "none"
    BY <1>7 DEF TakeQueue, Owned, Freshness, TypeOK
  <2>3. Ownership'
    <3>1. ASSUME NEW u \in Threads
          PROVE  /\ pc'[u] \in {"count", "size"} => delivery'[batchOf'[u]].state = "taken"
                 /\ pc'[u] = "admit" => delivery'[batchOf'[u]].state = "counted"
                 /\ pc'[u] = "deliver" => delivery'[batchOf'[u]].state = "admitted"
      <4>1. CASE u = t
        BY <1>7, <2>1, <4>1 DEF TakeQueue, KeepEvents, TypeOK, Moves
      <4>2. CASE u # t /\ pc[u] \in Holding
        <5>1. pc'[u] = pc[u] /\ batchOf'[u] = batchOf[u] /\ batchOf[u] \in Event
          BY <1>7, <4>2 DEF TakeQueue, KeepEvents, TypeOK, Holding
        <5>2. batchOf[u] # Head(queue)
          BY <2>2, <4>2 DEF Owned, Ownership, Holding
        <5> QED
          BY <2>1, <5>1, <5>2 DEF Moves, Owned, Ownership
      <4>3. CASE u # t /\ pc[u] \notin Holding
        BY <1>7, <4>3 DEF TakeQueue, KeepEvents, TypeOK, Holding
      <4> QED
        BY <4>1, <4>2, <4>3
    <3>2. ASSUME NEW u \in Threads, u # t, pc'[u] \in Holding
          PROVE  batchOf'[u] = batchOf[u] /\ batchOf[u] # Head(queue) /\ pc[u] \in Holding
      BY <1>7, <2>2, <3>2 DEF TakeQueue, KeepEvents, TypeOK, Holding, Owned, Ownership
    <3>3. batchOf'[t] = Head(queue)
      BY <1>7 DEF TakeQueue, KeepEvents, TypeOK
    <3>4. ASSUME NEW u \in Threads, NEW v \in Threads, u # v,
                 pc'[u] \in Holding, pc'[v] \in Holding
          PROVE  batchOf'[u] # batchOf'[v]
      BY <3>2, <3>3, <3>4 DEF Owned, Ownership
    <3> QED
      BY <3>1, <3>4 DEF Ownership
  <2>4. Freshness'
    <3>1. queue' = << >> /\ captures' = captures
      BY <1>7 DEF TakeQueue, ClearQueue, processVars
    <3>2. ASSUME NEW b \in Event, b > captures PROVE delivery'[b].state = "none"
      <4>1. b # Head(queue)
        BY <2>2, <3>2, <2>1 DEF TypeOK, Event, Moves
      <4> QED
        BY <2>1, <3>2, <4>1 DEF Moves, Owned, Freshness
    <3> QED
      BY <3>1, <3>2 DEF Freshness
  <2> QED
    BY <2>3, <2>4 DEF Owned
<1>8. ASSUME NEW t \in Threads, Reject(t) \/ BuildFails(t) \/ Start(t) PROVE Owned'
  <2>1. /\ pc[t] \in Holding /\ batchOf[t] \in Event
        /\ \E q \in {"idle", "rejected"} : pc' = [pc EXCEPT ![t] = q]
        /\ UNCHANGED << queue, batchOf, captures >>
    BY <1>8 DEF Reject, BuildFails, Start, Holding, queueVars, processVars, TypeOK
  <2>2. PICK s : Moves(batchOf[t], s)
    BY <1>8, <2>1, MovesOf DEF Reject, BuildFails, Start, Send, SendThrows
  <2>3. /\ delivery'[batchOf[t]].state = s
        /\ \A b \in Event \ {batchOf[t]} : delivery'[b] = delivery[b]
    BY <2>2 DEF Moves
  <2> QED
    BY <2>1, <2>3, OwnedByThread
<1>14. ASSUME NEW t \in Threads, CountEvents(t) PROVE Owned'
  <2>1. /\ pc[t] \in Holding /\ batchOf[t] \in Event
        /\ pc' = [pc EXCEPT ![t] = "admit"]
        /\ UNCHANGED << queue, batchOf, captures >>
    BY <1>14 DEF CountEvents, Holding, queueVars, processVars, TypeOK
  <2>2. Moves(batchOf[t], "counted")
    BY <1>14, <2>1, MovesOf DEF CountEvents
  <2>3. /\ delivery'[batchOf[t]].state = "counted"
        /\ \A b \in Event \ {batchOf[t]} : delivery'[b] = delivery[b]
    BY <2>2 DEF Moves
  <2> QED
    BY <2>1, <2>3, OwnedByThread
<1>15. ASSUME NEW t \in Threads, CountBatch(t) PROVE Owned'
  <2>1. Ownership'
    BY <1>15 DEF CountBatch, Owned, Ownership, TypeOK, Holding
  <2>2. Freshness'
    BY <1>15 DEF CountBatch, queueVars, processVars, Owned, Freshness
  <2> QED
    BY <2>1, <2>2 DEF Owned
<1>16. ASSUME NEW t \in Threads, CountRejected(t) \/ CountDropped(t) PROVE Owned'
  <2>1. Freshness'
    BY <1>16 DEF CountRejected, CountDropped, queueVars, processVars, Owned, Freshness
  <2> QED
    BY <1>4, <1>16, <2>1 DEF CountRejected, CountDropped, Owned
<1>9. ASSUME NEW t \in Threads, Admit(t) PROVE Owned'
  <2>1. pc[t] \in Holding /\ pc' = [pc EXCEPT ![t] = "deliver"]
        /\ UNCHANGED << queue, batchOf, captures >> /\ batchOf[t] \in Event
    BY <1>9 DEF Admit, Holding, queueVars, processVars, TypeOK
  <2>2. /\ delivery'[batchOf[t]].state = "admitted"
        /\ \A b \in Event \ {batchOf[t]} : delivery'[b] = delivery[b]
    BY <1>9, <2>1 DEF Admit, TypeOK, Batch
  <2> QED
    BY <2>1, <2>2, OwnedByThread
<1>10. ASSUME NEW c \in Event, Response(c) \/ BackoffEnds(c) PROVE Owned'
  <2>1. /\ delivery[c].state \in {"sending", "backoff"}
        /\ UNCHANGED << queue, pc, batchOf, captures >>
    BY <1>10 DEF Response, Delivered, Retry, Exhausted, BackoffEnds, queueVars, processVars
  <2>2. PICK s : Moves(c, s)
    BY <1>10, MovesOf
       DEF Response, Delivered, Retry, Exhausted, Fail, BackoffEnds, Send, SendThrows
  <2> QED
    BY <2>1, <2>2, OwnedByLoop
<1>11. ASSUME NEW i \in Event, TimerFires(i) PROVE Owned'
  <2>1. Freshness'
    BY <1>11 DEF TimerFires, processVars, Owned, Freshness
  <2> QED
    BY <1>4, <1>11, <2>1 DEF TimerFires, Owned, Threads
<1>12. CASE Signal
  <2>1. Freshness'
    BY <1>12 DEF Signal, queueVars, Owned, Freshness
  <2> QED
    BY <1>4, <1>12, <2>1 DEF Signal, Owned, Threads
<1>13. CASE CooldownElapses \/ Quit \/ UNCHANGED vars
  BY <1>13 DEF CooldownElapses, Quit, vars, queueVars, processVars, Owned, Ownership, Freshness
<1> QED
  BY <1>1, <1>3, <1>5, <1>6, <1>7, <1>8, <1>9, <1>10, <1>11, <1>12, <1>13, <1>14,
     <1>15, <1>16
     DEF Next, Capture, FlushStep

\* Threads and batches agree about how far each batch has come.
LEMMA OwnedAlways == Spec => [](TypeOK /\ Owned)
<1>1. Init => TypeOK /\ Owned
  BY TypeInit, OwnedInit
<1>2. TypeOK /\ Owned /\ [Next]_vars => (TypeOK /\ Owned)'
  BY TypeStep, OwnedStep
<1> QED
  BY <1>1, <1>2, PTL DEF Spec

-----------------------------------------------------------------------------
(* The breaker and its probe.                                              *)

Coherent(c) ==
  /\ c.openUntil # "unset" <=> c.failures >= FailureThreshold
  /\ c.probeInFlight => c.openUntil = "past"

\* What the members of the breaker do to a coherent circuit.
LEMMA CoherentMembers ==
  ASSUME NEW c \in Circuit, Coherent(c)
  PROVE  /\ Allow(c) => Coherent(AfterAllow(c))
         /\ AfterAllow(c).openUntil = c.openUntil
         /\ Allow(c) =>
              (AfterAllow(c).probeInFlight <=> c.openUntil = "past")
         /\ Coherent(AfterSuccess(c))
         /\ AfterSuccess(c).openUntil # "past"
         /\ ~ AfterSuccess(c).probeInFlight
         /\ Coherent(AfterFailure(c))
         /\ AfterFailure(c).openUntil # "past"
         /\ ~ AfterFailure(c).probeInFlight
<1> USE ThresholdAssumption DEF Coherent, Circuit
<1>1. /\ Allow(c) => Coherent(AfterAllow(c))
      /\ AfterAllow(c).openUntil = c.openUntil
      /\ Allow(c) => (AfterAllow(c).probeInFlight <=> c.openUntil = "past")
  BY DEF Allow, AfterAllow
<1>2. /\ Coherent(AfterSuccess(c))
      /\ AfterSuccess(c).openUntil # "past"
      /\ ~ AfterSuccess(c).probeInFlight
  BY DEF AfterSuccess, ClosedCircuit
<1>3. /\ Coherent(AfterFailure(c))
      /\ AfterFailure(c).openUntil # "past"
      /\ ~ AfterFailure(c).probeInFlight
  BY DEF AfterFailure
<1> QED
  BY <1>1, <1>2, <1>3

Settles == circuit' = AfterSuccess(circuit) \/ circuit' = AfterFailure(circuit)
Under(c) == delivery[c].state \in InFlight

\* Every step as the breaker and the deliveries under way see it: nothing, an
\* admission, an attempt that goes on, a batch that was not under way and is not
\* after the step, one that is settled or abandoned, or the end of the pause.
LEMMA StepsOfCircuit ==
  ASSUME TypeOK, Owned, [Next]_vars
  PROVE  \/ UNCHANGED << delivery, circuit, overtaken >>
         \/ \E t \in Threads : Admit(t)
         \/ \E c, s : Moves(c, s) /\ UNCHANGED << circuit, overtaken >>
                      /\ (Under(c) <=> s \in InFlight)
         \/ \E c, s : /\ Moves(c, s) /\ Settles /\ Overtakes(c)
                      /\ Under(c) /\ s \notin InFlight
         \/ \E c, s : /\ Moves(c, s) /\ UNCHANGED << circuit, overtaken >>
                      /\ BuildThrows /\ Under(c) /\ s \notin InFlight
         \/ CooldownElapses /\ UNCHANGED << delivery, overtaken >>
<1> USE DEF InFlight, Under
<1>1. ASSUME NEW w \in Workers, Capture(w) PROVE UNCHANGED << delivery, circuit, overtaken >>
  BY <1>1 DEF Capture, CaptureDropped, CaptureQueued, CaptureFull
<1>2. ASSUME NEW t \in Threads, TakeNothing(t) PROVE UNCHANGED << delivery, circuit, overtaken >>
  BY <1>2 DEF TakeNothing
<1>3. ASSUME NEW t \in Threads, TakeQueue(t)
      PROVE  /\ Moves(Head(queue), "taken") /\ UNCHANGED << circuit, overtaken >>
             /\ ~ Under(Head(queue))
  <2>1. 1 \in DOMAIN queue /\ Head(queue) = queue[1]
    BY <1>3 DEF TakeQueue, TypeOK
  <2>2. delivery[Head(queue)].state = "none"
    BY <2>1 DEF Owned, Freshness
  <2> QED
    BY <1>3, <2>2, MovesOfTake DEF TakeQueue
<1>16. ASSUME NEW t \in Threads, CountBatch(t) \/ CountRejected(t) \/ CountDropped(t)
       PROVE  UNCHANGED << delivery, circuit, overtaken >>
  BY <1>16 DEF CountBatch, CountRejected, CountDropped
<1>17. ASSUME NEW t \in Threads, CountEvents(t)
       PROVE  /\ Moves(batchOf[t], "counted") /\ UNCHANGED << circuit, overtaken >>
              /\ ~ Under(batchOf[t])
  <2>1. batchOf[t] \in Event /\ delivery[batchOf[t]].state = "taken"
    BY <1>17 DEF CountEvents, TypeOK, Holding, Owned, Ownership
  <2> QED
    BY <1>17, <2>1, MovesOf DEF CountEvents
<1>4. ASSUME NEW t \in Threads, Reject(t)
      PROVE  /\ Moves(batchOf[t], "rejected") /\ UNCHANGED << circuit, overtaken >>
             /\ ~ Under(batchOf[t])
  <2>1. batchOf[t] \in Event /\ delivery[batchOf[t]].state = "counted"
    BY <1>4 DEF Reject, TypeOK, Holding, Owned, Ownership
  <2> QED
    BY <1>4, <2>1, MovesOf DEF Reject
<1>5. ASSUME NEW t \in Threads, BuildFails(t)
      PROVE  /\ Moves(batchOf[t], "abandoned") /\ UNCHANGED << circuit, overtaken >>
             /\ BuildThrows /\ Under(batchOf[t])
  <2>1. batchOf[t] \in Event /\ delivery[batchOf[t]].state = "admitted"
    BY <1>5 DEF BuildFails, TypeOK, Holding, Owned, Ownership
  <2> QED
    BY <1>5, <2>1, MovesOf DEF BuildFails
<1>6. ASSUME NEW c \in Event, Under(c),
             (Send(c) /\ UNCHANGED << circuit, overtaken >>) \/ SendThrows(c)
      PROVE  \/ Moves(c, "sending") /\ UNCHANGED << circuit, overtaken >>
             \/ Moves(c, "failed") /\ Settles /\ Overtakes(c)
  BY <1>6, MovesOf DEF Send, SendThrows, Settles
<1>7. ASSUME NEW t \in Threads, Start(t)
      PROVE  /\ Under(batchOf[t])
             /\ \/ Moves(batchOf[t], "sending") /\ UNCHANGED << circuit, overtaken >>
                \/ Moves(batchOf[t], "failed") /\ Settles /\ Overtakes(batchOf[t])
  <2>1. batchOf[t] \in Event /\ delivery[batchOf[t]].state = "admitted"
    BY <1>7 DEF Start, TypeOK, Holding, Owned, Ownership
  <2>2. (Send(batchOf[t]) /\ UNCHANGED << circuit, overtaken >>) \/ SendThrows(batchOf[t])
    BY <1>7 DEF Start
  <2> QED
    BY <1>6, <2>1, <2>2
<1>8. ASSUME NEW c \in Event, BackoffEnds(c)
      PROVE  /\ Under(c)
             /\ \/ Moves(c, "sending") /\ UNCHANGED << circuit, overtaken >>
                \/ Moves(c, "failed") /\ Settles /\ Overtakes(c)
  BY <1>6, <1>8 DEF BackoffEnds
<1>9. ASSUME NEW c \in Event, Delivered(c)
      PROVE  Moves(c, "delivered") /\ Settles /\ Overtakes(c) /\ Under(c)
  BY <1>9, MovesOf DEF Delivered, Settles
<1>10. ASSUME NEW c \in Event, Retry(c)
       PROVE  Moves(c, "backoff") /\ UNCHANGED << circuit, overtaken >> /\ Under(c)
  BY <1>10, MovesOf DEF Retry
<1>11. ASSUME NEW c \in Event, Exhausted(c)
       PROVE  Moves(c, "failed") /\ Settles /\ Overtakes(c) /\ Under(c)
  BY <1>11, MovesOf DEF Exhausted, Fail, Settles
<1>12. CASE CooldownElapses
  BY <1>12 DEF CooldownElapses
<1>13. ASSUME \/ \E i \in Event : TimerFires(i)
              \/ Signal \/ Quit \/ UNCHANGED vars
       PROVE  UNCHANGED << delivery, circuit, overtaken >>
  BY <1>13 DEF TimerFires, Signal, Quit, vars
<1>a. "taken" \notin InFlight /\ "counted" \notin InFlight /\ "rejected" \notin InFlight
      /\ "abandoned" \notin InFlight /\ "failed" \notin InFlight
      /\ "delivered" \notin InFlight
      /\ "sending" \in InFlight /\ "backoff" \in InFlight
  OBVIOUS
<1> HIDE DEF InFlight, Under
<1>14. CASE \E t \in Threads : FlushStep(t)
  BY <1>2, <1>3, <1>4, <1>5, <1>7, <1>14, <1>16, <1>17, <1>a DEF FlushStep
<1>15. CASE \E b \in Event : Response(b) \/ BackoffEnds(b)
  BY <1>8, <1>9, <1>10, <1>11, <1>15, <1>a DEF Response
<1> QED
  BY <1>1, <1>12, <1>13, <1>14, <1>15 DEF Next

\* What an admitted batch and the circuit become.
LEMMA AdmitEffect ==
  ASSUME TypeOK, Owned, NEW t \in Threads, Admit(t)
  PROVE  /\ batchOf[t] \in Event /\ ~ Under(batchOf[t])
         /\ delivery'[batchOf[t]].state = "admitted"
         /\ delivery'[batchOf[t]].probe = AfterAllow(circuit).probeInFlight
         /\ \A b \in Event \ {batchOf[t]} : delivery'[b] = delivery[b]
         /\ Allow(circuit) /\ circuit' = AfterAllow(circuit)
         /\ overtaken' = overtaken
<1>1. batchOf[t] \in Event /\ delivery[batchOf[t]].state = "counted"
  BY DEF Admit, TypeOK, Holding, Owned, Ownership
<1> QED
  BY <1>1 DEF Admit, TypeOK, Batch, Under, InFlight

Breaker ==
  /\ CircuitCoherent
  /\ ~ BuildThrows => ProbeFlagOwned
  /\ SoloProbe

\* The circuit starts closed, without a probe.
LEMMA BreakerInit == Init => Breaker
  BY ThresholdAssumption
     DEF Init, Breaker, CircuitCoherent, ProbeFlagOwned, SoloProbe, ClosedCircuit,
         NoBatch, ProbesOut, BatchesIn, InFlight

\* A probe that is out and was not overtaken.
Solo(b) == Under(b) /\ delivery[b].probe /\ b \notin overtaken

\* Every step keeps the circuit coherent and its probe flag owned.
LEMMA BreakerStep ==
  ASSUME TypeOK, Owned, Breaker, [Next]_vars
  PROVE  Breaker'
<1>c. circuit \in Circuit /\ Coherent(circuit)
  BY DEF TypeOK, Breaker, CircuitCoherent, Coherent
<1>p. ~ BuildThrows /\ circuit.probeInFlight
        => \E b \in Event : Under(b) /\ delivery[b].probe
  BY DEF Breaker, ProbeFlagOwned, BatchesIn, Under
<1>s. \A a, b \in Event : Solo(a) /\ Solo(b) =>
        circuit.openUntil = "past" /\ circuit.probeInFlight /\ a = b
  BY DEF Breaker, SoloProbe, ProbesOut, BatchesIn, Under, Solo
<1>g. ASSUME Coherent(circuit'),
             ~ BuildThrows /\ circuit'.probeInFlight
               => \E b \in Event : Under(b)' /\ delivery'[b].probe,
             \A a, b \in Event : Solo(a)' /\ Solo(b)' =>
               circuit'.openUntil = "past" /\ circuit'.probeInFlight /\ a = b
      PROVE  Breaker'
  <2>1. CircuitCoherent'
    BY <1>g DEF CircuitCoherent, Coherent
  <2>2. ~ BuildThrows => ProbeFlagOwned'
    BY <1>g DEF ProbeFlagOwned, BatchesIn, Under
  <2>3. SoloProbe'
    BY <1>g DEF SoloProbe, ProbesOut, BatchesIn, Under, Solo
  <2> QED
    BY <2>1, <2>2, <2>3 DEF Breaker
<1>1. CASE UNCHANGED << delivery, circuit, overtaken >>
  BY <1>1, <1>c, <1>p, <1>s, <1>g DEF Under, Solo
<1>2. ASSUME NEW t \in Threads, Admit(t) PROVE Breaker'
  <2>b. PICK b \in Event : b = batchOf[t]
    BY <1>2, AdmitEffect
  <2>1. /\ ~ Under(b) /\ Under(b)'
        /\ delivery'[b].probe = circuit'.probeInFlight
        /\ \A a \in Event \ {b} : delivery'[a] = delivery[a]
        /\ \A a \in Event \ {b} : Under(a)' <=> Under(a)
    BY <1>2, <2>b, AdmitEffect DEF Under, InFlight
  <2>2. /\ Coherent(circuit')
        /\ circuit'.openUntil = circuit.openUntil
        /\ circuit'.probeInFlight <=> circuit.openUntil = "past"
        /\ circuit.openUntil = "past" => ~ circuit.probeInFlight
    BY <1>2, <1>c, AdmitEffect, CoherentMembers DEF Allow
  <2>3. \A a \in Event : ~ Solo(a)
    BY <1>s, <2>2
  <2>4. \A a \in Event : Solo(a)' => a = b /\ circuit'.probeInFlight
    BY <1>2, <2>1, <2>3, AdmitEffect DEF Solo
  <2>5. ~ BuildThrows /\ circuit'.probeInFlight
          => \E a \in Event : Under(a)' /\ delivery'[a].probe
    BY <2>1
  <2>6. \A a, c \in Event : Solo(a)' /\ Solo(c)' =>
          circuit'.openUntil = "past" /\ circuit'.probeInFlight /\ a = c
    BY <2>2, <2>4
  <2> QED
    BY <1>g, <2>2, <2>5, <2>6
<1>3. ASSUME NEW c, NEW s, Moves(c, s), UNCHANGED << circuit, overtaken >>,
             Under(c) <=> s \in InFlight
      PROVE  Breaker'
  <2>1. \A b \in Event : /\ Under(b)' <=> Under(b)
                         /\ delivery'[b].probe = delivery[b].probe
    BY <1>3 DEF Moves, Under
  <2>2. \A b \in Event : Solo(b)' => Solo(b)
    BY <1>3, <2>1 DEF Solo
  <2> QED
    BY <1>3, <1>c, <1>p, <1>s, <1>g, <2>1, <2>2
<1>4. ASSUME NEW c, NEW s, Moves(c, s), Under(c), s \notin InFlight
      PROVE  /\ c \in Event
             /\ \A b \in Event : Under(b)' => /\ Under(b) /\ b # c
                                              /\ delivery'[b].probe = delivery[b].probe
  BY <1>4 DEF Moves, Under
<1>5. ASSUME NEW c, NEW s, Moves(c, s), Settles, Overtakes(c), Under(c), s \notin InFlight
      PROVE  Breaker'
  <2>1. Coherent(circuit') /\ circuit'.openUntil # "past" /\ ~ circuit'.probeInFlight
    BY <1>5, <1>c, CoherentMembers DEF Settles
  <2>2. ASSUME NEW b \in Event, Solo(b)' PROVE FALSE
    <3>1. Under(b) /\ delivery[b].probe /\ b # c
      BY <1>4, <1>5, <2>2 DEF Solo
    <3>2. b \in overtaken'
      BY <1>5, <3>1 DEF Overtakes, ProbesOut, BatchesIn, Under
    <3> QED
      BY <2>2, <3>2 DEF Solo
  <2> QED
    BY <1>g, <2>1, <2>2
<1>6. ASSUME NEW c, NEW s, Moves(c, s), UNCHANGED << circuit, overtaken >>, BuildThrows,
             Under(c), s \notin InFlight
      PROVE  Breaker'
  <2>1. \A b \in Event : Solo(b)' => Solo(b)
    BY <1>4, <1>6 DEF Solo
  <2> QED
    BY <1>6, <1>c, <1>s, <1>g, <2>1
<1>7. ASSUME CooldownElapses, UNCHANGED << delivery, overtaken >> PROVE Breaker'
  <2>1. /\ Coherent(circuit') /\ circuit'.openUntil = "past"
        /\ circuit'.probeInFlight <=> circuit.probeInFlight
        /\ circuit.openUntil # "past"
    BY <1>7, <1>c DEF CooldownElapses, AfterCooldown, Coherent, Circuit
  <2>2. \A b \in Event : (Under(b)' <=> Under(b)) /\ (Solo(b)' => Solo(b))
    BY <1>7 DEF Under, Solo
  <2>3. \A b \in Event : ~ Solo(b)
    BY <1>s, <2>1
  <2> QED
    BY <1>7, <1>p, <1>g, <2>1, <2>2, <2>3
<1> QED
  BY StepsOfCircuit, <1>1, <1>2, <1>3, <1>5, <1>6, <1>7

\* The invariants of the circuit hold in every reachable state.
LEMMA BreakerAlways == Spec => [](TypeOK /\ Breaker)
<1>1. Init => TypeOK /\ Owned /\ Breaker
  BY TypeInit, OwnedInit, BreakerInit
<1>2. TypeOK /\ Owned /\ Breaker /\ [Next]_vars => (TypeOK /\ Owned /\ Breaker)'
  BY TypeStep, OwnedStep, BreakerStep
<1> QED
  BY <1>1, <1>2, PTL DEF Spec

\* The breaker is open or half-open exactly between the failure that reaches the
\* threshold and the next success, in whatever order responses come.
THEOREM CircuitStaysCoherent == Spec => []CircuitCoherent
<1>1. Breaker => CircuitCoherent
  BY DEF Breaker
<1> QED
  BY <1>1, BreakerAlways, PTL

\* If building a payload never throws, a half-open circuit that refuses batches
\* has a probe under way that will reopen or close it.
THEOREM ProbeFlagStaysOwned ==
  ASSUME ~ BuildThrows
  PROVE  Spec => []ProbeFlagOwned
<1>1. Breaker => ProbeFlagOwned
  BY DEF Breaker
<1> QED
  BY <1>1, BreakerAlways, PTL

\* However the pause relates to the deliveries: a second probe is out only when an
\* answer of another batch reached the breaker during the delivery of the first.
THEOREM OneProbe == Spec => []OneProbeUnlessOvertaken
<1>1. Breaker => OneProbeUnlessOvertaken
  <2> SUFFICES ASSUME Breaker PROVE OneProbeUnlessOvertaken
    OBVIOUS
  <2> DEFINE P == ProbesOut \ overtaken
  <2>1. \A a, b \in P : a = b
    BY DEF Breaker, SoloProbe
  <2>2. CASE P = {}
    BY <2>2, FS_EmptySet DEF OneProbeUnlessOvertaken
  <2>3. CASE P # {}
    <3>1. PICK a : P = {a}
      BY <2>1, <2>3
    <3>2. Cardinality(P) = 1
      BY <3>1, FS_Singleton
    <3> QED
      BY <3>2 DEF OneProbeUnlessOvertaken
  <2> QED
    BY <2>2, <2>3
<1> QED
  BY <1>1, BreakerAlways, PTL

-----------------------------------------------------------------------------
(* The reporter implements EventExport.                                    *)

exporterVars == << Waiting, Exports, EventsIn({"delivered"}), GivenUp >>

\* A step that changes the state of one batch, and of no batch the events.
Turns(c, s) ==
  /\ c \in Event
  /\ UNCHANGED << queue, captures >>
  /\ delivery'[c].state = s
  /\ delivery'[c].events = delivery[c].events
  /\ \A b \in Event \ {c} : delivery'[b] = delivery[b]

Outcomes == {"rejected", "failed", "abandoned"}

\* The steps of deliveries, and what each makes of its batch.
LEMMA StepsOfExport ==
  ASSUME TypeOK, Owned, [Next]_vars
  PROVE  \/ \E w \in Workers : CaptureDropped(w)
         \/ \E w \in Workers : NextEvent(w) /\ Enqueue /\ UNCHANGED delivery
         \/ \E t \in Threads : TakeQueue(t)
         \/ UNCHANGED << queue, captures, delivery >>
         \/ \E c \in Event, s \in Exporting \cup Outcomes \cup {"delivered"} :
              Turns(c, s) /\ delivery[c].state \in Exporting
<1> DEFINE Goal == \E c \in Event, s \in Exporting \cup Outcomes \cup {"delivered"} :
                     Turns(c, s) /\ delivery[c].state \in Exporting
<1>a. ASSUME NEW c \in Event, NEW s \in Exporting \cup Outcomes \cup {"delivered"},
             delivery[c].state \in Exporting, UNCHANGED << queue, captures >>,
             \/ delivery' = [delivery EXCEPT ![c].state = s]
             \/ delivery' = Attempt(c, s)
      PROVE  Goal
  <2>1. Turns(c, s)
    <3>1. CASE delivery' = [delivery EXCEPT ![c].state = s]
      BY <1>a, <3>1 DEF Turns, TypeOK, Batch
    <3>2. CASE delivery' = Attempt(c, s)
      BY <1>a, <3>2 DEF Attempt, Turns, TypeOK, Batch
    <3> QED BY <1>a, <3>1, <3>2
  <2> QED BY <1>a, <2>1
<1>b. ASSUME NEW t \in Threads, pc[t] \in {"size", "admit", "deliver"}
      PROVE  batchOf[t] \in Event /\ delivery[batchOf[t]].state \in Exporting
  BY <1>b DEF TypeOK, Holding, Owned, Ownership, Exporting, InFlight
<1>c. /\ {"rejected", "abandoned", "failed"} = Outcomes
      /\ {"taken", "counted", "admitted", "sending", "backoff"} = Exporting
  BY DEF Outcomes, Exporting, InFlight
<1> HIDE DEF Goal
<1>1. ASSUME NEW t \in Threads, Reject(t) PROVE Goal
  BY <1>1, <1>a, <1>b, <1>c DEF Reject, queueVars, processVars
<1>2. ASSUME NEW t \in Threads, BuildFails(t) PROVE Goal
  BY <1>2, <1>a, <1>b, <1>c DEF BuildFails, queueVars, processVars
<1>3. ASSUME NEW t \in Threads, Start(t) PROVE Goal
  BY <1>3, <1>a, <1>b, <1>c DEF Start, Send, SendThrows, queueVars, processVars
<1>4. ASSUME NEW t \in Threads, Admit(t) PROVE Goal
  <2>1. batchOf[t] \in Event /\ delivery[batchOf[t]].state \in Exporting
    BY <1>4, <1>b DEF Admit
  <2>2. Turns(batchOf[t], "admitted")
    BY <1>4, <2>1 DEF Admit, Turns, TypeOK, Batch, queueVars, processVars
  <2> QED BY <2>1, <2>2, <1>c DEF Goal
<1>5. ASSUME NEW c \in Event, Response(c) \/ BackoffEnds(c) PROVE Goal
  <2>1. delivery[c].state \in Exporting /\ UNCHANGED << queue, captures >>
    BY <1>5, <1>c DEF Response, Delivered, Retry, Exhausted, BackoffEnds, queueVars, processVars
  <2>2. \E s \in Exporting \cup Outcomes \cup {"delivered"} :
          \/ delivery' = [delivery EXCEPT ![c].state = s]
          \/ delivery' = Attempt(c, s)
    BY <1>5, <1>c DEF Response, Delivered, Retry, Exhausted, Fail, BackoffEnds, Send, SendThrows
  <2> QED BY <2>1, <2>2, <1>a
<1>6. ASSUME NEW w \in Workers, CaptureQueued(w) \/ CaptureFull(w)
      PROVE  NextEvent(w) /\ Enqueue /\ UNCHANGED delivery
  BY <1>6 DEF CaptureQueued, CaptureFull
<1>7. ASSUME NEW t \in Threads,
             TakeNothing(t) \/ CountBatch(t) \/ CountRejected(t) \/ CountDropped(t)
      PROVE  UNCHANGED << queue, captures, delivery >>
  BY <1>7 DEF TakeNothing, CountBatch, CountRejected, CountDropped, queueVars, processVars
<1>8. ASSUME NEW i \in Event, TimerFires(i)
      PROVE  UNCHANGED << queue, captures, delivery >>
  BY <1>8 DEF TimerFires, processVars
<1>9. ASSUME Signal \/ Quit \/ CooldownElapses \/ UNCHANGED vars
      PROVE  UNCHANGED << queue, captures, delivery >>
  BY <1>9 DEF Signal, Quit, CooldownElapses, vars, queueVars, processVars
<1>10. ASSUME NEW t \in Threads, CountEvents(t) PROVE Goal
  BY <1>10, <1>a, <1>b, <1>c DEF CountEvents, queueVars, processVars
<1> QED
  BY <1>1, <1>2, <1>3, <1>4, <1>5, <1>6, <1>7, <1>8, <1>9, <1>10
     DEF Next, Capture, FlushStep, Goal

\* At the start nothing is captured.
LEMMA ExportInit == Init => Apart /\ Exporter!Init
<1> SUFFICES ASSUME Init PROVE Apart /\ Exporter!Init
  OBVIOUS
<1>1. Waiting = {} /\ Len(queue) = 0
  BY DEF Init, Waiting, EventsOf
<1>2. \A b \in Event : delivery[b].state = "none"
  BY DEF Init, NoBatch
<1>3. Exports = {} /\ EventsIn({"delivered"}) = {}
  BY <1>2 DEF Exports, EventsIn, BatchesIn, Exporting, InFlight
<1>4. GivenUp = {}
  BY DEF Init, GivenUp
<1>5. Apart
  BY <1>1, <1>2, FS_EmptySet DEF Apart
<1> QED
  BY <1>1, <1>3, <1>4, <1>5 DEF Exporter!Init

\* A batch that turns from one state of export to another changes nothing that
\* the abstract exporter sees.
LEMMA TurnStutters ==
  ASSUME TypeOK, NEW c, NEW s \in Exporting, Turns(c, s), delivery[c].state \in Exporting
  PROVE  UNCHANGED exporterVars
<1>1. Waiting' = Waiting /\ captures' = captures
  BY DEF Turns, Waiting, EventsOf
<1>2. \A b \in Event : EventsOf(delivery'[b].events) = EventsOf(delivery[b].events)
  BY DEF Turns
<1>3. /\ BatchesIn(Exporting)' = BatchesIn(Exporting)
      /\ BatchesIn({"delivered"})' = BatchesIn({"delivered"})
      /\ BatchesIn(Exporting \cup {"delivered"})' = BatchesIn(Exporting \cup {"delivered"})
  BY DEF Turns, BatchesIn, Exporting, InFlight
<1>4. /\ \A b \in BatchesIn(Exporting) : b \in Event
      /\ \A b \in BatchesIn({"delivered"}) : b \in Event
      /\ \A b \in BatchesIn(Exporting \cup {"delivered"}) : b \in Event
  BY DEF BatchesIn
<1>5. Exports' = Exports
  BY <1>2, <1>3, <1>4 DEF Exports
<1>6. EventsIn({"delivered"})' = EventsIn({"delivered"})
  BY <1>2, <1>3, <1>4 DEF EventsIn
<1>7. EventsIn(Exporting \cup {"delivered"})' = EventsIn(Exporting \cup {"delivered"})
  BY <1>2, <1>3, <1>4 DEF EventsIn
<1> QED
  BY <1>1, <1>5, <1>6, <1>7 DEF exporterVars, GivenUp

\* A batch that is settled leaves the exports as a whole, and no other with it.
LEMMA TurnSettles ==
  ASSUME TypeOK, Apart, NEW c, NEW s \in Outcomes \cup {"delivered"}, Turns(c, s),
         delivery[c].state \in Exporting
  PROVE  Exporter!Next
<1> DEFINE E(b) == EventsOf(delivery[b].events)
<1>1. /\ Waiting' = Waiting /\ captures' = captures /\ c \in Event
      /\ \A b \in Event : EventsOf(delivery'[b].events) = E(b)
      /\ delivery'[c].state = s
      /\ \A b \in Event \ {c} : delivery'[b].state = delivery[b].state
  BY DEF Turns, Waiting, EventsOf
<1>2. E(c) \in Exports
  BY <1>1 DEF Exports, BatchesIn
<1>3. /\ s \notin Exporting /\ "none" \notin Exporting
      /\ "delivered" \notin Exporting
  BY DEF Outcomes, Exporting, InFlight
<1>4. \A b \in Event \ {c} : delivery[b].state # "none" => E(b) \cap E(c) = {} /\ b \in E(b)
  BY <1>1, <1>3 DEF Apart
<1>5. E(c) \subseteq (1..captures) \ Waiting
  BY <1>1, <1>3 DEF Apart
<1> HIDE DEF E
<1>6. Exports' = Exports \ {E(c)}
  <2>1. Exports = {E(b) : b \in {x \in Event : delivery[x].state \in Exporting}}
    BY DEF Exports, BatchesIn, E
  <2>2. Exports' = {E(b) : b \in {x \in Event : delivery'[x].state \in Exporting}}
    BY <1>1 DEF Exports, BatchesIn, E
  <2>3. \A x \in Event : delivery'[x].state \in Exporting
                          <=> delivery[x].state \in Exporting /\ x # c
    BY <1>1, <1>3
  <2>4. \A b \in Event \ {c} : delivery[b].state \in Exporting => E(b) # E(c)
    BY <1>3, <1>4
  <2> QED BY <1>1, <2>1, <2>2, <2>3, <2>4
<1>7. ASSUME NEW S, NEW T, \A b \in Event \ {c} :
               delivery[b].state \in S <=> delivery'[b].state \in S,
             T = EventsIn(S)
      PROVE  /\ delivery[c].state \notin S /\ s \in S => EventsIn(S)' = T \cup E(c)
             /\ delivery[c].state \notin S /\ s \notin S => EventsIn(S)' = T
             /\ delivery[c].state \in S /\ s \in S => EventsIn(S)' = T
  <2>1. T = UNION {E(b) : b \in {x \in Event : delivery[x].state \in S}}
    BY <1>7 DEF EventsIn, BatchesIn, E
  <2>2. \A x : x \in T <=> \E b \in Event : delivery[b].state \in S /\ x \in E(b)
    BY <2>1
  <2>3. EventsIn(S)' = UNION {E(b) : b \in {x \in Event : delivery'[x].state \in S}}
    BY <1>1 DEF EventsIn, BatchesIn, E
  <2>4. \A x : x \in EventsIn(S)' <=> \E b \in Event : delivery'[b].state \in S /\ x \in E(b)
    BY <2>3
  <2> QED BY <1>1, <1>7, <2>2, <2>4
<1> DEFINE Kept == Exporting \cup {"delivered"}
<1>8. \A b \in Event \ {c} : \A S : delivery[b].state \in S <=> delivery'[b].state \in S
  BY <1>1
<1>9. CASE s = "delivered"
  <2>1. EventsIn({"delivered"})' = EventsIn({"delivered"}) \cup E(c)
    BY <1>3, <1>7, <1>8, <1>9
  <2>2. EventsIn(Kept)' = EventsIn(Kept)
    BY <1>7, <1>8, <1>9
  <2>3. GivenUp' = GivenUp
    BY <1>1, <2>2 DEF GivenUp
  <2>4. Exporter!Settle(E(c))
    BY <1>1, <1>6, <2>1, <2>3 DEF Exporter!Settle
  <2> QED BY <1>2, <2>4 DEF Exporter!Next, E
<1>10. CASE s \in Outcomes
  <2>0. s # "delivered" /\ s \notin Kept
    BY <1>3, <1>10 DEF Outcomes
  <2>1. EventsIn({"delivered"})' = EventsIn({"delivered"})
    BY <1>3, <1>7, <1>8, <2>0
  <2>2. EventsIn(Kept) = UNION {E(b) : b \in {x \in Event : delivery[x].state \in Kept}}
    BY DEF EventsIn, BatchesIn, E
  <2>3. EventsIn(Kept)' = UNION {E(b) : b \in {x \in Event : delivery'[x].state \in Kept}}
    BY <1>1 DEF EventsIn, BatchesIn, E
  <2>4. \A b \in Event \ {c} : delivery[b].state \in Kept => E(b) \cap E(c) = {}
    BY <1>3, <1>4
  <2>5. EventsIn(Kept)' = EventsIn(Kept) \ E(c)
    <3> HIDE DEF Kept
    <3>1. \A x \in Event : delivery'[x].state \in Kept <=> delivery[x].state \in Kept /\ x # c
      BY <1>1, <2>0
    <3>2. ASSUME NEW x
          PROVE  x \in EventsIn(Kept)' <=> x \in EventsIn(Kept) /\ x \notin E(c)
      BY <2>2, <2>3, <2>4, <3>1
    <3> QED BY <3>2
  <2>6. GivenUp' = GivenUp \cup E(c)
    BY <1>1, <1>5, <2>5 DEF GivenUp, E
  <2>7. Exporter!Settle(E(c))
    BY <1>1, <1>6, <2>1, <2>6 DEF Exporter!Settle
  <2> QED BY <1>2, <2>7 DEF Exporter!Next, E
<1> QED BY <1>9, <1>10

\* Settled or not, the batches stay apart.
LEMMA TurnApart ==
  ASSUME TypeOK, Apart, NEW c, NEW s \in Exporting \cup Outcomes \cup {"delivered"},
         Turns(c, s), delivery[c].state \in Exporting
  PROVE  Apart'
<1>1. /\ queue' = queue /\ Waiting' = Waiting /\ captures' = captures
      /\ \A b \in Event : EventsOf(delivery'[b].events) = EventsOf(delivery[b].events)
  BY DEF Turns, Waiting, EventsOf
<1>2. \A b \in Event : delivery'[b].state # "none" => delivery[b].state # "none"
  BY DEF Turns, Exporting, InFlight
<1> QED
  BY <1>1, <1>2 DEF Apart

\* EventExport counts as this module does.
LEMMA SameCardinality == \A S : Exporter!Cardinality(S) = Cardinality(S)
BY DEF Exporter!Cardinality, Cardinality

\* An exception that finds no room is discarded.
LEMMA DropDiscards ==
  ASSUME TypeOK, Apart, NEW w \in Workers, CaptureDropped(w)
  PROVE  Exporter!Next /\ Apart'
<1> DEFINE e == captures + 1
<1>1. /\ captures \in Nat /\ e \in Event /\ captures' = e /\ UNCHANGED << queue, delivery >>
      /\ ~ (Len(queue) < MaxQueueSize)
  BY ModelAssumption DEF CaptureDropped, NextEvent, HasRoom, queueVars, TypeOK, Event
<1>2. /\ Waiting' = Waiting /\ Exports' = Exports
      /\ \A S : EventsIn(S)' = EventsIn(S)
  BY <1>1 DEF Waiting, EventsOf, Exports, EventsIn, BatchesIn
<1>3. 1..e = (1..captures) \cup {e} /\ e \notin 1..captures
  BY <1>1
<1>4. /\ Waiting \subseteq 1..captures
      /\ \A b \in Event : delivery[b].state # "none" =>
           EventsOf(delivery[b].events) \subseteq (1..captures) \ Waiting
  BY DEF Apart
<1> HIDE DEF e
<1>5. \A S : "none" \notin S => EventsIn(S) \subseteq 1..captures
  BY <1>4 DEF EventsIn, BatchesIn
<1>6. "none" \notin Exporting \cup {"delivered"} /\ "none" \notin Exporting
  BY DEF Exporting, InFlight
<1>7. e \notin Waiting \cup EventsIn(Exporting \cup {"delivered"}) \cup EventsIn({"delivered"})
                \cup GivenUp
  BY <1>3, <1>4, <1>5, <1>6 DEF GivenUp
<1>8. e \notin UNION Exports
  BY <1>3, <1>4, <1>6 DEF Exports, BatchesIn
<1>9. GivenUp' = GivenUp \cup {e}
  BY <1>1, <1>2, <1>3, <1>7 DEF GivenUp
<1>10. Cardinality(Waiting) >= MaxQueueSize
  BY <1>1, SettingsAssumption DEF Apart, TypeOK
<1>11. Exporter!Discard(e)
  <2>1. e \notin Exporter!Captured
    BY <1>7, <1>8 DEF Exporter!Captured
  <2>2. EventsIn({"delivered"})' = EventsIn({"delivered"})
    BY <1>2
  <2> QED
    BY <1>2, <1>9, <1>10, <2>1, <2>2, SameCardinality DEF Exporter!Discard
<1>12. Apart'
  BY <1>1, <1>2, <1>3 DEF Apart
<1> QED
  BY <1>1, <1>11, <1>12 DEF Exporter!Next

\* An exception that finds room waits.
LEMMA EnqueueAccepts ==
  ASSUME TypeOK, Apart, NEW w \in Workers, NextEvent(w), Enqueue, UNCHANGED delivery
  PROVE  Exporter!Next /\ Apart'
<1> DEFINE e == captures + 1
<1>1. /\ captures \in Nat /\ e \in Event /\ captures' = e /\ delivery' = delivery
      /\ Len(queue) < MaxQueueSize /\ queue' = Append(queue, e)
  BY ModelAssumption DEF NextEvent, Enqueue, HasRoom, TypeOK, Event
<1>2. /\ Exports' = Exports
      /\ \A S : EventsIn(S)' = EventsIn(S)
  BY <1>1 DEF Exports, EventsIn, BatchesIn
<1>3. 1..e = (1..captures) \cup {e} /\ e \notin 1..captures
  BY <1>1
<1>4. /\ Waiting \subseteq 1..captures
      /\ \A b \in Event : delivery[b].state # "none" =>
           EventsOf(delivery[b].events) \subseteq (1..captures) \ Waiting
  BY DEF Apart
<1> HIDE DEF e
<1>5. Waiting' = Waiting \cup {e} /\ Len(queue') = Len(queue) + 1
  <2>1. queue \in Seq(Event) /\ Len(queue) \in Nat
    BY DEF TypeOK
  <2>2. /\ Len(queue') = Len(queue) + 1 /\ queue'[Len(queue) + 1] = e
        /\ \A i \in 1..Len(queue) : queue'[i] = queue[i]
        /\ DOMAIN queue' = 1..(Len(queue) + 1) /\ DOMAIN queue = 1..Len(queue)
    BY <1>1, <2>1
  <2>3. 1..(Len(queue) + 1) = (1..Len(queue)) \cup {Len(queue) + 1}
    BY <2>1
  <2> QED
    BY <2>2, <2>3 DEF Waiting, EventsOf
<1>6. "none" \notin Exporting \cup {"delivered"} /\ "none" \notin Exporting
  BY DEF Exporting, InFlight
<1>7. \A S : "none" \notin S => EventsIn(S) \subseteq 1..captures
  BY <1>4 DEF EventsIn, BatchesIn
<1>8. e \notin Waiting \cup EventsIn(Exporting \cup {"delivered"}) \cup EventsIn({"delivered"})
                \cup GivenUp
  BY <1>3, <1>4, <1>6, <1>7 DEF GivenUp
<1>9. e \notin UNION Exports
  BY <1>3, <1>4, <1>6 DEF Exports, BatchesIn
<1>10. GivenUp' = GivenUp
  BY <1>1, <1>2, <1>3, <1>5, <1>8 DEF GivenUp
<1>11. /\ IsFiniteSet(Waiting') /\ Cardinality(Waiting') = Len(queue')
       /\ Cardinality(Waiting) < MaxQueueSize
  BY <1>1, <1>5, <1>8, FS_AddElement DEF Apart
<1>12. Exporter!Accept(e)
  <2>1. e \notin Exporter!Captured
    BY <1>8, <1>9 DEF Exporter!Captured
  <2>2. EventsIn({"delivered"})' = EventsIn({"delivered"})
    BY <1>2
  <2> QED
    BY <1>2, <1>5, <1>10, <1>11, <2>1, <2>2, SameCardinality DEF Exporter!Accept
<1>13. Apart'
  <2>1. Waiting' \subseteq 1..captures'
    BY <1>1, <1>3, <1>4, <1>5
  <2>2. \A b \in Event : delivery[b].state # "none" =>
          EventsOf(delivery[b].events) \subseteq (1..captures') \ Waiting'
    BY <1>1, <1>3, <1>4, <1>5
  <2> QED
    BY <1>1, <1>11, <2>1, <2>2 DEF Apart
<1> QED
  BY <1>1, <1>12, <1>13 DEF Exporter!Next

\* A flush that takes the queue exports all of it, as the batch of its head.
LEMMA TakeExports ==
  ASSUME TypeOK, Owned, Apart, NEW t \in Threads, TakeQueue(t)
  PROVE  Exporter!Next /\ Apart'
<1> DEFINE h == Head(queue)
<1>1. /\ queue \in Seq(Event) /\ queue # << >> /\ queue' = << >> /\ captures' = captures
      /\ h \in Event /\ h = queue[1] /\ 1 \in DOMAIN queue
  BY DEF TakeQueue, ClearQueue, processVars, TypeOK
<1>2. /\ delivery'[h].events = queue /\ delivery'[h].state = "taken"
      /\ \A b \in Event \ {h} : delivery'[b] = delivery[b]
  BY <1>1 DEF TakeQueue, TypeOK, Batch
<1>3. delivery[h].state = "none"
  BY <1>1 DEF Owned, Freshness
<1>4. /\ EventsOf(delivery'[h].events) = Waiting
      /\ \A b \in Event \ {h} : EventsOf(delivery'[b].events) = EventsOf(delivery[b].events)
  BY <1>2 DEF Waiting, EventsOf
<1>5. h \in Waiting
  BY <1>1 DEF Waiting, EventsOf
<1>6. Waiting' = {} /\ Len(queue') = 0
  BY <1>1 DEF Waiting, EventsOf
<1> HIDE DEF h
<1>7. /\ "taken" \in Exporting /\ "none" \notin Exporting
      /\ "taken" # "delivered" /\ "none" # "delivered"
  BY DEF Exporting, InFlight
<1>8. /\ BatchesIn(Exporting)' = BatchesIn(Exporting) \cup {h}
      /\ h \notin BatchesIn(Exporting)
  BY <1>1, <1>2, <1>3, <1>7 DEF BatchesIn
<1>9. Exports' = Exports \cup {Waiting}
  <2>1. Exports' = {EventsOf(delivery'[b].events) : b \in BatchesIn(Exporting) \cup {h}}
    BY <1>8 DEF Exports
  <2>2. \A b \in BatchesIn(Exporting) : b \in Event \ {h}
    BY <1>8 DEF BatchesIn
  <2> QED
    BY <1>4, <2>1, <2>2 DEF Exports
<1>10. EventsIn({"delivered"})' = EventsIn({"delivered"})
  <2>1. BatchesIn({"delivered"})' = BatchesIn({"delivered"})
    BY <1>1, <1>2, <1>3, <1>7 DEF BatchesIn
  <2>2. \A b \in BatchesIn({"delivered"}) : b \in Event \ {h}
    BY <1>3, <1>7 DEF BatchesIn
  <2> QED
    BY <1>4, <2>1, <2>2 DEF EventsIn
<1>11. EventsIn(Exporting \cup {"delivered"})' = EventsIn(Exporting \cup {"delivered"}) \cup Waiting
  <2> DEFINE K == Exporting \cup {"delivered"}
  <2>1. "taken" \in K /\ "none" \notin K
    BY <1>7
  <2> HIDE DEF K
  <2>2. BatchesIn(K)' = BatchesIn(K) \cup {h}
    <3>1. BatchesIn(K)' = {b \in Event : delivery'[b].state \in K}
      BY DEF BatchesIn, K, Exporting, InFlight
    <3> QED BY <1>1, <1>2, <3>1, <2>1 DEF BatchesIn
  <2>3. \A b \in BatchesIn(K) : b \in Event \ {h}
    BY <1>3, <2>1 DEF BatchesIn
  <2>4. EventsIn(K)' = UNION {EventsOf(delivery'[b].events) : b \in BatchesIn(K) \cup {h}}
    BY <2>2 DEF EventsIn
  <2>5. \A x : x \in EventsIn(K)' <=> x \in EventsIn(K) \/ x \in Waiting
    BY <1>4, <2>3, <2>4 DEF EventsIn
  <2>6. EventsIn(K)' = EventsIn(K) \cup Waiting
    BY <2>5
  <2> QED BY <2>6 DEF K
<1>12. GivenUp' = GivenUp
  BY <1>1, <1>6, <1>11 DEF GivenUp
<1>13. Exporter!Export
  BY <1>5, <1>6, <1>9, <1>10, <1>12 DEF Exporter!Export
<1>14. Apart'
  <2>1. IsFiniteSet(Waiting') /\ Cardinality(Waiting') = Len(queue')
    BY <1>6, FS_EmptySet
  <2>2. ASSUME NEW b \in Event, delivery'[b].state # "none"
        PROVE  /\ b \in EventsOf(delivery'[b].events)
               /\ EventsOf(delivery'[b].events) \subseteq 1..captures
               /\ \A c \in Event \ {b} : delivery'[c].state # "none" =>
                    EventsOf(delivery'[b].events) \cap EventsOf(delivery'[c].events) = {}
    <3>1. CASE b = h
      BY <1>2, <1>4, <1>5, <2>2, <3>1 DEF Apart
    <3>2. CASE b # h
      <4>1. b \in Event \ {h} /\ delivery[b].state # "none"
        BY <1>2, <2>2, <3>2
      <4>2. \A c \in Event \ {b} : delivery'[c].state # "none" =>
              EventsOf(delivery'[b].events) \cap EventsOf(delivery'[c].events) = {}
        BY <1>2, <1>4, <4>1 DEF Apart
      <4> QED BY <1>4, <4>1, <4>2 DEF Apart
    <3> QED BY <3>1, <3>2
  <2> QED
    BY <1>1, <1>6, <2>1, <2>2 DEF Apart
<1> QED
  BY <1>13, <1>14 DEF Exporter!Next

\* Every step is a step of the abstract exporter, or one it does not see.
LEMMA ExportStep ==
  ASSUME TypeOK, Owned, Apart, [Next]_vars
  PROVE  (Exporter!Next \/ UNCHANGED exporterVars) /\ Apart'
<1>1. CASE \E w \in Workers : CaptureDropped(w)
  BY <1>1, DropDiscards
<1>2. CASE \E w \in Workers : NextEvent(w) /\ Enqueue /\ UNCHANGED delivery
  BY <1>2, EnqueueAccepts
<1>3. CASE \E t \in Threads : TakeQueue(t)
  BY <1>3, TakeExports
<1>4. CASE UNCHANGED << queue, captures, delivery >>
  <2>1. /\ Waiting' = Waiting /\ Exports' = Exports
        /\ \A S : EventsIn(S)' = EventsIn(S)
    BY <1>4 DEF Waiting, EventsOf, Exports, EventsIn, BatchesIn
  <2>2. EventsIn({"delivered"})' = EventsIn({"delivered"}) /\ GivenUp' = GivenUp
    BY <1>4 DEF Waiting, EventsOf, GivenUp, EventsIn, BatchesIn, Exporting, InFlight
  <2>3. UNCHANGED exporterVars
    BY <2>1, <2>2 DEF exporterVars
  <2>4. \A b \in Event : EventsOf(delivery'[b].events) = EventsOf(delivery[b].events)
    BY <1>4
  <2>5. Apart'
    BY <1>4, <2>1, <2>4 DEF Apart
  <2> QED
    BY <2>3, <2>5
<1>5. ASSUME NEW c \in Event, NEW s \in Exporting \cup Outcomes \cup {"delivered"},
             Turns(c, s), delivery[c].state \in Exporting
      PROVE  (Exporter!Next \/ UNCHANGED exporterVars) /\ Apart'
  BY <1>5, TurnApart, TurnSettles, TurnStutters
<1> QED
  BY <1>1, <1>2, <1>3, <1>4, <1>5, StepsOfExport

\* The queue, the batches and their outcomes implement EventExport, for any
\* number of request threads and captures and any settings: whole queues leave
\* in flushQueue, sendAttempt's outcomes settle a batch once and as a whole, and
\* captureException discards an event only at a full queue.
THEOREM ReporterImplementsExport == Spec => ImplementsEventExport
<1>1. Init => (TypeOK /\ Owned /\ Apart) /\ Exporter!Init
  BY TypeInit, OwnedInit, ExportInit
<1>2. (TypeOK /\ Owned /\ Apart) /\ [Next]_vars
        => (TypeOK /\ Owned /\ Apart)' /\ (Exporter!Next \/ UNCHANGED exporterVars)
  BY TypeStep, OwnedStep, ExportStep
<1> QED
  BY <1>1, <1>2, PTL
  DEF Spec, ImplementsEventExport, Exporter!Spec, Exporter!vars, exporterVars

-----------------------------------------------------------------------------
(* The counters.                                                           *)

\* A sum in which one batch changes.
LEMMA TotalChange ==
  ASSUME NEW f \in [Event -> Nat], NEW g \in [Event -> Nat], NEW c \in Event,
         \A b \in Event \ {c} : g[b] = f[b], IsFiniteSet(Pairs(f))
  PROVE  /\ IsFiniteSet(Pairs(g)) /\ Total(f) \in Nat /\ Total(g) \in Nat
         /\ Total(g) + f[c] = Total(f) + g[c]
<1> DEFINE Block(n) == {c} \X (1..n)
           R == {p \in Pairs(f) : p[1] # c}
<1>1. /\ \A p : p \in Pairs(f) <=> \E b \in Event : \E i \in 1..f[b] : p = << b, i >>
      /\ \A p : p \in Pairs(g) <=> \E b \in Event : \E i \in 1..g[b] : p = << b, i >>
  BY DEF Pairs
<1>2. \A n : \A p : p \in Block(n) <=> \E i \in 1..n : p = << c, i >>
  OBVIOUS
<1>3. \A p : p \in R <=> \E b \in Event \ {c} : \E i \in 1..f[b] : p = << b, i >>
  BY <1>1
<1>4. Pairs(f) = R \cup Block(f[c])
  BY <1>1, <1>2, <1>3
<1>5. Pairs(g) = R \cup Block(g[c])
  BY <1>1, <1>2, <1>3
<1>6. \A n : R \cap Block(n) = {}
  BY <1>2, <1>3
<1>7. IsFiniteSet(R)
  BY FS_Subset
<1>8. ASSUME NEW n \in Nat
      PROVE  IsFiniteSet(Block(n)) /\ Cardinality(Block(n)) = n
  <2>1. IsFiniteSet(1..n) /\ Cardinality(1..n) = n
    <3>1. /\ IsFiniteSet(1..n)
          /\ Cardinality(1..n) = IF 1 > n THEN 0 ELSE n - 1 + 1
      BY SMTT(30), FS_Interval
    <3> QED
      BY <3>1
  <2>2. IsFiniteSet({c}) /\ Cardinality({c}) = 1
    BY FS_Singleton
  <2>3. IsFiniteSet(Block(n)) /\ Cardinality(Block(n)) = 1 * n
    BY SMTT(30), <2>1, <2>2, FS_Product
  <2> QED
    BY <2>3
<1>9. f[c] \in Nat /\ g[c] \in Nat /\ Cardinality(R) \in Nat
  BY <1>7, FS_CardinalityType
<1> HIDE DEF Block, R
<1>10. ASSUME NEW n \in Nat
       PROVE  /\ IsFiniteSet(R \cup Block(n))
              /\ Cardinality(R \cup Block(n)) = Cardinality(R) + n
  <2>1. /\ IsFiniteSet(R \cup Block(n))
        /\ Cardinality(R \cup Block(n)) =
             Cardinality(R) + Cardinality(Block(n)) - Cardinality(R \cap Block(n))
    BY <1>7, <1>8, FS_Union
  <2>2. Cardinality(R \cap Block(n)) = 0
    BY <1>6, FS_EmptySet
  <2> QED
    BY <1>8, <1>9, <2>1, <2>2
<1>11. Total(f) = Cardinality(R) + f[c] /\ Total(g) = Cardinality(R) + g[c]
  BY <1>4, <1>5, <1>9, <1>10 DEF Total
<1>12. IsFiniteSet(Pairs(g))
  BY <1>5, <1>9, <1>10
<1> QED
  BY <1>9, <1>11, <1>12

\* A sum of zeros.
LEMMA TotalZero ==
  ASSUME NEW f \in [Event -> Nat], \A b \in Event : f[b] = 0
  PROVE  IsFiniteSet(Pairs(f)) /\ Total(f) = 0
<1>1. \A b \in Event : {b} \X (1..f[b]) = {}
  OBVIOUS
<1>2. Pairs(f) = {}
  BY <1>1 DEF Pairs
<1> QED
  BY <1>2, FS_EmptySet DEF Total

\* Two finite sets that differ in one element at most.
LEMMA ButOne ==
  ASSUME NEW S, NEW T, NEW x, IsFiniteSet(S), S \ {x} = T \ {x}
  PROVE  /\ IsFiniteSet(T)
         /\ Cardinality(S) \in Nat /\ Cardinality(T) \in Nat
         /\ (x \in S <=> x \in T) => Cardinality(T) = Cardinality(S)
         /\ x \in S /\ x \notin T => Cardinality(S) = Cardinality(T) + 1
         /\ x \notin S /\ x \in T => Cardinality(T) = Cardinality(S) + 1
<1> DEFINE R == S \ {x}
<1>1. IsFiniteSet(R) /\ x \notin R
  BY FS_Difference
<1>2. PICK n \in Nat : Cardinality(R) = n /\ Cardinality(R \cup {x}) = n + 1
  BY <1>1, FS_AddElement, FS_CardinalityType
<1>3. IsFiniteSet(R \cup {x})
  BY <1>1, FS_AddElement
<1>4. (x \in S => S = R \cup {x}) /\ (x \notin S => S = R)
  OBVIOUS
<1>5. (x \in T => T = R \cup {x}) /\ (x \notin T => T = R)
  OBVIOUS
<1> HIDE DEF R
<1>6. IsFiniteSet(T)
  BY <1>1, <1>3, <1>5
<1>7. (x \in S => Cardinality(S) = n + 1) /\ (x \notin S => Cardinality(S) = n)
  BY <1>2, <1>4
<1>8. (x \in T => Cardinality(T) = n + 1) /\ (x \notin T => Cardinality(T) = n)
  BY <1>2, <1>5
<1> QED
  BY <1>2, <1>6, <1>7, <1>8

\* Batches are finitely many.
LEMMA FiniteBatches == \A S : IsFiniteSet(BatchesIn(S))
<1>1. IsFiniteSet(Event)
  BY FS_Interval, ModelAssumption DEF Event
<1> QED
  BY <1>1, FS_Subset DEF BatchesIn

\* The summands are numbers.
LEMMA Summands ==
  ASSUME TypeOK
  PROVE  /\ \A S : Sizes(S) \in [Event -> Nat]
         /\ Resends \in [Event -> Nat]
<1>1. \A b \in Event : Len(delivery[b].events) \in Nat /\ delivery[b].attempt \in Nat
  BY DEF TypeOK, Batch
<1> QED
  BY <1>1 DEF Sizes, Resends

\* The sums and numbers that the counters are compared with.
TakenEvents == Total(Sizes({"taken"}))
CountedEvents == Total(Sizes(CountedStates))
CountedBatches == Cardinality(BatchesIn(CountedStates))
RejectedBatches == Cardinality(BatchesIn({"rejected"}))
FailedBatches == Cardinality(BatchesIn({"failed"}))
Resent == Total(Resends)

\* The threads that have moved one of two counters, or none of them yet.
Sizing == At({"size"})
Rejecting == At({"rejected"})
Dropping == At({"dropped"})
Between == << Sizing, Rejecting, Dropping >>

Finite ==
  /\ IsFiniteSet(Pairs(Sizes({"taken"}))) /\ IsFiniteSet(Pairs(Sizes(CountedStates)))
  /\ IsFiniteSet(Pairs(Resends))

Attempts ==
  \A b \in Event :
    /\ delivery[b].state \in Unsent => delivery[b].attempt = 0
    /\ delivery[b].state \in {"sending", "backoff"} => delivery[b].attempt # 0

Balance ==
  /\ captures + metrics["circuitOpen"] = metrics["queued"] + metrics["dropped"] + Dropping
  /\ metrics["circuitOpen"] + Rejecting = RejectedBatches
  /\ metrics["queued"] = Len(queue) + TakenEvents + metrics["batchEvents"]
  /\ metrics["batchEvents"] = CountedEvents
  /\ metrics["batches"] = CountedBatches + Sizing
  /\ metrics["failures"] = FailedBatches
  /\ metrics["retries"] = Resent

\* The parts of Accounted, before and after a step.
LEMMA AccountedParts ==
  /\ Accounted <=> Attempts /\ Finite /\ Balance
  /\ Accounted' <=> Attempts' /\ Finite' /\ Balance'
BY DEF Accounted, Attempts, Finite, Balance, MetricsBalance, TakenEvents, CountedEvents,
       CountedBatches, RejectedBatches, FailedBatches, Resent, Sizing, Rejecting, Dropping

\* Threads are finitely many; one of them moves.
LEMMA AtMoves ==
  ASSUME NEW t \in Threads, \A u \in Threads \ {t} : pc'[u] = pc[u], NEW S
  PROVE  /\ At(S) \in Nat /\ At(S)' \in Nat
         /\ (pc[t] \in S <=> pc'[t] \in S) => At(S)' = At(S)
         /\ pc[t] \in S /\ pc'[t] \notin S => At(S) = At(S)' + 1
         /\ pc[t] \notin S /\ pc'[t] \in S => At(S)' = At(S) + 1
<1> DEFINE A == {u \in Threads : pc[u] \in S}
           B == {u \in Threads : pc'[u] \in S}
<1>1. IsFiniteSet(Threads)
  BY ModelAssumption, FS_AddElement DEF Threads
<1>2. IsFiniteSet(A)
  BY <1>1, FS_Subset
<1>4. A \ {t} = B \ {t}
  OBVIOUS
<1>5. (t \in A <=> pc[t] \in S) /\ (t \in B <=> pc'[t] \in S)
  OBVIOUS
<1> HIDE DEF A, B
<1>6. /\ Cardinality(A) \in Nat /\ Cardinality(B) \in Nat
      /\ (t \in A <=> t \in B) => Cardinality(B) = Cardinality(A)
      /\ t \in A /\ t \notin B => Cardinality(A) = Cardinality(B) + 1
      /\ t \notin A /\ t \in B => Cardinality(B) = Cardinality(A) + 1
  BY <1>2, <1>4, ButOne
<1>7. At(S) = Cardinality(A) /\ At(S)' = Cardinality(B)
  BY DEF At, A, B
<1> QED
  BY <1>5, <1>6, <1>7

\* Those numbers are numbers.
LEMMA DroppingType ==
  ASSUME TypeOK
  PROVE  Sizing \in Nat /\ Rejecting \in Nat /\ Dropping \in Nat
<1>1. IsFiniteSet(Threads)
  BY ModelAssumption, FS_AddElement DEF Threads
<1>2. \A S : IsFiniteSet({u \in Threads : pc[u] \in S})
  BY <1>1, FS_Subset
<1> QED
  BY <1>2, FS_CardinalityType DEF Sizing, Rejecting, Dropping, At

\* What the numbers of threads between two counters are, and what a thread
\* that moves does to them.
LEMMA BetweenMoves ==
  ASSUME NEW t \in Threads, \A u \in Threads \ {t} : pc'[u] = pc[u]
  PROVE  /\ Sizing \in Nat /\ Sizing' \in Nat
         /\ Rejecting \in Nat /\ Rejecting' \in Nat
         /\ Dropping \in Nat /\ Dropping' \in Nat
         /\ (pc[t] = "size" <=> pc'[t] = "size") => Sizing' = Sizing
         /\ pc[t] = "size" /\ pc'[t] # "size" => Sizing = Sizing' + 1
         /\ pc[t] # "size" /\ pc'[t] = "size" => Sizing' = Sizing + 1
         /\ (pc[t] = "rejected" <=> pc'[t] = "rejected") => Rejecting' = Rejecting
         /\ pc[t] = "rejected" /\ pc'[t] # "rejected" => Rejecting = Rejecting' + 1
         /\ pc[t] # "rejected" /\ pc'[t] = "rejected" => Rejecting' = Rejecting + 1
         /\ (pc[t] = "dropped" <=> pc'[t] = "dropped") => Dropping' = Dropping
         /\ pc[t] = "dropped" /\ pc'[t] # "dropped" => Dropping = Dropping' + 1
         /\ pc[t] # "dropped" /\ pc'[t] = "dropped" => Dropping' = Dropping + 1
<1>1. \A x, y : x \in {y} <=> x = y
  OBVIOUS
<1>2. /\ Sizing \in Nat /\ Sizing' \in Nat
      /\ (pc[t] = "size" <=> pc'[t] = "size") => Sizing' = Sizing
      /\ pc[t] = "size" /\ pc'[t] # "size" => Sizing = Sizing' + 1
      /\ pc[t] # "size" /\ pc'[t] = "size" => Sizing' = Sizing + 1
  BY <1>1, AtMoves DEF Sizing
<1>3. /\ Rejecting \in Nat /\ Rejecting' \in Nat
      /\ (pc[t] = "rejected" <=> pc'[t] = "rejected") => Rejecting' = Rejecting
      /\ pc[t] = "rejected" /\ pc'[t] # "rejected" => Rejecting = Rejecting' + 1
      /\ pc[t] # "rejected" /\ pc'[t] = "rejected" => Rejecting' = Rejecting + 1
  BY <1>1, AtMoves DEF Rejecting
<1>4. /\ Dropping \in Nat /\ Dropping' \in Nat
      /\ (pc[t] = "dropped" <=> pc'[t] = "dropped") => Dropping' = Dropping
      /\ pc[t] = "dropped" /\ pc'[t] # "dropped" => Dropping = Dropping' + 1
      /\ pc[t] # "dropped" /\ pc'[t] = "dropped" => Dropping' = Dropping + 1
  BY <1>1, AtMoves DEF Dropping
<1> QED
  BY <1>2, <1>3, <1>4

\* A thread that stays clear of the counters changes none of those numbers.
LEMMA BetweenStays ==
  ASSUME TypeOK,
         \/ pc' = pc
         \/ \E t \in Threads, q \in {"idle", "flush", "count", "admit", "deliver"} :
              /\ pc' = [pc EXCEPT ![t] = q]
              /\ pc[t] \notin {"size", "rejected", "dropped"}
  PROVE  UNCHANGED Between
<1>1. CASE pc' = pc
  BY <1>1 DEF Between, Sizing, Rejecting, Dropping, At
<1>2. ASSUME NEW t \in Threads, NEW q \in {"idle", "flush", "count", "admit", "deliver"},
             pc' = [pc EXCEPT ![t] = q], pc[t] \notin {"size", "rejected", "dropped"}
      PROVE  UNCHANGED Between
  <2>1. /\ pc'[t] = q /\ q \notin {"size", "rejected", "dropped"}
        /\ \A u \in Threads \ {t} : pc'[u] = pc[u]
    BY <1>2 DEF TypeOK
  <2> QED
    BY <1>2, <2>1, BetweenMoves DEF Between
<1> QED
  BY <1>1, <1>2

\* What the numbers of the ledger are.
LEMMA LedgerType ==
  ASSUME TypeOK, Finite
  PROVE  /\ TakenEvents \in Nat /\ CountedEvents \in Nat /\ Resent \in Nat
         /\ CountedBatches \in Nat /\ RejectedBatches \in Nat /\ FailedBatches \in Nat
BY FiniteBatches, FS_CardinalityType
   DEF Finite, TakenEvents, CountedEvents, Resent, Total, CountedBatches, RejectedBatches,
       FailedBatches

\* One batch changes: so much for the sums,
LEMMA SumsMove ==
  ASSUME TypeOK, TypeOK', Finite, NEW c \in Event,
         \A b \in Event \ {c} : delivery'[b] = delivery[b]
  PROVE  /\ Finite'
         /\ TakenEvents' + Sizes({"taken"})[c] = TakenEvents + Sizes({"taken"})'[c]
         /\ CountedEvents' + Sizes(CountedStates)[c] = CountedEvents + Sizes(CountedStates)'[c]
         /\ Resent' + Resends[c] = Resent + Resends'[c]
<1>1. \A S : /\ Sizes(S) \in [Event -> Nat]
             /\ Sizes(S)' \in [Event -> Nat]
             /\ \A b \in Event \ {c} : Sizes(S)'[b] = Sizes(S)[b]
  <2>1. \A S : \A b \in Event \ {c} : Sizes(S)'[b] = Sizes(S)[b]
    BY DEF Sizes, BatchesIn
  <2>2. \A b \in Event : Len(delivery'[b].events) \in Nat
    BY DEF TypeOK, Batch
  <2>3. \A S : Sizes(S)' \in [Event -> Nat]
    BY <2>2 DEF Sizes
  <2> QED
    BY <2>1, <2>3, Summands
<1>2. /\ Resends \in [Event -> Nat] /\ Resends' \in [Event -> Nat]
      /\ \A b \in Event \ {c} : Resends'[b] = Resends[b]
  <2>1. \A b \in Event \ {c} : Resends'[b] = Resends[b]
    BY DEF Resends
  <2>2. \A b \in Event : delivery'[b].attempt \in Nat
    BY DEF TypeOK, Batch
  <2>3. Resends' \in [Event -> Nat]
    BY <2>2 DEF Resends
  <2> QED
    BY <2>1, <2>3, Summands
<1>3. /\ IsFiniteSet(Pairs(Sizes({"taken"}))')
      /\ Total(Sizes({"taken"}))' + Sizes({"taken"})[c]
           = Total(Sizes({"taken"})) + Sizes({"taken"})'[c]
  BY SMTT(30), <1>1, TotalChange DEF Finite, Total, Pairs
<1>4. /\ IsFiniteSet(Pairs(Sizes(CountedStates))')
      /\ Total(Sizes(CountedStates))' + Sizes(CountedStates)[c]
           = Total(Sizes(CountedStates)) + Sizes(CountedStates)'[c]
  BY <1>1, TotalChange DEF Finite, Total, Pairs, CountedStates, InFlight
<1>5. /\ IsFiniteSet(Pairs(Resends)')
      /\ Total(Resends)' + Resends[c] = Total(Resends) + Resends'[c]
  BY <1>2, TotalChange DEF Finite, Total, Pairs
<1> QED
  BY <1>3, <1>4, <1>5 DEF Finite, TakenEvents, CountedEvents, Resent

\* and so much for the numbers of batches.
LEMMA NumbersMove ==
  ASSUME NEW c \in Event, \A b \in Event \ {c} : delivery'[b] = delivery[b], NEW S
  PROVE  /\ (delivery[c].state \in S <=> delivery'[c].state \in S) =>
              Cardinality(BatchesIn(S))' = Cardinality(BatchesIn(S))
         /\ delivery[c].state \notin S /\ delivery'[c].state \in S =>
              Cardinality(BatchesIn(S))' = Cardinality(BatchesIn(S)) + 1
<1>1. BatchesIn(S) \ {c} = BatchesIn(S)' \ {c}
  BY DEF BatchesIn
<1>2. /\ c \in BatchesIn(S) <=> delivery[c].state \in S
      /\ c \in BatchesIn(S)' <=> delivery'[c].state \in S
  BY DEF BatchesIn
<1> QED
  BY <1>1, <1>2, ButOne, FiniteBatches

\* One batch goes to state s with the events it has: what moves in the ledger.
LEMMA LedgerMoves ==
  ASSUME TypeOK, TypeOK', Finite, NEW c \in Event,
         \A b \in Event \ {c} : delivery'[b] = delivery[b],
         delivery'[c].events = delivery[c].events
  PROVE  /\ Finite'
         /\ (delivery[c].state = "taken" <=> delivery'[c].state = "taken") =>
              TakenEvents' = TakenEvents
         /\ delivery[c].state = "taken" /\ delivery'[c].state # "taken" =>
              TakenEvents = TakenEvents' + Len(delivery[c].events)
         /\ (delivery[c].state \in CountedStates <=> delivery'[c].state \in CountedStates) =>
              CountedEvents' = CountedEvents /\ CountedBatches' = CountedBatches
         /\ delivery[c].state \notin CountedStates /\ delivery'[c].state \in CountedStates =>
              /\ CountedEvents' = CountedEvents + Len(delivery[c].events)
              /\ CountedBatches' = CountedBatches + 1
         /\ (delivery[c].state = "rejected" <=> delivery'[c].state = "rejected") =>
              RejectedBatches' = RejectedBatches
         /\ delivery[c].state # "rejected" /\ delivery'[c].state = "rejected" =>
              RejectedBatches' = RejectedBatches + 1
         /\ (delivery[c].state = "failed" <=> delivery'[c].state = "failed") =>
              FailedBatches' = FailedBatches
         /\ delivery[c].state # "failed" /\ delivery'[c].state = "failed" =>
              FailedBatches' = FailedBatches + 1
         /\ Resends'[c] = Resends[c] => Resent' = Resent
         /\ Resends'[c] = Resends[c] + 1 => Resent' = Resent + 1
<1> DEFINE n == Len(delivery[c].events)
<1>1. n \in Nat /\ Resends[c] \in Nat /\ Resends'[c] \in Nat
  <2>1. Resends'[c] \in Nat
    BY DEF Resends, TypeOK, Batch
  <2> QED
    BY <2>1, Summands DEF TypeOK, Batch
<1>2. Finite'
  BY SumsMove
<1>3. /\ TakenEvents \in Nat /\ CountedEvents \in Nat /\ Resent \in Nat
      /\ TakenEvents' \in Nat /\ CountedEvents' \in Nat /\ Resent' \in Nat
  <2>1. TakenEvents' \in Nat /\ CountedEvents' \in Nat /\ Resent' \in Nat
    BY <1>2, FS_CardinalityType DEF Finite, TakenEvents, CountedEvents, Resent, Total
  <2> QED
    BY <2>1, LedgerType
<1>4. ASSUME NEW S
      PROVE  /\ delivery[c].state \in S => Sizes(S)[c] = n
             /\ delivery[c].state \notin S => Sizes(S)[c] = 0
             /\ delivery'[c].state \in S => Sizes(S)'[c] = n
             /\ delivery'[c].state \notin S => Sizes(S)'[c] = 0
  BY DEF Sizes, BatchesIn
<1>5. /\ TakenEvents' + Sizes({"taken"})[c] = TakenEvents + Sizes({"taken"})'[c]
      /\ CountedEvents' + Sizes(CountedStates)[c] = CountedEvents + Sizes(CountedStates)'[c]
      /\ Resent' + Resends[c] = Resent + Resends'[c]
  BY SumsMove
<1> HIDE DEF n
<1>6. /\ delivery[c].state = "taken" => Sizes({"taken"})[c] = n
      /\ delivery[c].state # "taken" => Sizes({"taken"})[c] = 0
      /\ delivery'[c].state = "taken" => Sizes({"taken"})'[c] = n
      /\ delivery'[c].state # "taken" => Sizes({"taken"})'[c] = 0
  BY <1>4
<1>7. /\ delivery[c].state \in CountedStates => Sizes(CountedStates)[c] = n
      /\ delivery[c].state \notin CountedStates => Sizes(CountedStates)[c] = 0
      /\ delivery'[c].state \in CountedStates => Sizes(CountedStates)'[c] = n
      /\ delivery'[c].state \notin CountedStates => Sizes(CountedStates)'[c] = 0
  BY <1>4 DEF CountedStates, InFlight
<1>8. \A x, y, z, v \in Nat : /\ x + v = y + v => x = y
                              /\ x + 0 = y + 0 => x = y
                              /\ x + z = y + 0 => y = x + z
                              /\ x + 0 = y + z => x = y + z
  OBVIOUS
<1>t. n \in Nat /\ TakenEvents \in Nat /\ TakenEvents' \in Nat
  BY <1>1, <1>3
<1>9. /\ (delivery[c].state = "taken" <=> delivery'[c].state = "taken") =>
           TakenEvents' = TakenEvents
      /\ delivery[c].state = "taken" /\ delivery'[c].state # "taken" =>
           TakenEvents = TakenEvents' + n
  <2>1. CASE delivery[c].state = "taken" /\ delivery'[c].state = "taken"
    <3>1. TakenEvents' + n = TakenEvents + n
      BY <1>5, <1>6, <2>1
    <3>2. \A x, y, v \in Nat : x + v = y + v => x = y
      OBVIOUS
    <3>3. TakenEvents' = TakenEvents
      BY <1>t, <3>1, <3>2
    <3> QED
      BY <2>1, <3>3
  <2>2. CASE delivery[c].state = "taken" /\ delivery'[c].state # "taken"
    <3>1. TakenEvents' + n = TakenEvents + 0
      BY <1>5, <1>6, <2>2
    <3>2. TakenEvents = TakenEvents' + n
      BY <1>t, <3>1, <1>8
    <3> QED
      BY <2>2, <3>2
  <2>3. CASE delivery[c].state # "taken" /\ delivery'[c].state # "taken"
    <3>1. TakenEvents' + 0 = TakenEvents + 0
      BY <1>5, <1>6, <2>3
    <3>2. TakenEvents' = TakenEvents
      BY <1>t, <3>1, <1>8
    <3> QED
      BY <2>3, <3>2
  <2> QED
    BY <2>1, <2>2, <2>3, Zenon
<1>10. /\ (delivery[c].state \in CountedStates <=> delivery'[c].state \in CountedStates) =>
            CountedEvents' = CountedEvents
       /\ delivery[c].state \notin CountedStates /\ delivery'[c].state \in CountedStates =>
            CountedEvents' = CountedEvents + n
  BY <1>1, <1>3, <1>5, <1>7, <1>8
<1>11. /\ Resends'[c] = Resends[c] => Resent' = Resent
       /\ Resends'[c] = Resends[c] + 1 => Resent' = Resent + 1
  <2>1. \A x, y, z \in Nat : x + z = y + (z + 1) => x = y + 1
    OBVIOUS
  <2> QED
    BY <1>1, <1>3, <1>5, <1>8, <2>1
<1>12. /\ (delivery[c].state \in CountedStates <=> delivery'[c].state \in CountedStates) =>
            CountedBatches' = CountedBatches
       /\ delivery[c].state \notin CountedStates /\ delivery'[c].state \in CountedStates =>
            CountedBatches' = CountedBatches + 1
  BY NumbersMove DEF CountedBatches, CountedStates, InFlight
<1>13. /\ (delivery[c].state = "rejected" <=> delivery'[c].state = "rejected") =>
            RejectedBatches' = RejectedBatches
       /\ delivery[c].state # "rejected" /\ delivery'[c].state = "rejected" =>
            RejectedBatches' = RejectedBatches + 1
  <2>1. \A s : s \in {"rejected"} <=> s = "rejected"
    OBVIOUS
  <2> QED
    BY <2>1, NumbersMove DEF RejectedBatches
<1>14. /\ (delivery[c].state = "failed" <=> delivery'[c].state = "failed") =>
            FailedBatches' = FailedBatches
       /\ delivery[c].state # "failed" /\ delivery'[c].state = "failed" =>
            FailedBatches' = FailedBatches + 1
  <2>1. \A s : s \in {"failed"} <=> s = "failed"
    OBVIOUS
  <2> QED
    BY <2>1, NumbersMove DEF FailedBatches
<1> QED
  BY <1>2, <1>9, <1>10, <1>11, <1>12, <1>13, <1>14 DEF n


\* Nothing is counted at the start.
LEMMA AccountedInit == Init => Accounted
<1> SUFFICES ASSUME Init PROVE Accounted
  OBVIOUS
<1>1. /\ \A b \in Event : delivery[b].state = "none" /\ delivery[b].attempt = 0
      /\ captures = 0 /\ Len(queue) = 0
  BY DEF Init, NoBatch
<1>2. \A k \in Counters : metrics[k] = 0
  BY DEF Init
<1>3. "none" \notin CountedStates \cup {"taken", "rejected", "failed"}
  BY DEF CountedStates, InFlight
<1>4. \A S : "none" \notin S => BatchesIn(S) = {}
  BY <1>1 DEF BatchesIn
<1>5. \A S : "none" \notin S => Sizes(S) \in [Event -> Nat] /\ \A b \in Event : Sizes(S)[b] = 0
  BY <1>4 DEF Sizes
<1>6. Resends \in [Event -> Nat] /\ \A b \in Event : Resends[b] = 0
  BY <1>1 DEF Resends
<1>7. Finite /\ TakenEvents = 0 /\ CountedEvents = 0 /\ Resent = 0
  <2>1. \A S : "none" \notin S => IsFiniteSet(Pairs(Sizes(S))) /\ Total(Sizes(S)) = 0
    BY <1>5, TotalZero
  <2>2. "none" \notin {"taken"} /\ "none" \notin CountedStates
    BY <1>3
  <2>3. IsFiniteSet(Pairs(Resends)) /\ Total(Resends) = 0
    BY <1>6, TotalZero
  <2> QED
    BY <2>1, <2>2, <2>3 DEF Finite, TakenEvents, CountedEvents, Resent
<1>8. CountedBatches = 0 /\ RejectedBatches = 0 /\ FailedBatches = 0
  BY <1>3, <1>4, FS_EmptySet DEF CountedBatches, RejectedBatches, FailedBatches
<1>12. Sizing = 0 /\ Rejecting = 0 /\ Dropping = 0
  <2>1. \A t \in Threads : pc[t] = "idle"
    BY DEF Init
  <2>2. /\ {t \in Threads : pc[t] \in {"size"}} = {}
        /\ {t \in Threads : pc[t] \in {"rejected"}} = {}
        /\ {t \in Threads : pc[t] \in {"dropped"}} = {}
    BY <2>1
  <2> QED
    BY <2>2, FS_EmptySet DEF Sizing, Rejecting, Dropping, At
<1>9. Attempts
  BY <1>1 DEF Attempts
<1>10. /\ metrics["queued"] = 0 /\ metrics["dropped"] = 0 /\ metrics["batches"] = 0
       /\ metrics["batchEvents"] = 0 /\ metrics["retries"] = 0
       /\ metrics["failures"] = 0 /\ metrics["circuitOpen"] = 0
  BY <1>2 DEF Counters
<1>11. Balance
  BY <1>1, <1>7, <1>8, <1>10, <1>12 DEF Balance
<1> QED
  BY <1>7, <1>9, <1>11, AccountedParts

\* What one more does to a counter, and to no other.
LEMMA Counting ==
  ASSUME NEW m \in [Counters -> Nat], NEW k \in Counters
  PROVE  /\ Count(m, k) \in [Counters -> Nat]
         /\ Count(m, k)[k] = m[k] + 1
         /\ \A d \in Counters \ {k} : Count(m, k)[d] = m[d]
BY DEF Count

\* The counters are numbers, all different.
LEMMA CounterNames ==
  /\ Counters = {"queued", "dropped", "batches", "batchEvents", "retries",
                 "failures", "circuitOpen"}
  /\ TypeOK => \A k \in Counters : metrics[k] \in Nat
BY DEF Counters, TypeOK

\* A step that leaves the batches alone leaves the sums and numbers alone.
LEMMA LedgerStays ==
  ASSUME delivery' = delivery
  PROVE  /\ Attempts => Attempts'
         /\ Finite => Finite'
         /\ TakenEvents' = TakenEvents /\ CountedEvents' = CountedEvents /\ Resent' = Resent
         /\ CountedBatches' = CountedBatches /\ RejectedBatches' = RejectedBatches
         /\ FailedBatches' = FailedBatches
<1>1. \A S : BatchesIn(S)' = BatchesIn(S)
  BY DEF BatchesIn
<1>2. \A S : Sizes(S)' = Sizes(S)
  BY DEF Sizes, BatchesIn
<1>3. Resends' = Resends
  BY DEF Resends
<1>4. /\ Sizes({"taken"})' = Sizes({"taken"})
      /\ Sizes(CountedStates)' = Sizes(CountedStates)
      /\ BatchesIn(CountedStates)' = BatchesIn(CountedStates)
  BY <1>1, <1>2 DEF CountedStates, InFlight
<1>5. /\ Pairs(Sizes({"taken"}))' = Pairs(Sizes({"taken"}))
      /\ Pairs(Sizes(CountedStates))' = Pairs(Sizes(CountedStates))
      /\ Pairs(Resends)' = Pairs(Resends)
  BY <1>3, <1>4 DEF Pairs
<1>6. Attempts => Attempts'
  BY DEF Attempts
<1>7. Finite => Finite'
  BY <1>5 DEF Finite
<1>8. TakenEvents' = TakenEvents /\ CountedEvents' = CountedEvents /\ Resent' = Resent
  BY <1>5 DEF TakenEvents, CountedEvents, Resent, Total
<1>9. /\ CountedBatches' = CountedBatches /\ RejectedBatches' = RejectedBatches
      /\ FailedBatches' = FailedBatches
  BY <1>1, <1>4 DEF CountedBatches, RejectedBatches, FailedBatches
<1> QED
  BY <1>6, <1>7, <1>8, <1>9

\* A captured exception is queued or dropped, and counted so.
LEMMA CaptureBalances ==
  ASSUME TypeOK, Accounted, NEW w \in Workers, Capture(w)
  PROVE  Accounted'
<1>0. Attempts /\ Finite /\ Balance
  BY AccountedParts
<1>1. delivery' = delivery /\ captures' = captures + 1 /\ captures \in Nat
  BY DEF Capture, CaptureDropped, CaptureQueued, CaptureFull, NextEvent, TypeOK
<1>2. \A k \in Counters : metrics[k] \in Nat
  BY CounterNames
<1>3. /\ Attempts' /\ Finite'
      /\ TakenEvents' = TakenEvents /\ CountedEvents' = CountedEvents /\ Resent' = Resent
      /\ CountedBatches' = CountedBatches /\ RejectedBatches' = RejectedBatches
      /\ FailedBatches' = FailedBatches
  BY <1>0, <1>1, LedgerStays
<1>9. UNCHANGED Between
  BY BetweenStays DEF Capture, CaptureDropped, CaptureQueued, CaptureFull, NextEvent, Threads
<1>10. Sizing' = Sizing /\ Rejecting' = Rejecting /\ Dropping' = Dropping
  BY <1>9 DEF Between
<1>11. Dropping \in Nat
  BY DroppingType
<1>5. \A x, y, z, v \in Nat : x = y + z + v => x + 1 = (y + 1) + z + v
  OBVIOUS
<1>6. /\ metrics["queued"] \in Nat /\ metrics["dropped"] \in Nat
      /\ metrics["circuitOpen"] \in Nat /\ metrics["batchEvents"] \in Nat
      /\ TakenEvents \in Nat /\ Len(queue) \in Nat
  BY <1>0, <1>2, CounterNames, LedgerType DEF TypeOK
<1>12. /\ captures \in Nat /\ metrics["circuitOpen"] \in Nat /\ metrics["queued"] \in Nat
       /\ metrics["dropped"] \in Nat /\ Dropping \in Nat
  BY <1>1, <1>6, <1>11
<1>7. CASE CaptureDropped(w)
  <2>1. metrics' = Count(metrics, "dropped") /\ queue' = queue
    BY <1>7 DEF CaptureDropped, queueVars
  <2>2. /\ metrics'["dropped"] = metrics["dropped"] + 1
        /\ \A k \in Counters \ {"dropped"} : metrics'[k] = metrics[k]
    <3>1. metrics \in [Counters -> Nat] /\ "dropped" \in Counters
      BY CounterNames DEF TypeOK
    <3> QED
      BY <2>1, <3>1, Counting
  <2>3. /\ metrics'["queued"] = metrics["queued"]
        /\ metrics'["batches"] = metrics["batches"]
        /\ metrics'["batchEvents"] = metrics["batchEvents"]
        /\ metrics'["retries"] = metrics["retries"]
        /\ metrics'["failures"] = metrics["failures"]
        /\ metrics'["circuitOpen"] = metrics["circuitOpen"]
    BY <2>2, CounterNames
  <2>4. captures' + metrics'["circuitOpen"] = metrics'["queued"] + metrics'["dropped"] + Dropping'
    <3>1. captures + metrics["circuitOpen"] = metrics["queued"] + metrics["dropped"] + Dropping
      BY <1>0 DEF Balance
    <3>2. (captures + 1) + metrics["circuitOpen"]
            = metrics["queued"] + (metrics["dropped"] + 1) + Dropping
      BY <1>12, <3>1
    <3> QED
      BY <1>1, <1>10, <2>2, <2>3, <3>2
  <2>5. Balance'
    BY <1>0, <1>3, <1>10, <2>1, <2>3, <2>4 DEF Balance
  <2> QED
    BY <1>3, <2>5, AccountedParts
<1>8. CASE Enqueue
  <2>1. metrics' = Count(metrics, "queued") /\ Len(queue') = Len(queue) + 1
    BY <1>8 DEF Enqueue, TypeOK
  <2>2. /\ metrics'["queued"] = metrics["queued"] + 1
        /\ \A k \in Counters \ {"queued"} : metrics'[k] = metrics[k]
    <3>1. metrics \in [Counters -> Nat] /\ "queued" \in Counters
      BY CounterNames DEF TypeOK
    <3> QED
      BY <2>1, <3>1, Counting
  <2>3. /\ metrics'["dropped"] = metrics["dropped"]
        /\ metrics'["batches"] = metrics["batches"]
        /\ metrics'["batchEvents"] = metrics["batchEvents"]
        /\ metrics'["retries"] = metrics["retries"]
        /\ metrics'["failures"] = metrics["failures"]
        /\ metrics'["circuitOpen"] = metrics["circuitOpen"]
    BY <2>2, CounterNames
  <2>4. captures' + metrics'["circuitOpen"] = metrics'["queued"] + metrics'["dropped"] + Dropping'
    <3>1. captures + metrics["circuitOpen"] = metrics["queued"] + metrics["dropped"] + Dropping
      BY <1>0 DEF Balance
    <3>2. (captures + 1) + metrics["circuitOpen"]
            = (metrics["queued"] + 1) + metrics["dropped"] + Dropping
      BY <1>12, <3>1
    <3> QED
      BY <1>1, <1>10, <2>2, <2>3, <3>2
  <2>5. metrics'["queued"] = Len(queue') + TakenEvents' + metrics'["batchEvents"]
    BY <1>0, <1>3, <1>5, <1>6, <2>1, <2>2, <2>3 DEF Balance
  <2>6. Balance'
    BY <1>0, <1>3, <1>10, <2>3, <2>4, <2>5 DEF Balance
  <2> QED
    BY <1>3, <2>6, AccountedParts
<1> QED
  BY <1>7, <1>8 DEF Capture, CaptureQueued, CaptureFull

\* Taking the queue moves its events into a batch, which nothing counts yet.
LEMMA TakeBalances ==
  ASSUME TypeOK, TypeOK', Owned, Accounted, NEW t \in Threads, TakeQueue(t)
  PROVE  Accounted'
<1> DEFINE h == Head(queue)
           n == Len(queue)
<1>0. Attempts /\ Finite /\ Balance
  BY AccountedParts
<1>1. /\ queue \in Seq(Event) /\ queue # << >> /\ queue' = << >> /\ captures' = captures
      /\ h \in Event /\ h = queue[1] /\ 1 \in DOMAIN queue /\ n \in Nat /\ Len(queue') = 0
      /\ metrics' = metrics
  BY DEF TakeQueue, ClearQueue, processVars, TypeOK
<1>2. /\ delivery'[h].events = queue /\ delivery'[h].state = "taken"
      /\ delivery'[h].attempt = delivery[h].attempt
      /\ \A b \in Event \ {h} : delivery'[b] = delivery[b]
  BY <1>1 DEF TakeQueue, TypeOK, Batch
<1>3. delivery[h].state = "none"
  BY <1>1 DEF Owned, Freshness
<1>4. delivery[h].attempt = 0
  BY <1>0, <1>1, <1>3 DEF Attempts, Unsent
<1> HIDE DEF h
<1>5. Attempts'
  <2>1. ASSUME NEW b \in Event
        PROVE  /\ delivery'[b].state \in Unsent => delivery'[b].attempt = 0
               /\ delivery'[b].state \in {"sending", "backoff"} => delivery'[b].attempt # 0
    <3>1. CASE b = h
      BY <1>2, <1>4, <3>1
    <3>2. CASE b # h
      BY <1>0, <1>2, <3>2 DEF Attempts
    <3> QED
      BY <3>1, <3>2
  <2> QED
    BY <2>1 DEF Attempts
<1>6. /\ Finite'
      /\ TakenEvents' + Sizes({"taken"})[h] = TakenEvents + Sizes({"taken"})'[h]
      /\ CountedEvents' + Sizes(CountedStates)[h] = CountedEvents + Sizes(CountedStates)'[h]
      /\ Resent' + Resends[h] = Resent + Resends'[h]
  BY <1>0, <1>1, <1>2, SumsMove
<1>7. Sizes({"taken"})[h] = 0 /\ Sizes({"taken"})'[h] = n
  <2>1. "none" \notin {"taken"} /\ "taken" \in {"taken"}
    OBVIOUS
  <2>2. h \notin BatchesIn({"taken"}) /\ h \in BatchesIn({"taken"})'
    BY <1>1, <1>2, <1>3, <2>1 DEF BatchesIn
  <2> QED
    BY <1>1, <1>2, <2>2 DEF Sizes
<1>8. "none" \notin CountedStates /\ "taken" \notin CountedStates
  BY DEF CountedStates, InFlight
<1>9. Sizes(CountedStates)[h] = 0 /\ Sizes(CountedStates)'[h] = 0
  <2>1. h \notin BatchesIn(CountedStates)
    BY <1>3, <1>8 DEF BatchesIn
  <2>2. h \notin BatchesIn(CountedStates)'
    BY <1>2, <1>8 DEF BatchesIn, CountedStates, InFlight
  <2> QED
    BY <1>1, <2>1, <2>2 DEF Sizes
<1>10. Resends[h] = 0 /\ Resends'[h] = 0
  BY <1>1, <1>2, <1>4 DEF Resends
<1>11. /\ TakenEvents \in Nat /\ CountedEvents \in Nat /\ Resent \in Nat
       /\ TakenEvents' \in Nat /\ CountedEvents' \in Nat /\ Resent' \in Nat
  <2>1. TakenEvents' \in Nat /\ CountedEvents' \in Nat /\ Resent' \in Nat
    BY <1>6, FS_CardinalityType DEF Finite, TakenEvents, CountedEvents, Resent, Total
  <2> QED
    BY <1>0, <2>1, LedgerType
<1>12. \A x, y \in Nat : x + 0 = y + 0 => x = y
  OBVIOUS
<1>13. CountedEvents' = CountedEvents /\ Resent' = Resent
  BY <1>6, <1>9, <1>10, <1>11, <1>12
<1>14. TakenEvents' + 0 = TakenEvents + n
  BY <1>6, <1>7
<1>15. ASSUME NEW S, "none" \notin S, "taken" \notin S
       PROVE  Cardinality(BatchesIn(S))' = Cardinality(BatchesIn(S))
  BY <1>1, <1>2, <1>3, <1>15, NumbersMove
<1>16. CountedBatches' = CountedBatches
  <2>1. Cardinality(BatchesIn(CountedStates))' = Cardinality(BatchesIn(CountedStates))
    BY <1>8, <1>15 DEF CountedStates, InFlight
  <2> QED
    BY <2>1 DEF CountedBatches
<1>17. RejectedBatches' = RejectedBatches /\ FailedBatches' = FailedBatches
  <2>1. /\ "none" \notin {"rejected"} /\ "taken" \notin {"rejected"}
        /\ "none" \notin {"failed"} /\ "taken" \notin {"failed"}
    OBVIOUS
  <2> QED
    BY <1>15, <2>1 DEF RejectedBatches, FailedBatches
<1>18. \A x, y, z \in Nat : y + 0 = x + z => z + x = 0 + y
  OBVIOUS
<1>19. metrics["batchEvents"] \in Nat
  BY CounterNames
<1>20. metrics["queued"] = n + TakenEvents + metrics["batchEvents"]
  BY <1>0 DEF Balance
<1> HIDE DEF n
<1>21. metrics'["queued"] = Len(queue') + TakenEvents' + metrics'["batchEvents"]
  <2>1. n + TakenEvents + metrics["batchEvents"] = 0 + TakenEvents' + metrics["batchEvents"]
    <3>1. n \in Nat /\ TakenEvents \in Nat /\ TakenEvents' \in Nat
      BY <1>1, <1>11
    <3>2. n + TakenEvents = 0 + TakenEvents'
      BY <1>14, <1>18, <3>1
    <3> QED
      BY <3>2
  <2> QED
    BY <1>1, <1>20, <2>1
<1>23. Sizing' = Sizing /\ Rejecting' = Rejecting /\ Dropping' = Dropping
  BY BetweenStays DEF TakeQueue, Between
<1>22. Balance'
  BY <1>0, <1>1, <1>13, <1>16, <1>17, <1>21, <1>23 DEF Balance
<1> QED
  BY <1>5, <1>6, <1>22, AccountedParts

\* A thread that moves one of two counters stands between them, or no longer.
LEMMA CountingBalances ==
  ASSUME TypeOK, Accounted, NEW t \in Threads,
         CountBatch(t) \/ CountRejected(t) \/ CountDropped(t)
  PROVE  Accounted'
<1>0. Attempts /\ Finite /\ Balance
  BY AccountedParts
<1>1. delivery' = delivery /\ UNCHANGED << queue, captures >>
  BY DEF CountBatch, CountRejected, CountDropped, queueVars, processVars
<1>2. /\ Attempts' /\ Finite'
      /\ TakenEvents' = TakenEvents /\ CountedEvents' = CountedEvents /\ Resent' = Resent
      /\ CountedBatches' = CountedBatches /\ RejectedBatches' = RejectedBatches
      /\ FailedBatches' = FailedBatches
  BY <1>0, <1>1, LedgerStays
<1>3. /\ metrics \in [Counters -> Nat] /\ "batches" \in Counters
      /\ "circuitOpen" \in Counters /\ "dropped" \in Counters
      /\ metrics["batches"] \in Nat /\ metrics["circuitOpen"] \in Nat
      /\ metrics["dropped"] \in Nat /\ metrics["queued"] \in Nat /\ captures \in Nat
  BY CounterNames DEF TypeOK
<1>4. /\ captures + metrics["circuitOpen"] = metrics["queued"] + metrics["dropped"] + Dropping
      /\ metrics["circuitOpen"] + Rejecting = RejectedBatches
      /\ metrics["batches"] = CountedBatches + Sizing
  BY <1>0 DEF Balance
<1>5. CountedBatches \in Nat /\ RejectedBatches \in Nat
  BY <1>0, LedgerType
<1>6. /\ metrics'["queued"] = metrics["queued"]
      /\ metrics'["batchEvents"] = metrics["batchEvents"]
      /\ metrics'["failures"] = metrics["failures"]
      /\ metrics'["retries"] = metrics["retries"]
  <2>1. PICK k \in {"batches", "circuitOpen", "dropped"} : metrics' = Count(metrics, k)
    BY DEF CountBatch, CountRejected, CountDropped
  <2>2. \A d \in Counters \ {k} : metrics'[d] = metrics[d]
    BY <1>3, <2>1, Counting
  <2> QED
    BY <2>2, CounterNames
<1>7. CASE CountBatch(t)
  <2>1. metrics' = Count(metrics, "batches")
    BY <1>7 DEF CountBatch
  <2>2. metrics'["batches"] = metrics["batches"] + 1
    BY <1>3, <2>1, Counting
  <2>3. metrics'["circuitOpen"] = metrics["circuitOpen"] /\ metrics'["dropped"] = metrics["dropped"]
    BY <1>3, <2>1, Counting
  <2>4. /\ pc[t] = "count" /\ pc'[t] = "size"
        /\ \A u \in Threads \ {t} : pc'[u] = pc[u]
    BY <1>7 DEF CountBatch, TypeOK
  <2>5. /\ Sizing' = Sizing + 1 /\ Rejecting' = Rejecting /\ Dropping' = Dropping
        /\ Sizing \in Nat
    BY <2>4, BetweenMoves
  <2>6. metrics'["batches"] = CountedBatches' + Sizing'
    BY <1>2, <1>4, <1>5, <2>2, <2>5
  <2>7. Balance'
    BY <1>0, <1>1, <1>2, <1>6, <2>3, <2>5, <2>6 DEF Balance
  <2> QED
    BY <1>2, <2>7, AccountedParts
<1>8. CASE CountRejected(t)
  <2>1. metrics' = Count(metrics, "circuitOpen")
    BY <1>8 DEF CountRejected
  <2>2. metrics'["circuitOpen"] = metrics["circuitOpen"] + 1
    BY <1>3, <2>1, Counting
  <2>3. metrics'["batches"] = metrics["batches"] /\ metrics'["dropped"] = metrics["dropped"]
    BY <1>3, <2>1, Counting
  <2>4. /\ pc[t] = "rejected" /\ pc'[t] = "dropped"
        /\ \A u \in Threads \ {t} : pc'[u] = pc[u]
    BY <1>8 DEF CountRejected, TypeOK
  <2>5. /\ Sizing' = Sizing /\ Rejecting = Rejecting' + 1 /\ Dropping' = Dropping + 1
        /\ Dropping \in Nat /\ Rejecting' \in Nat
    BY <2>4, BetweenMoves
  <2>6. captures + metrics'["circuitOpen"]
          = metrics'["queued"] + metrics'["dropped"] + Dropping'
    BY <1>3, <1>4, <1>6, <2>2, <2>3, <2>5
  <2>7. metrics'["circuitOpen"] + Rejecting' = RejectedBatches'
    BY <1>2, <1>3, <1>4, <2>2, <2>5
  <2>8. Balance'
    BY <1>0, <1>1, <1>2, <1>6, <2>3, <2>5, <2>6, <2>7 DEF Balance
  <2> QED
    BY <1>2, <2>8, AccountedParts
<1>9. CASE CountDropped(t)
  <2>1. metrics' = Count(metrics, "dropped")
    BY <1>9 DEF CountDropped
  <2>2. metrics'["dropped"] = metrics["dropped"] + 1
    BY <1>3, <2>1, Counting
  <2>3. metrics'["batches"] = metrics["batches"]
        /\ metrics'["circuitOpen"] = metrics["circuitOpen"]
    BY <1>3, <2>1, Counting
  <2>4. /\ pc[t] = "dropped" /\ pc'[t] = "idle"
        /\ \A u \in Threads \ {t} : pc'[u] = pc[u]
    BY <1>9 DEF CountDropped, TypeOK
  <2>5. /\ Sizing' = Sizing /\ Rejecting' = Rejecting /\ Dropping = Dropping' + 1
        /\ Dropping' \in Nat
    BY <2>4, BetweenMoves
  <2>6. captures + metrics'["circuitOpen"]
          = metrics'["queued"] + metrics'["dropped"] + Dropping'
    BY <1>3, <1>4, <1>6, <2>2, <2>3, <2>5
  <2>7. Balance'
    BY <1>0, <1>1, <1>2, <1>6, <2>3, <2>5, <2>6 DEF Balance
  <2> QED
    BY <1>2, <2>7, AccountedParts
<1> QED
  BY <1>7, <1>8, <1>9

\* The second counter of a batch: its events are no longer the thread's alone.
LEMMA EventsBalance ==
  ASSUME TypeOK, TypeOK', Owned, Accounted, NEW t \in Threads, CountEvents(t)
  PROVE  Accounted'
<1> DEFINE c == batchOf[t]
           n == Len(delivery[c].events)
<1>0. Attempts /\ Finite /\ Balance
  BY AccountedParts
<1>1. c \in Event /\ delivery[c].state = "taken"
  BY DEF CountEvents, TypeOK, Holding, Owned, Ownership
<1>2. /\ UNCHANGED << queue, captures >>
      /\ metrics' = [metrics EXCEPT !["batchEvents"] = metrics["batchEvents"] + n]
      /\ delivery' = [delivery EXCEPT ![c].state = "counted"]
      /\ pc[t] = "size" /\ pc'[t] = "admit"
      /\ \A u \in Threads \ {t} : pc'[u] = pc[u]
  BY DEF CountEvents, Size, queueVars, processVars, TypeOK
<1>3. n \in Nat /\ delivery[c].attempt = 0
  BY <1>0, <1>1 DEF TypeOK, Batch, Attempts, Unsent
<1> HIDE DEF c
<1>4. /\ delivery'[c].state = "counted" /\ delivery'[c].events = delivery[c].events
      /\ delivery'[c].attempt = delivery[c].attempt
      /\ \A b \in Event \ {c} : delivery'[b] = delivery[b]
  BY <1>1, <1>2 DEF TypeOK, Batch
<1>5. Attempts'
  <2>1. ASSUME NEW b \in Event
        PROVE  /\ delivery'[b].state \in Unsent => delivery'[b].attempt = 0
               /\ delivery'[b].state \in {"sending", "backoff"} => delivery'[b].attempt # 0
    <3>1. CASE b = c
      BY <1>3, <1>4, <3>1
    <3>2. CASE b # c
      BY <1>0, <1>4, <3>2 DEF Attempts
    <3> QED
      BY <3>1, <3>2
  <2> QED
    BY <2>1 DEF Attempts
<1>6. "taken" \notin CountedStates /\ "counted" \in CountedStates
  BY DEF CountedStates, InFlight
<1>7. Resends'[c] = Resends[c]
  BY <1>1, <1>3, <1>4 DEF Resends
<1>8. /\ Finite'
      /\ TakenEvents = TakenEvents' + n
      /\ CountedEvents' = CountedEvents + n /\ CountedBatches' = CountedBatches + 1
      /\ RejectedBatches' = RejectedBatches
      /\ FailedBatches' = FailedBatches /\ Resent' = Resent
  BY <1>0, <1>1, <1>4, <1>6, <1>7, LedgerMoves
<1> HIDE DEF n
<1>9. /\ metrics'["batchEvents"] = metrics["batchEvents"] + n
      /\ \A k \in Counters \ {"batchEvents"} : metrics'[k] = metrics[k]
  BY <1>2, CounterNames DEF TypeOK
<1>10. /\ metrics'["queued"] = metrics["queued"] /\ metrics'["dropped"] = metrics["dropped"]
       /\ metrics'["batches"] = metrics["batches"] /\ metrics'["retries"] = metrics["retries"]
       /\ metrics'["failures"] = metrics["failures"]
       /\ metrics'["circuitOpen"] = metrics["circuitOpen"]
  BY <1>9, CounterNames
<1>11. /\ TakenEvents' \in Nat /\ metrics["batchEvents"] \in Nat /\ Len(queue) \in Nat
       /\ CountedBatches \in Nat
  <2>1. TakenEvents' \in Nat
    BY <1>8, FS_CardinalityType DEF Finite, TakenEvents, Total
  <2> QED
    BY <1>0, <2>1, LedgerType, CounterNames DEF TypeOK
<1>12. metrics'["queued"] = Len(queue') + TakenEvents' + metrics'["batchEvents"]
  <2>1. metrics["queued"] = Len(queue) + TakenEvents + metrics["batchEvents"]
    BY <1>0 DEF Balance
  <2> QED
    BY <1>2, <1>3, <1>8, <1>9, <1>10, <1>11, <2>1
<1>13. /\ Sizing = Sizing' + 1 /\ Rejecting' = Rejecting /\ Dropping' = Dropping
       /\ Sizing' \in Nat
  BY <1>2, BetweenMoves
<1>14. metrics'["batches"] = CountedBatches' + Sizing'
  <2>1. metrics["batches"] = CountedBatches + Sizing
    BY <1>0 DEF Balance
  <2> QED
    BY <1>8, <1>10, <1>11, <1>13, <2>1
<1>15. metrics'["batchEvents"] = CountedEvents'
  BY <1>0, <1>8, <1>9 DEF Balance
<1>16. Balance'
  BY <1>0, <1>2, <1>8, <1>10, <1>12, <1>13, <1>14, <1>15 DEF Balance
<1> QED
  BY <1>5, <1>8, <1>16, AccountedParts

\* A counted batch goes to the circuit's answer and moves nothing but, when it
\* is refused, the number of the refused.
LEMMA AnswerKeeps ==
  ASSUME TypeOK, TypeOK', Accounted, NEW c \in Event, NEW s \in {"rejected", "admitted"},
         delivery[c].state = "counted", delivery'[c].state = s,
         delivery'[c].events = delivery[c].events,
         delivery'[c].attempt = delivery[c].attempt,
         \A b \in Event \ {c} : delivery'[b] = delivery[b]
  PROVE  /\ Attempts' /\ Finite'
         /\ TakenEvents' = TakenEvents /\ CountedEvents' = CountedEvents /\ Resent' = Resent
         /\ CountedBatches' = CountedBatches /\ FailedBatches' = FailedBatches
         /\ RejectedBatches' = IF s = "rejected" THEN RejectedBatches + 1 ELSE RejectedBatches
<1>0. Attempts /\ Finite
  BY AccountedParts
<1>1. delivery[c].attempt = 0
  BY <1>0 DEF Attempts, Unsent
<1>2. Attempts'
  <2>1. ASSUME NEW b \in Event
        PROVE  /\ delivery'[b].state \in Unsent => delivery'[b].attempt = 0
               /\ delivery'[b].state \in {"sending", "backoff"} => delivery'[b].attempt # 0
    <3>1. CASE b = c
      BY <1>1, <3>1
    <3>2. CASE b # c
      BY <1>0, <3>2 DEF Attempts
    <3> QED
      BY <3>1, <3>2
  <2> QED
    BY <2>1 DEF Attempts
<1>3. /\ s # "taken" /\ s # "failed"
      /\ "counted" # "taken" /\ "counted" # "rejected" /\ "counted" # "failed"
  OBVIOUS
<1>4. "counted" \in CountedStates /\ s \in CountedStates
  BY DEF CountedStates, InFlight
<1>5. Resends'[c] = Resends[c]
  BY <1>1 DEF Resends
<1>6. /\ Finite' /\ TakenEvents' = TakenEvents
      /\ CountedEvents' = CountedEvents /\ CountedBatches' = CountedBatches
      /\ FailedBatches' = FailedBatches /\ Resent' = Resent
      /\ s = "rejected" => RejectedBatches' = RejectedBatches + 1
      /\ s # "rejected" => RejectedBatches' = RejectedBatches
  BY <1>0, <1>3, <1>4, <1>5, LedgerMoves
<1> QED
  BY <1>2, <1>6

\* A batch that the circuit refuses is not counted as refused yet.
LEMMA RejectBalances ==
  ASSUME TypeOK, TypeOK', Owned, Accounted, NEW t \in Threads, Reject(t)
  PROVE  Accounted'
<1> DEFINE c == batchOf[t]
<1>0. Balance
  BY AccountedParts
<1>1. c \in Event /\ delivery[c].state = "counted"
  BY DEF Reject, TypeOK, Holding, Owned, Ownership
<1>2. /\ UNCHANGED << queue, captures, metrics >>
      /\ delivery' = [delivery EXCEPT ![c].state = "rejected"]
      /\ pc[t] = "admit" /\ pc'[t] = "rejected"
      /\ \A u \in Threads \ {t} : pc'[u] = pc[u]
  BY DEF Reject, queueVars, processVars, TypeOK
<1> HIDE DEF c
<1>3. /\ delivery'[c].state = "rejected" /\ delivery'[c].events = delivery[c].events
      /\ delivery'[c].attempt = delivery[c].attempt
      /\ \A b \in Event \ {c} : delivery'[b] = delivery[b]
  BY <1>1, <1>2 DEF TypeOK, Batch
<1>4. /\ Attempts' /\ Finite'
      /\ TakenEvents' = TakenEvents /\ CountedEvents' = CountedEvents /\ Resent' = Resent
      /\ CountedBatches' = CountedBatches /\ FailedBatches' = FailedBatches
      /\ RejectedBatches' = RejectedBatches + 1
  BY <1>1, <1>3, AnswerKeeps
<1>5. /\ Sizing' = Sizing /\ Rejecting' = Rejecting + 1 /\ Dropping' = Dropping
      /\ Rejecting \in Nat
  BY <1>2, BetweenMoves
<1>6. metrics'["circuitOpen"] + Rejecting' = RejectedBatches'
  <2>1. metrics["circuitOpen"] + Rejecting = RejectedBatches
    BY <1>0 DEF Balance
  <2>2. metrics["circuitOpen"] \in Nat
    BY CounterNames
  <2> QED
    BY <1>2, <1>4, <1>5, <2>1, <2>2
<1>7. Balance'
  BY <1>0, <1>2, <1>4, <1>5, <1>6 DEF Balance
<1> QED
  BY <1>4, <1>7, AccountedParts

\* A batch that is let through moves nothing.
LEMMA AdmitBalances ==
  ASSUME TypeOK, TypeOK', Owned, Accounted, NEW t \in Threads, Admit(t)
  PROVE  Accounted'
<1> DEFINE c == batchOf[t]
<1>0. Balance
  BY AccountedParts
<1>1. c \in Event /\ delivery[c].state = "counted"
  BY DEF Admit, TypeOK, Holding, Owned, Ownership
<1>2. /\ UNCHANGED << queue, captures, metrics >>
      /\ delivery' = [delivery EXCEPT ![c].state = "admitted",
                                      ![c].probe = AfterAllow(circuit).probeInFlight]
  BY DEF Admit, queueVars, processVars
<1> HIDE DEF c
<1>3. /\ delivery'[c].state = "admitted" /\ delivery'[c].events = delivery[c].events
      /\ delivery'[c].attempt = delivery[c].attempt
      /\ \A b \in Event \ {c} : delivery'[b] = delivery[b]
  BY <1>1, <1>2 DEF TypeOK, Batch
<1>4. /\ Attempts' /\ Finite'
      /\ TakenEvents' = TakenEvents /\ CountedEvents' = CountedEvents /\ Resent' = Resent
      /\ CountedBatches' = CountedBatches /\ FailedBatches' = FailedBatches
      /\ RejectedBatches' = RejectedBatches
  <2>1. "admitted" # "rejected" /\ "admitted" \in {"rejected", "admitted"}
    OBVIOUS
  <2> QED
    BY <1>1, <1>3, <2>1, AnswerKeeps
<1>5. UNCHANGED Between
  BY BetweenStays DEF Admit
<1>6. Balance'
  BY <1>0, <1>2, <1>4, <1>5 DEF Balance, Between
<1> QED
  BY <1>4, <1>6, AccountedParts

\* What a step of a delivery does to its batch: an answer leaves the attempts as
\* they are, a transmission is one more.
Transmits(c, s) ==
  /\ delivery[c].state \in {"admitted", "backoff"}
  /\ s \in {"sending", "failed"}
  /\ delivery'[c].attempt = delivery[c].attempt + 1

Answers(c, s) ==
  /\ \/ delivery[c].state = "sending" /\ s \in {"delivered", "backoff", "failed"}
     \/ delivery[c].state = "admitted" /\ s = "abandoned"
  /\ delivery'[c].attempt = delivery[c].attempt

\* A batch has no attempt before it is sent first, and to back off is to be sent
\* once more.
LEMMA AttemptsMove ==
  ASSUME TypeOK, Attempts, NEW c \in Event, NEW s, Transmits(c, s) \/ Answers(c, s),
         delivery'[c].state = s, \A b \in Event \ {c} : delivery'[b] = delivery[b]
  PROVE  /\ Attempts'
         /\ Resends'[c] = Resends[c] + IF s = "backoff" THEN 1 ELSE 0
<1> DEFINE a == delivery[c].attempt
<1>1. a \in Nat
  BY DEF TypeOK, Batch
<1>2. /\ delivery[c].state = "admitted" => a = 0
      /\ delivery[c].state \in {"sending", "backoff"} => a # 0
  BY DEF Attempts, Unsent
<1>3. /\ s \in Unsent => delivery'[c].attempt = 0
      /\ s \in {"sending", "backoff"} => delivery'[c].attempt # 0
  <2>1. CASE Transmits(c, s)
    BY <1>1, <2>1 DEF Transmits, Unsent
  <2>2. CASE Answers(c, s)
    BY <1>2, <2>2 DEF Answers, Unsent
  <2> QED
    BY <2>1, <2>2
<1>4. Attempts'
  <2>1. ASSUME NEW b \in Event
        PROVE  /\ delivery'[b].state \in Unsent => delivery'[b].attempt = 0
               /\ delivery'[b].state \in {"sending", "backoff"} => delivery'[b].attempt # 0
    <3>1. CASE b = c
      BY <1>3, <3>1
    <3>2. CASE b # c
      BY <3>2 DEF Attempts
    <3> QED
      BY <3>1, <3>2
  <2> QED
    BY <2>1 DEF Attempts
<1>5. /\ Resends[c] = IF a = 0 THEN 0 ELSE a - 1 + IF delivery[c].state = "backoff" THEN 1 ELSE 0
      /\ Resends'[c] = IF delivery'[c].attempt = 0 THEN 0
                       ELSE delivery'[c].attempt - 1 + IF s = "backoff" THEN 1 ELSE 0
  BY DEF Resends
<1>6. CASE Transmits(c, s)
  <2>1. s # "backoff" /\ delivery'[c].attempt = a + 1
    BY <1>6 DEF Transmits
  <2>2. Resends'[c] = a
    BY <1>1, <1>5, <2>1
  <2>3. Resends[c] = a
    BY <1>1, <1>2, <1>5, <1>6 DEF Transmits
  <2> QED
    BY <1>1, <1>4, <2>1, <2>2, <2>3
<1>7. CASE Answers(c, s)
  <2>1. delivery'[c].attempt = a /\ delivery[c].state # "backoff"
    BY <1>7 DEF Answers
  <2>2. s = "backoff" => a # 0
    BY <1>3, <2>1
  <2> QED
    BY <1>1, <1>4, <1>5, <2>1, <2>2
<1> QED
  BY <1>6, <1>7

\* A delivery goes on: its batch stays counted, and a failure or a retry is one.
LEMMA TurnBalances ==
  ASSUME TypeOK, TypeOK', Accounted, NEW c, NEW s, Turns(c, s),
         Transmits(c, s) \/ Answers(c, s), UNCHANGED Between,
         \A k \in Counters \ {"failures", "retries"} : metrics'[k] = metrics[k],
         metrics'["failures"] = metrics["failures"] + IF s = "failed" THEN 1 ELSE 0,
         metrics'["retries"] = metrics["retries"] + IF s = "backoff" THEN 1 ELSE 0
  PROVE  Accounted'
<1>0. Attempts /\ Finite /\ Balance
  BY AccountedParts
<1>1. /\ c \in Event /\ UNCHANGED << queue, captures >>
      /\ delivery'[c].state = s /\ delivery'[c].events = delivery[c].events
      /\ \A b \in Event \ {c} : delivery'[b] = delivery[b]
  BY DEF Turns
<1>2. /\ Attempts'
      /\ Resends'[c] = Resends[c] + IF s = "backoff" THEN 1 ELSE 0
  BY <1>0, <1>1, AttemptsMove
<1>3. /\ delivery[c].state \in {"admitted", "sending", "backoff"}
      /\ s \in {"sending", "backoff", "delivered", "failed", "abandoned"}
  BY DEF Transmits, Answers
<1>4. delivery[c].state \in CountedStates /\ s \in CountedStates
  BY <1>3 DEF CountedStates, InFlight
<1>5. /\ delivery[c].state # "taken" /\ s # "taken"
      /\ delivery[c].state # "rejected" /\ s # "rejected" /\ delivery[c].state # "failed"
  BY <1>3
<1>6. /\ Finite' /\ TakenEvents' = TakenEvents
      /\ CountedEvents' = CountedEvents /\ CountedBatches' = CountedBatches
      /\ RejectedBatches' = RejectedBatches
      /\ s # "failed" => FailedBatches' = FailedBatches
      /\ s = "failed" => FailedBatches' = FailedBatches + 1
      /\ Resends'[c] = Resends[c] => Resent' = Resent
      /\ Resends'[c] = Resends[c] + 1 => Resent' = Resent + 1
  BY <1>0, <1>1, <1>4, <1>5, LedgerMoves
<1>7. /\ metrics'["queued"] = metrics["queued"] /\ metrics'["dropped"] = metrics["dropped"]
      /\ metrics'["batches"] = metrics["batches"]
      /\ metrics'["batchEvents"] = metrics["batchEvents"]
      /\ metrics'["circuitOpen"] = metrics["circuitOpen"]
  BY CounterNames
<1>8. /\ metrics["failures"] \in Nat /\ metrics["retries"] \in Nat /\ Resends[c] \in Nat
  <2>1. Resends[c] \in Nat
    BY <1>1, Summands
  <2> QED
    BY <2>1, CounterNames
<1>9. \A x \in Nat : x + 0 = x
  OBVIOUS
<1>10. metrics'["failures"] = FailedBatches'
  <2>1. metrics["failures"] = FailedBatches
    BY <1>0 DEF Balance
  <2>2. CASE s = "failed"
    BY <1>6, <2>1, <2>2
  <2>3. CASE s # "failed"
    BY <1>6, <1>8, <1>9, <2>1, <2>3
  <2> QED
    BY <2>2, <2>3
<1>11. metrics'["retries"] = Resent'
  <2>1. metrics["retries"] = Resent
    BY <1>0 DEF Balance
  <2>2. CASE s = "backoff"
    BY <1>2, <1>6, <2>1, <2>2
  <2>3. CASE s # "backoff"
    <3>1. Resends'[c] = Resends[c]
      BY <1>2, <1>8, <1>9, <2>3
    <3> QED
      BY <1>6, <1>8, <1>9, <2>1, <2>3, <3>1
  <2> QED
    BY <2>2, <2>3
<1>12. Balance'
  BY <1>0, <1>1, <1>6, <1>7, <1>10, <1>11 DEF Balance, Between
<1> QED
  BY <1>2, <1>6, <1>12, AccountedParts

\* The steps of a delivery turn its batch and count as the batch turns.
LEMMA DeliveryBalances ==
  ASSUME TypeOK, TypeOK', Accounted, NEW c \in Event, UNCHANGED << queue, captures >>,
         UNCHANGED Between, NEW s,
         \/ /\ delivery' = [delivery EXCEPT ![c].state = s]
            /\ \/ delivery[c].state = "sending" /\ s \in {"delivered", "backoff", "failed"}
               \/ delivery[c].state = "admitted" /\ s = "abandoned"
         \/ /\ delivery' = Attempt(c, s)
            /\ delivery[c].state \in {"admitted", "backoff"} /\ s \in {"sending", "failed"},
         metrics' = CASE s = "failed" -> Count(metrics, "failures")
                      [] s = "backoff" -> Count(metrics, "retries")
                      [] OTHER -> metrics
  PROVE  Accounted'
<1>1. Turns(c, s) /\ (Transmits(c, s) \/ Answers(c, s))
  <2>1. CASE /\ delivery' = [delivery EXCEPT ![c].state = s]
             /\ \/ delivery[c].state = "sending" /\ s \in {"delivered", "backoff", "failed"}
                \/ delivery[c].state = "admitted" /\ s = "abandoned"
    <3>1. Turns(c, s) /\ delivery'[c].attempt = delivery[c].attempt
      BY <2>1 DEF Turns, TypeOK, Batch
    <3> QED
      BY <2>1, <3>1 DEF Answers
  <2>2. CASE /\ delivery' = Attempt(c, s)
             /\ delivery[c].state \in {"admitted", "backoff"} /\ s \in {"sending", "failed"}
    <3>1. Turns(c, s) /\ delivery'[c].attempt = delivery[c].attempt + 1
      BY <2>2 DEF Attempt, Turns, TypeOK, Batch
    <3> QED
      BY <2>2, <3>1 DEF Transmits
  <2> QED
    BY <2>1, <2>2
<1>2. /\ metrics \in [Counters -> Nat] /\ "failures" \in Counters /\ "retries" \in Counters
      /\ metrics["failures"] \in Nat /\ metrics["retries"] \in Nat
  BY CounterNames DEF TypeOK
<1>3. \A x \in Nat : x + 0 = x
  OBVIOUS
<1>4. /\ \A k \in Counters \ {"failures", "retries"} : metrics'[k] = metrics[k]
      /\ metrics'["failures"] = metrics["failures"] + IF s = "failed" THEN 1 ELSE 0
      /\ metrics'["retries"] = metrics["retries"] + IF s = "backoff" THEN 1 ELSE 0
  <2>1. CASE s = "failed"
    <3>1. /\ metrics'["failures"] = metrics["failures"] + 1
          /\ \A k \in Counters \ {"failures"} : metrics'[k] = metrics[k]
      BY <1>2, <2>1, Counting
    <3>2. metrics'["retries"] = metrics["retries"] + 0
      BY <1>2, <1>3, <3>1
    <3> QED
      BY <2>1, <3>1, <3>2
  <2>2. CASE s = "backoff"
    <3>1. /\ metrics'["retries"] = metrics["retries"] + 1
          /\ \A k \in Counters \ {"retries"} : metrics'[k] = metrics[k]
      BY <1>2, <2>2, Counting
    <3>2. metrics'["failures"] = metrics["failures"] + 0
      BY <1>2, <1>3, <3>1
    <3> QED
      BY <2>2, <3>1, <3>2
  <2>3. CASE s # "failed" /\ s # "backoff"
    <3>1. metrics' = metrics
      BY <2>3
    <3> QED
      BY <1>2, <1>3, <2>3, <3>1
  <2> QED
    BY <2>1, <2>2, <2>3
<1> QED
  BY <1>1, <1>4, TurnBalances

\* A transmission, from flushQueue() or after a backoff, is accounted for.
LEMMA SendBalances ==
  ASSUME TypeOK, TypeOK', Accounted, NEW c \in Event, UNCHANGED << queue, captures >>,
         UNCHANGED Between, delivery[c].state \in {"admitted", "backoff"},
         \/ Send(c) /\ UNCHANGED << circuit, metrics, overtaken >>
         \/ SendThrows(c)
  PROVE  Accounted'
<1>1. CASE Send(c) /\ UNCHANGED << circuit, metrics, overtaken >>
  <2>1. /\ delivery' = Attempt(c, "sending")
        /\ metrics' = CASE "sending" = "failed" -> Count(metrics, "failures")
                        [] "sending" = "backoff" -> Count(metrics, "retries")
                        [] OTHER -> metrics
    BY <1>1 DEF Send
  <2> QED
    BY <2>1, DeliveryBalances
<1>2. CASE SendThrows(c)
  <2>1. /\ delivery' = Attempt(c, "failed")
        /\ metrics' = CASE "failed" = "failed" -> Count(metrics, "failures")
                        [] "failed" = "backoff" -> Count(metrics, "retries")
                        [] OTHER -> metrics
    BY <1>2 DEF SendThrows
  <2> QED
    BY <2>1, DeliveryBalances
<1> QED
  BY <1>1, <1>2

\* An answer is accounted for.
LEMMA ResponseBalances ==
  ASSUME TypeOK, TypeOK', Accounted, NEW c \in Event, Response(c)
  PROVE  Accounted'
<1>1. UNCHANGED << queue, captures >> /\ delivery[c].state = "sending" /\ UNCHANGED pc
  BY DEF Response, Delivered, Retry, Exhausted, queueVars, processVars
<1>5. UNCHANGED Between
  BY <1>1, BetweenStays
<1>2. CASE Delivered(c)
  <2>1. /\ delivery' = [delivery EXCEPT ![c].state = "delivered"]
        /\ metrics' = CASE "delivered" = "failed" -> Count(metrics, "failures")
                        [] "delivered" = "backoff" -> Count(metrics, "retries")
                        [] OTHER -> metrics
    BY <1>2 DEF Delivered
  <2> QED
    BY <1>1, <1>5, <2>1, DeliveryBalances
<1>3. CASE Retry(c)
  <2>1. /\ delivery' = [delivery EXCEPT ![c].state = "backoff"]
        /\ metrics' = CASE "backoff" = "failed" -> Count(metrics, "failures")
                        [] "backoff" = "backoff" -> Count(metrics, "retries")
                        [] OTHER -> metrics
    BY <1>3 DEF Retry
  <2> QED
    BY <1>1, <1>5, <2>1, DeliveryBalances
<1>4. CASE Exhausted(c)
  <2>1. /\ delivery' = [delivery EXCEPT ![c].state = "failed"]
        /\ metrics' = CASE "failed" = "failed" -> Count(metrics, "failures")
                        [] "failed" = "backoff" -> Count(metrics, "retries")
                        [] OTHER -> metrics
    BY <1>4 DEF Exhausted, Fail
  <2> QED
    BY <1>1, <1>5, <2>1, DeliveryBalances
<1> QED
  BY <1>2, <1>3, <1>4 DEF Response

\* The counters stay in balance at every step.
LEMMA AccountedStep ==
  ASSUME TypeOK, TypeOK', Owned, Accounted, [Next]_vars
  PROVE  Accounted'
<1>a. ASSUME UNCHANGED << queue, captures, delivery, metrics >>, UNCHANGED Between
      PROVE  Accounted'
  <2>1. Attempts /\ Finite /\ Balance
    BY AccountedParts
  <2>2. Attempts' /\ Finite'
    BY <1>a, <2>1, LedgerStays
  <2>3. Balance'
    BY <1>a, <2>1, LedgerStays DEF Balance, Between
  <2> QED
    BY <2>2, <2>3, AccountedParts
<1>b. ASSUME NEW t \in Threads, pc[t] = "deliver"
      PROVE  batchOf[t] \in Event /\ delivery[batchOf[t]].state = "admitted"
  BY <1>b DEF TypeOK, Owned, Ownership
<1>1. ASSUME NEW w \in Workers, Capture(w) PROVE Accounted'
  BY <1>1, CaptureBalances
<1>2. ASSUME NEW t \in Threads, TakeNothing(t) PROVE Accounted'
  <2>1. UNCHANGED Between
    BY <1>2, BetweenStays DEF TakeNothing
  <2> QED
    BY <1>2, <2>1, <1>a DEF TakeNothing, processVars
<1>3. ASSUME NEW t \in Threads, TakeQueue(t) PROVE Accounted'
  BY <1>3, TakeBalances
<1>4. ASSUME NEW t \in Threads, Reject(t) PROVE Accounted'
  BY <1>4, RejectBalances
<1>5. ASSUME NEW t \in Threads, Admit(t) PROVE Accounted'
  BY <1>5, AdmitBalances
<1>6. ASSUME NEW t \in Threads, BuildFails(t) PROVE Accounted'
  <2>1. /\ UNCHANGED << queue, captures >>
        /\ delivery' = [delivery EXCEPT ![batchOf[t]].state = "abandoned"]
        /\ metrics' = CASE "abandoned" = "failed" -> Count(metrics, "failures")
                        [] "abandoned" = "backoff" -> Count(metrics, "retries")
                        [] OTHER -> metrics
    BY <1>6 DEF BuildFails, queueVars, processVars
  <2>2. batchOf[t] \in Event /\ delivery[batchOf[t]].state = "admitted"
    BY <1>6, <1>b DEF BuildFails
  <2>3. UNCHANGED Between
    BY <1>6, BetweenStays DEF BuildFails
  <2> QED
    BY <2>1, <2>2, <2>3, DeliveryBalances
<1>7. ASSUME NEW t \in Threads, Start(t) PROVE Accounted'
  <2>1. batchOf[t] \in Event /\ delivery[batchOf[t]].state \in {"admitted", "backoff"}
    BY <1>7, <1>b DEF Start
  <2>2. /\ UNCHANGED << queue, captures >>
        /\ \/ Send(batchOf[t]) /\ UNCHANGED << circuit, metrics, overtaken >>
           \/ SendThrows(batchOf[t])
    BY <1>7 DEF Start, queueVars, processVars
  <2>3. UNCHANGED Between
    BY <1>7, BetweenStays DEF Start
  <2> QED
    BY <2>1, <2>2, <2>3, SendBalances
<1>8. ASSUME NEW i \in Event, TimerFires(i) PROVE Accounted'
  <2>1. Loop \in Threads
    BY DEF Threads
  <2>2. UNCHANGED Between
    BY <1>8, <2>1, BetweenStays DEF TimerFires, LoopIdle
  <2> QED
    BY <1>8, <2>2, <1>a DEF TimerFires, processVars
<1>9. ASSUME NEW c \in Event, Response(c) PROVE Accounted'
  BY <1>9, ResponseBalances
<1>10. ASSUME NEW c \in Event, BackoffEnds(c) PROVE Accounted'
  <2>1. delivery[c].state \in {"admitted", "backoff"} /\ UNCHANGED << queue, captures >>
    BY <1>10 DEF BackoffEnds, queueVars, processVars
  <2>2. \/ Send(c) /\ UNCHANGED << circuit, metrics, overtaken >>
        \/ SendThrows(c)
    BY <1>10 DEF BackoffEnds
  <2>3. UNCHANGED Between
    BY <1>10, BetweenStays DEF BackoffEnds
  <2> QED
    BY <2>1, <2>2, <2>3, SendBalances
<1>11. ASSUME CooldownElapses \/ Signal \/ Quit \/ UNCHANGED vars PROVE Accounted'
  <2>1. UNCHANGED << queue, captures, delivery, metrics >>
    BY <1>11 DEF CooldownElapses, Signal, Quit, vars, queueVars, processVars
  <2>2. \/ pc' = pc
        \/ pc[Loop] = "idle" /\ pc' = [pc EXCEPT ![Loop] = "flush"] /\ Loop \in Threads
    BY <1>11 DEF CooldownElapses, Signal, Quit, vars, LoopIdle, Threads
  <2>3. UNCHANGED Between
    BY <2>2, BetweenStays
  <2> QED
    BY <2>1, <2>3, <1>a
<1>12. ASSUME NEW t \in Threads, CountBatch(t) \/ CountRejected(t) \/ CountDropped(t)
       PROVE  Accounted'
  BY <1>12, CountingBalances
<1>13. ASSUME NEW t \in Threads, CountEvents(t) PROVE Accounted'
  BY <1>13, EventsBalance
<1> QED
  BY <1>1, <1>2, <1>3, <1>4, <1>5, <1>6, <1>7, <1>8, <1>9, <1>10, <1>11, <1>12, <1>13
     DEF Next, FlushStep

\* The counters of /metrics account for every captured exception and every batch,
\* for any number of threads and captures and any settings: what
\* captureException counts as queued is in the queue, in the hands of a thread in
\* flushQueue() or in a batch that was counted, what it dropped and what the
\* circuit refused add up, and retries and failures are those of the deliveries.
THEOREM CountersBalance == Spec => []MetricsBalance
<1>1. Init => TypeOK /\ Owned /\ Accounted
  BY TypeInit, OwnedInit, AccountedInit
<1>2. TypeOK /\ Owned /\ Accounted /\ [Next]_vars => (TypeOK /\ Owned /\ Accounted)'
  BY TypeStep, OwnedStep, AccountedStep
<1>3. Accounted => MetricsBalance
  BY DEF Accounted
<1> QED
  BY <1>1, <1>2, <1>3, PTL DEF Spec
=============================================================================
