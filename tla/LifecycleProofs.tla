-------------------------- MODULE LifecycleProofs --------------------------
(***************************************************************************)
(* Theorems of Lifecycle, for any number of signals and of gRPC calls,     *)
(* and of Configuration, which comes first in main().                      *)
(*                                                                         *)
(* What carries them: a server that was reset has no thread that waits for *)
(* it and no call that runs (ResetIsFinal); the two walks through stop()   *)
(* differ only in where they go on, so what holds at a step of the handler *)
(* holds at the same step of the destructor (StopInOrder); and a timer is  *)
(* only made once the server is reset (StoppedStays).                      *)
(***************************************************************************)
EXTENDS Lifecycle, Configuration, TLAPS

Early == {"settings", "arguments", "start"}

ShutSteps == {"stop_wait", "stop_join", "stop_reset",
              "destroy_wait", "destroy_join", "destroy_reset"}

EndedSteps == {"stop_join", "stop_reset", "destroy_join", "destroy_reset"}

JoinedSteps == {"stop_reset", "destroy_reset"}

AfterAStop == {"flush", "return"} \cup InDestroy

One(b) == IF b THEN 1 ELSE 0

\* Every timer goes back to a signal of its own.
SignalsToCome == One("TERM" \in raised) + One("INT" \in raised)

InHandler == One(main \in InStop \cup {"flush"})

TimersCounted == timers + SignalsToCome + InHandler <= sent

NothingYet == main \in Early => server = "none" /\ timers = 0

ResetIsFinal == server = "none" => waiter = "none" /\ CallsEnded

StopInOrder ==
  /\ main \in ShutSteps => server # "up"
  /\ main \in EndedSteps => CallsEnded
  /\ main \in JoinedSteps => waiter = "none"

StoppedStays ==
  exit = "0" \/ main \in AfterAStop \/ timers > 0 => server = "none"

OverIsGone == (exit = "no") <=> (main # "gone")

\* TypeOK but for the bound on the timers, which TimersCounted gives.
Types ==
  /\ grpcEnabled \in BOOLEAN
  /\ main \in {"settings", "arguments", "start", "register", "loop", "flush", "return", "gone"}
              \cup InStop \cup InDestroy
  /\ exit \in {"no", "0", "0_tables", "1", "abort", "killed"}
  /\ server \in {"none", "up", "shut"}
  /\ waiter \in {"none", "started", "waiting", "ended"}
  /\ call \in [Calls -> {"none", "running", "serving"}]
  /\ sent \in 0..MaxSignals
  /\ raised \subseteq Signals
  /\ timers \in Nat

Inv ==
  /\ Types
  /\ TimersCounted
  /\ NothingYet
  /\ ResetIsFinal
  /\ StopInOrder
  /\ StoppedStays
  /\ OverIsGone

USE MaxSignalsAssumption

LEMMA Counts == SignalsToCome \in 0..2 /\ InHandler \in 0..1
BY DEF SignalsToCome, InHandler, One

LEMMA Numbers ==
  ASSUME Types
  PROVE  timers \in Nat /\ sent \in Nat
<1>1. timers \in Nat /\ sent \in 0..MaxSignals
  BY DEF Types
<1> QED BY <1>1

LEMMA InvInit == Init => Inv
<1> SUFFICES ASSUME Init
             PROVE  Inv
  OBVIOUS
<1>1. Types
  BY DEF Init, Types, Signals
<1>2. TimersCounted
  BY DEF Init, TimersCounted, SignalsToCome, InHandler, One, InStop
<1>3. NothingYet /\ ResetIsFinal /\ StopInOrder /\ StoppedStays /\ OverIsGone
  BY DEF Init, NothingYet, ResetIsFinal, CallsEnded, StopInOrder, ShutSteps, EndedSteps,
         JoinedSteps, StoppedStays, AfterAStop, InDestroy, OverIsGone
<1> QED BY <1>1, <1>2, <1>3 DEF Inv

-----------------------------------------------------------------------------
(* The main thread: one lemma for each of the steps it goes through. *)

LEMMA EndsKeeps ==
  ASSUME Inv, NEW how \in {"0", "0_tables", "1", "abort"}, Ends(how),
         how = "0" => main = "return"
  PROVE  Inv'
<1>1. Types'
  BY DEF Inv, Types, Ends
<1>2. TimersCounted'
  <2>1. sent' = sent /\ timers' = timers /\ SignalsToCome' = SignalsToCome
    BY DEF Ends, SignalsToCome
  <2>2. InHandler' = 0
    BY DEF Ends, InHandler, One, InStop
  <2>3. timers \in Nat /\ sent \in Nat /\ TimersCounted
    BY Numbers DEF Inv
  <2> QED BY <2>1, <2>2, <2>3, Counts DEF TimersCounted
<1>3. ResetIsFinal' /\ StoppedStays'
  BY DEF Inv, ResetIsFinal, StoppedStays, AfterAStop, InDestroy, Ends, CallsEnded
<1>4. main' = "gone" /\ exit' # "no"
  BY DEF Ends
<1>5. NothingYet' /\ StopInOrder' /\ OverIsGone'
  BY <1>4 DEF NothingYet, Early, StopInOrder, ShutSteps, EndedSteps, JoinedSteps, OverIsGone
<1> QED BY <1>1, <1>2, <1>3, <1>5 DEF Inv

LEMMA StartKeeps ==
  ASSUME Inv, LoadSettings \/ ReadArguments \/ StartServer \/ Register
  PROVE  Inv'
<1>1. CASE \E how \in {"0_tables", "1", "abort"} : Ends(how)
  BY <1>1, EndsKeeps
<1>2. CASE /\ Runs /\ main \in {"settings", "arguments", "start", "register"}
           /\ main' \in {"arguments", "start", "register", "loop"} /\ exit' = exit
           /\ main' \in Early => main \in Early
           /\ UNCHANGED <<grpcEnabled, server, waiter, call, sent, raised, timers>>
  <2>1. Types'
    BY <1>2 DEF Inv, Types
  <2>2. TimersCounted'
    BY <1>2 DEF Inv, Types, TimersCounted, SignalsToCome, InHandler, One, InStop
  <2>3. NothingYet' /\ StopInOrder' /\ OverIsGone'
    BY <1>2 DEF Inv, NothingYet, Early, StopInOrder, ShutSteps, EndedSteps, JoinedSteps,
                OverIsGone
  <2>4. ResetIsFinal' /\ StoppedStays'
    BY <1>2 DEF Inv, Types, ResetIsFinal, CallsEnded, StoppedStays, AfterAStop, InDestroy
  <2> QED BY <2>1, <2>2, <2>3, <2>4 DEF Inv
<1>3. CASE At("start") /\ GrpcStarts
  <2>1. Types'
    BY <1>3 DEF Inv, Types, GrpcStarts, GoesTo
  <2>2. TimersCounted'
    BY <1>3 DEF Inv, Types, TimersCounted, SignalsToCome, InHandler, One, InStop, GrpcStarts, GoesTo, At
  <2>3. NothingYet' /\ StopInOrder' /\ OverIsGone'
    BY <1>3 DEF Inv, NothingYet, Early, StopInOrder, ShutSteps, EndedSteps, JoinedSteps,
                OverIsGone, GrpcStarts, GoesTo, At, Runs
  <2>4. ResetIsFinal' /\ StoppedStays'
    BY <1>3 DEF Inv, Types, NothingYet, Early, ResetIsFinal, StoppedStays, AfterAStop,
                InDestroy, GrpcStarts, GoesTo, At, Runs
  <2> QED BY <2>1, <2>2, <2>3, <2>4 DEF Inv
<1> QED
  BY <1>1, <1>2, <1>3
  DEF LoadSettings, ReadArguments, StartServer, Register, At, GoesTo, Early

\* No step of a walk raises a signal or makes a timer.
LEMMA WalkLeavesTheRest ==
  ASSUME Inv, Stop \/ Destroy
  PROVE  Types' /\ TimersCounted' /\ OverIsGone' /\ NothingYet'
<1>0. CASE Stop
  <2>1. /\ UNCHANGED <<grpcEnabled, exit, call, sent, raised, timers>>
        /\ main \in InStop /\ main' \in InStop \cup {"flush"}
        /\ server' \in {"none", "up", "shut"}
        /\ waiter' \in {"none", "started", "waiting", "ended"}
    BY <1>0 DEF Inv, Types, Stop, ShutDown, ShutdownReturns, Join, Reset, At, GoesTo, InStop
  <2>2. Types'
    BY <2>1 DEF Inv, Types
  <2>3. TimersCounted'
    BY <2>1 DEF Inv, TimersCounted, SignalsToCome, InHandler, One
  <2>4. OverIsGone' /\ NothingYet'
    BY <2>1 DEF Inv, OverIsGone, NothingYet, Early, InStop
  <2> QED BY <2>2, <2>3, <2>4
<1>1. CASE Destroy
  <2>1. /\ UNCHANGED <<grpcEnabled, exit, call, sent, raised, timers>>
        /\ main \in InDestroy /\ main' \in InDestroy \cup {"return"}
        /\ server' \in {"none", "up", "shut"}
        /\ waiter' \in {"none", "started", "waiting", "ended"}
    BY <1>1 DEF Inv, Types, Destroy, ShutDown, ShutdownReturns, Join, Reset, At, GoesTo,
                InDestroy
  <2>2. Types'
    BY <2>1 DEF Inv, Types
  <2>3. main \notin InStop \cup {"flush"} /\ main' \notin InStop \cup {"flush"}
    BY <2>1 DEF InStop, InDestroy
  <2>4. TimersCounted'
    BY <2>1, <2>3 DEF Inv, TimersCounted, SignalsToCome, InHandler, One
  <2>5. OverIsGone' /\ NothingYet'
    BY <2>1 DEF Inv, OverIsGone, NothingYet, Early, InDestroy
  <2> QED BY <2>2, <2>4, <2>5
<1> QED BY <1>0, <1>1

LEMMA WalkKeeps ==
  ASSUME Inv, Stop \/ Destroy
  PROVE  Inv'
<1> USE DEF Inv, At, GoesTo, Runs
<1>1. Types' /\ TimersCounted' /\ OverIsGone' /\ NothingYet'
  BY WalkLeavesTheRest
<1>2. ASSUME ShutDown("stop_shut_down", "stop_wait")
             \/ ShutDown("destroy_shut_down", "destroy_wait")
      PROVE  ResetIsFinal' /\ StopInOrder' /\ StoppedStays'
  BY <1>2 DEF ShutDown, ResetIsFinal, CallsEnded, StopInOrder, ShutSteps, EndedSteps,
              JoinedSteps, StoppedStays, AfterAStop, InDestroy
<1>3. ASSUME ShutdownReturns("stop_wait", "stop_join")
             \/ ShutdownReturns("destroy_wait", "destroy_join")
      PROVE  ResetIsFinal' /\ StopInOrder' /\ StoppedStays'
  BY <1>3 DEF ShutdownReturns, ResetIsFinal, CallsEnded, StopInOrder, ShutSteps, EndedSteps,
              JoinedSteps, StoppedStays, AfterAStop, InDestroy
<1>4. ASSUME Join("stop_join", "stop_reset") \/ Join("destroy_join", "destroy_reset")
      PROVE  ResetIsFinal' /\ StopInOrder' /\ StoppedStays'
  <2>1. /\ main \in EndedSteps /\ main' \in JoinedSteps
        /\ waiter' = "none" /\ UNCHANGED <<server, exit, timers, call>>
        /\ main' \in AfterAStop => main \in AfterAStop
    BY <1>4 DEF Join, EndedSteps, JoinedSteps, AfterAStop, InDestroy
  <2>2. main \in ShutSteps
    BY <2>1 DEF EndedSteps, ShutSteps
  <2>3. server # "up" /\ CallsEnded
    BY <2>1, <2>2 DEF StopInOrder
  <2> QED
    BY <2>1, <2>3 DEF ResetIsFinal, StopInOrder, StoppedStays, CallsEnded
<1>5. ASSUME Reset("stop_reset", "flush") \/ Reset("destroy_reset", "return")
      PROVE  ResetIsFinal' /\ StopInOrder' /\ StoppedStays'
  BY <1>5 DEF Reset, ResetIsFinal, CallsEnded, StopInOrder, ShutSteps, EndedSteps,
              JoinedSteps, StoppedStays, AfterAStop, InDestroy
<1> QED BY <1>1, <1>2, <1>3, <1>4, <1>5 DEF Stop, Destroy

LEMMA LoopKeeps ==
  ASSUME Inv, Flush \/ Quit \/ \E s \in Signals : HandlerRuns(s)
  PROVE  Inv'
<1> USE DEF Inv, At, GoesTo, Runs
<1>1. CASE Flush
  <2>1. Types'
    BY <1>1 DEF Types, Flush
  <2>2. TimersCounted'
    BY <1>1 DEF Types, TimersCounted, SignalsToCome, InHandler, One, InStop, Flush
  <2>3. ResetIsFinal' /\ StopInOrder' /\ StoppedStays' /\ OverIsGone' /\ NothingYet'
    BY <1>1 DEF Flush, ResetIsFinal, CallsEnded, StopInOrder, ShutSteps, EndedSteps,
                JoinedSteps, StoppedStays, AfterAStop, InDestroy, OverIsGone, NothingYet, Early
  <2> QED BY <2>1, <2>2, <2>3
<1>2. CASE Quit
  <2>0. timers \in Nat /\ timers > 0 => timers - 1 \in Nat
    OBVIOUS
  <2>1. Types'
    BY <1>2, <2>0 DEF Types, Quit, InDestroy
  <2>2. TimersCounted'
    <3>1. timers' = timers - 1 /\ sent' = sent /\ SignalsToCome' = SignalsToCome
      BY <1>2 DEF Quit, SignalsToCome
    <3>2. InHandler' = 0
      BY <1>2 DEF Quit, InHandler, One, InStop
    <3> QED BY <3>1, <3>2, Counts, Numbers DEF TimersCounted
  <2>3. ResetIsFinal' /\ StopInOrder' /\ StoppedStays' /\ OverIsGone' /\ NothingYet'
    BY <1>2 DEF Quit, Types, ResetIsFinal, CallsEnded, StopInOrder, ShutSteps, EndedSteps,
                JoinedSteps, StoppedStays, AfterAStop, InDestroy, OverIsGone, NothingYet, Early
  <2> QED BY <2>1, <2>2, <2>3
<1>3. ASSUME NEW s \in Signals, HandlerRuns(s)
      PROVE  Inv'
  <2>1. Types'
    BY <1>3 DEF Types, HandlerRuns, InStop
  <2>2. main = "loop" /\ main' = "stop_shut_down" /\ s \in raised /\ raised' = raised \ {s}
        /\ sent' = sent /\ timers' = timers
    BY <1>3 DEF HandlerRuns
  <2>7. timers \in Nat /\ sent \in Nat /\ TimersCounted
    BY Numbers
  <2>6. InHandler = 0 /\ InHandler' = 1
    BY <2>2 DEF InHandler, One, InStop
  <2>3. ASSUME s = "TERM" PROVE TimersCounted'
    <3>1. "TERM" \in raised /\ "TERM" \notin raised'
          /\ ("INT" \in raised' <=> "INT" \in raised)
      BY <2>2, <2>3
    <3>2. SignalsToCome' = SignalsToCome - 1
      BY <3>1 DEF SignalsToCome, One
    <3> QED BY <3>2, <2>2, <2>6, <2>7, Counts DEF TimersCounted
  <2>4. ASSUME s = "INT" PROVE TimersCounted'
    <3>1. "INT" \in raised /\ "INT" \notin raised'
          /\ ("TERM" \in raised' <=> "TERM" \in raised)
      BY <2>2, <2>4
    <3>2. SignalsToCome' = SignalsToCome - 1
      BY <3>1 DEF SignalsToCome, One
    <3> QED BY <3>2, <2>2, <2>6, <2>7, Counts DEF TimersCounted
  <2>5. ResetIsFinal' /\ StopInOrder' /\ StoppedStays' /\ OverIsGone' /\ NothingYet'
    BY <1>3 DEF HandlerRuns, ResetIsFinal, CallsEnded, StopInOrder, ShutSteps, EndedSteps,
                JoinedSteps, StoppedStays, AfterAStop, InDestroy, OverIsGone, NothingYet, Early
  <2> QED BY <2>1, <2>3, <2>4, <2>5 DEF Signals
<1> QED BY <1>1, <1>2, <1>3

-----------------------------------------------------------------------------
(* The others: signals, the thread that waits, and the calls *)

LEMMA SignalKeeps ==
  ASSUME Inv, NEW s \in Signals, SignalComes(s)
  PROVE  Inv'
<1> USE DEF Inv, Runs
<1>1. Types'
  BY DEF Types, SignalComes
<1>2. TimersCounted'
  <2>1. timers \in Nat /\ sent \in Nat /\ timers' = timers /\ sent' = sent + 1
    BY Numbers DEF SignalComes
  <2>2. SignalsToCome' <= SignalsToCome + 1
    BY DEF SignalComes, SignalsToCome, One, Signals
  <2>3. InHandler' <= InHandler
    BY DEF SignalComes, InHandler, One, InStop
  <2> QED BY <2>1, <2>2, <2>3, Counts DEF TimersCounted, SignalsToCome, InHandler, One
<1>3. /\ exit' # "0"
      /\ \/ main' = main /\ exit' = exit
         \/ main' = "gone" /\ exit' # "no"
      /\ UNCHANGED <<server, waiter, call, timers>>
  BY DEF SignalComes
<1>4. ResetIsFinal' /\ StopInOrder' /\ StoppedStays' /\ OverIsGone' /\ NothingYet'
  BY <1>3 DEF ResetIsFinal, CallsEnded, StopInOrder, ShutSteps, EndedSteps, JoinedSteps,
              StoppedStays, AfterAStop, InDestroy, OverIsGone, NothingYet, Early
<1> QED BY <1>1, <1>2, <1>4

LEMMA OthersKeep ==
  ASSUME Inv, Waiter \/ (\E c \in Calls : CallBegins(c) \/ CallEnds(c)) \/ UNCHANGED vars
  PROVE  Inv'
<1> USE DEF Inv
<1>1. /\ UNCHANGED <<grpcEnabled, main, exit, server, sent, raised, timers>>
      /\ \/ waiter' = waiter
         \/ waiter \in {"started", "waiting"} /\ waiter' \in {"waiting", "ended"}
      /\ server # "up" /\ CallsEnded => CallsEnded'
  <2>1. CASE Waiter \/ UNCHANGED vars
    <3>1. call' = call
      BY <2>1 DEF Waiter, WaitBegins, WaitReturns, vars
    <3> QED BY <2>1, <3>1 DEF Waiter, WaitBegins, WaitReturns, vars, CallsEnded
  <2>2. ASSUME NEW c \in Calls, CallBegins(c)
        PROVE  server = "up" /\ UNCHANGED <<grpcEnabled, main, exit, server, waiter, sent,
                                            raised, timers>>
    BY <2>2 DEF CallBegins
  <2>3. ASSUME NEW c \in Calls, CallEnds(c)
        PROVE  /\ UNCHANGED <<grpcEnabled, main, exit, server, waiter, sent, raised, timers>>
               /\ CallsEnded => CallsEnded'
    BY <2>3 DEF CallEnds, CallsEnded, Types
  <2> QED BY <2>1, <2>2, <2>3
<1>2. call' \in [Calls -> {"none", "running", "serving"}]
  BY DEF Types, Waiter, WaitBegins, WaitReturns, CallBegins, CallEnds, vars
<1>3. Types'
  BY <1>1, <1>2 DEF Types
<1>4. TimersCounted' /\ OverIsGone' /\ NothingYet' /\ StoppedStays'
  BY <1>1 DEF TimersCounted, SignalsToCome, InHandler, OverIsGone, NothingYet, StoppedStays
<1>5. ResetIsFinal' /\ StopInOrder'
  BY <1>1 DEF ResetIsFinal, StopInOrder, ShutSteps, EndedSteps, JoinedSteps
<1> QED BY <1>3, <1>4, <1>5

LEMMA Inductive == Spec => []Inv
<1>1. Inv /\ [Next]_vars => Inv'
  <2> SUFFICES ASSUME Inv, [Next]_vars
               PROVE  Inv'
    OBVIOUS
  <2>1. CASE Return
    BY <2>1, EndsKeeps DEF Return, At
  <2>2. CASE Main /\ ~Return
    BY <2>2, StartKeeps, WalkKeeps, LoopKeeps DEF Main
  <2>3. CASE \E s \in Signals : SignalComes(s)
    BY <2>3, SignalKeeps
  <2>4. CASE Waiter \/ (\E c \in Calls : CallBegins(c) \/ CallEnds(c)) \/ UNCHANGED vars
    BY <2>4, OthersKeep
  <2> QED BY <2>1, <2>2, <2>3, <2>4 DEF Next
<1> QED BY InvInit, <1>1, PTL DEF Spec

-----------------------------------------------------------------------------
(* What the process promises *)

\* Every variable has its type; above all, no more timers wait to call quit()
\* than signals were sent (main.cc:294-309).
THEOREM TypeCorrect == Spec => []TypeOK
<1>1. Inv => TypeOK
  <2> SUFFICES ASSUME Inv
               PROVE  TypeOK
    OBVIOUS
  <2>1. timers \in Nat /\ sent \in 0..MaxSignals /\ TimersCounted
    BY DEF Inv, Types
  <2>2. timers \in 0..MaxSignals
    BY <2>1, Counts DEF TimersCounted
  <2> QED BY <2>2 DEF Inv, Types, TypeOK
<1> QED BY <1>1, Inductive, PTL

\* The waiting thread never finds server_ reset (GrpcServer.cc:37).
THEOREM WaiterSafe == Spec => []WaiterHasItsServer
<1>1. Inv => WaiterHasItsServer
  BY DEF Inv, ResetIsFinal, WaiterHasItsServer
<1> QED BY <1>1, Inductive, PTL

\* Nothing of a call is cut off by an orderly end (GrpcServer.cc:41).
THEOREM CallsAnswered == Spec => []NoCallIsCut
<1>1. Inv => NoCallIsCut
  BY DEF Inv, ResetIsFinal, StoppedStays, AfterAStop, NoCallIsCut
<1> QED BY <1>1, Inductive, PTL
-----------------------------------------------------------------------------
(* The settings that a process loads before all this: theorems of          *)
(* Configuration, for any .env and environment and any limits.             *)

\* The configuration is that of .env and the environment, which do not change.
Loaded ==
  /\ file \in Files \cup {Missing}
  /\ Configured => file \in Files /\ Accepted(Values) /\ config = FromValues(Values)

\* The reporter is the one that configure() makes of it.
Made ==
  /\ phase = "running" =>
       reporter = IF Makes(config.errorTrackingProvider)
                    THEN config.errorTrackingProvider ELSE "none"
  /\ phase # "running" => reporter = "none"

ConfigInv ==
  /\ phase \in {"start", "refused", "configured", "running"}
  /\ Loaded /\ Made

\* What a process comes to, it comes to by load() and configure().
LEMMA ConfigStep ==
  ASSUME ConfigInv, [ConfigNext]_configVars
  PROVE  ConfigInv'
<1> USE DEF ConfigInv, Loaded, Made, Configured
<1>1. CASE Load
  BY <1>1 DEF Load, Values
<1>2. CASE LoadFails
  BY <1>2 DEF LoadFails
<1>3. CASE ConfigureReporter
  <2>1. Values' = Values
    BY <1>3 DEF ConfigureReporter, Values
  <2>2. \A p : Makes(p)' <=> Makes(p)
    BY <1>3 DEF ConfigureReporter, Makes, ConstructorAccepts, TimeoutText
  <2> QED
    BY <1>3, <2>1, <2>2 DEF ConfigureReporter
<1>4. CASE UNCHANGED configVars
  BY <1>4 DEF configVars, Values, Makes, ConstructorAccepts, TimeoutText
<1> QED
  BY <1>1, <1>2, <1>3, <1>4 DEF ConfigNext

\* What load() lets through is in range.
LEMMA InRange ==
  ASSUME ConfigInv, Configured
  PROVE  /\ config.rateLimitRequests \in 0..MaxNumber
         /\ config.batchSize \in 1..MaxNumber
         /\ config.retryMaxAttempts \in 1..10
         /\ config.timeoutSeconds \in 1..MaxSeconds \cup {NaN}
         /\ config.batchDelaySeconds \in 1..MaxSeconds \cup {NaN}
<1> DEFINE v == Values
<1>1. Accepted(v) /\ config = FromValues(v)
  BY DEF ConfigInv, Loaded
<1>2. /\ MaxNumber \in Nat /\ MaxNumber >= 10 /\ MaxSeconds \in Nat
      /\ Resolution \in 1..MaxSeconds /\ 10 \in 1..MaxNumber /\ 0 \in 0..MaxNumber
      /\ 3 \in 1..10
  BY ConfigurationAssumption
<1> HIDE DEF v
<1>3. \A t : NumberOk(t) => Or(t, 10) \in 1..MaxNumber
  BY <1>2 DEF NumberOk, Or
<1>4. \A t : NonNegativeOk(t) => Or(t, 0) \in 0..MaxNumber
  BY <1>2 DEF NonNegativeOk, Or
<1>5. \A t : AttemptsOk(t) => Or(t, 3) \in 1..10
  BY <1>2 DEF AttemptsOk, NumberOk, Or
<1>6. \A t : SecondsOk(t) => Or(t, Resolution) \in 1..MaxSeconds \cup {NaN}
  BY <1>2 DEF SecondsOk, Or
<1>7. /\ NumberOk(v["OBSERVABILITY_BATCH_SIZE"])
      /\ AttemptsOk(v["OBSERVABILITY_RETRY_MAX_ATTEMPTS"])
      /\ SecondsOk(v["OBSERVABILITY_TIMEOUT_SECONDS"])
      /\ SecondsOk(v["OBSERVABILITY_BATCH_DELAY_SECONDS"])
      /\ NonNegativeOk(v["RATE_LIMIT_REQUESTS"])
  BY <1>1 DEF Accepted, ObservabilityOk
<1>8. /\ config.rateLimitRequests = Or(v["RATE_LIMIT_REQUESTS"], 0)
      /\ config.batchSize = Or(v["OBSERVABILITY_BATCH_SIZE"], 10)
      /\ config.retryMaxAttempts = Or(v["OBSERVABILITY_RETRY_MAX_ATTEMPTS"], 3)
      /\ config.timeoutSeconds = Or(v["OBSERVABILITY_TIMEOUT_SECONDS"], Resolution)
      /\ config.batchDelaySeconds = Or(v["OBSERVABILITY_BATCH_DELAY_SECONDS"], Resolution)
  BY <1>1 DEF FromValues
<1> QED
  BY <1>3, <1>4, <1>5, <1>6, <1>7, <1>8

\* A timeout that is read twice is a number both times, unless it is empty.
LEMMA TimeoutReads ==
  ASSUME ConfigInv, Configured, TimeoutText # Empty
  PROVE  TimeoutText # Bad
<1> DEFINE k == "OBSERVABILITY_TIMEOUT_SECONDS"
<1>1. /\ file \in Files /\ SecondsOk(Values[k])
  BY DEF ConfigInv, Loaded, Accepted, ObservabilityOk
<1>2. \A t \in {Absent, Empty, Bad, NaN} : t \notin Nat
  BY ConfigurationAssumption
<1>3. Bad \notin {Absent, Empty, NaN} /\ Resolution \in Nat \ {0}
  BY ConfigurationAssumption
<1>4. CASE env[k] = Absent
  <2>1. TimeoutText = Printed(config.timeoutSeconds)
    BY <1>4 DEF TimeoutText
  <2>2. CASE config.timeoutSeconds = NaN
    BY <1>3, <2>1, <2>2 DEF Printed
  <2>3. CASE config.timeoutSeconds \in Nat /\ config.timeoutSeconds # NaN
    <3>1. \A d, r \in Nat : r # 0 => ((2 * d + r) \div (2 * r)) * r \in Nat
      OBVIOUS
    <3>2. Printed(config.timeoutSeconds) \in Nat
      BY <1>3, <2>3, <3>1 DEF Printed
    <3> QED
      BY <1>2, <2>1, <3>2
  <2>4. config.timeoutSeconds \in 1..MaxSeconds \cup {NaN}
    BY InRange
  <2> QED
    BY <2>2, <2>3, <2>4, ConfigurationAssumption
<1>5. CASE env[k] # Absent
  <2>1. TimeoutText = env[k]
    BY <1>5 DEF TimeoutText
  <2>2. Values[k] = env[k]
    BY <1>1, <1>5, ConfigurationAssumption DEF Values, Settings
  <2>3. TimeoutText \in {Absent, NaN} \cup 1..MaxSeconds
    BY <1>1, <2>1, <2>2 DEF SecondsOk, Unset
  <2>4. 1..MaxSeconds \subseteq Nat
    BY ConfigurationAssumption
  <2> QED
    BY <1>2, <1>3, <2>3, <2>4
<1> QED
  BY <1>4, <1>5

\* "validates it into a typed configuration": what load() accepts is in the
\* ranges that the reporter and the limiter assume, whatever .env and the
\* environment hold.
THEOREM ConfigurationTyped == ConfigSpec => []ConfigTypeOK
<1>1. ConfigInit => ConfigInv
  BY DEF ConfigInit, ConfigInv, Loaded, Made, Configured
<1>2. ConfigInv /\ [ConfigNext]_configVars => ConfigInv'
  BY ConfigStep
<1>3. ConfigInv => ConfigTypeOK
  <2> SUFFICES ASSUME ConfigInv PROVE ConfigTypeOK
    OBVIOUS
  <2>1. reporter \in {"none", "otlp", "sentry"}
    BY DEF ConfigInv, Made, Makes
  <2> QED
    BY <2>1, InRange DEF ConfigTypeOK, ConfigInv
<1> QED
  BY <1>1, <1>2, <1>3, PTL DEF ConfigSpec

\* What the configuration asks for runs: for any files, environments and limits,
\* a provider with its endpoint becomes the reporter, but for a delay that is
\* printed as 0 and a timeout that is exported as the empty text.
THEOREM ConfiguredReporterRuns == ConfigSpec => []ReporterRunsAsConfigured
<1>1. ConfigInit => ConfigInv
  BY DEF ConfigInit, ConfigInv, Loaded, Made, Configured
<1>2. ConfigInv /\ [ConfigNext]_configVars => ConfigInv'
  BY ConfigStep
<1>3. ConfigInv => ReporterRunsAsConfigured
  <2> SUFFICES ASSUME ConfigInv, phase = "running",
                      Printed(config.batchDelaySeconds) # 0, TimeoutText # Empty
               PROVE  /\ config.errorTrackingProvider = "otlp" /\ config.otlpEndpoint # Empty
                           => reporter = "otlp"
                      /\ config.errorTrackingProvider = "sentry"
                           /\ config.sentryDsn = SentryUrl => reporter = "sentry"
    BY DEF ReporterRunsAsConfigured
  <2>1. ConstructorAccepts
    <3>1. config.batchSize > 0 /\ config.retryMaxAttempts \in 1..10
      BY InRange, ConfigurationAssumption DEF Configured
    <3>2. TimeoutText \notin {Empty, Bad}
      BY TimeoutReads DEF Configured
    <3> QED
      BY <3>1, <3>2 DEF ConstructorAccepts
  <2>2. reporter = IF Makes(config.errorTrackingProvider)
                     THEN config.errorTrackingProvider ELSE "none"
    BY DEF ConfigInv, Made
  <2> QED
    BY <2>1, <2>2 DEF Makes, OtlpEndpoint
<1> QED
  BY <1>1, <1>2, <1>3, PTL DEF ConfigSpec
=============================================================================
