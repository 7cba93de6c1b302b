----------------------------- MODULE Lifecycle -----------------------------
(***************************************************************************)
(* The process from main() to its exit: the arguments, runServer(), the    *)
(* optional gRPC server with the thread that waits for it, the event loop, *)
(* and the handlers of SIGTERM and SIGINT, which stop the gRPC server,     *)
(* flush the reporter and let a timer quit the loop.                       *)
(*                                                                         *)
(* The framework (external) runs a signal handler in the thread of the     *)
(* event loop, between two callbacks; until run() installs the handlers a  *)
(* signal ends the process.  The gRPC library (external) lets the calls    *)
(* end that it accepted before Shutdown().  ErrorReporter has what the     *)
(* flush starts, Configuration what loading the settings does.             *)
(***************************************************************************)
EXTENDS Naturals, FiniteSets

CONSTANTS
  Calls,      \* the calls of the gRPC health service that clients may make
  MaxSignals  \* bound: the signals that are sent

ASSUME MaxSignalsAssumption == MaxSignals \in Nat

VARIABLES
  grpcEnabled,  \* GRPC_ENABLED, in a build that has ENABLE_GRPC
  main,         \* where the main thread is
  exit,         \* how the process ended: "no" while it runs
  server,       \* server_: "none", or a gRPC server that is "up" or "shut"
  waiter,       \* waitThread_: "none", "started", "waiting" and "ended" until it is joined
  call,         \* the calls of the clients
  sent,         \* how many signals were sent
  raised,       \* the signals whose handler has still to run
  timers        \* the timers that will call quit()

vars == <<grpcEnabled, main, exit, server, waiter, call, sent, raised, timers>>

Signals == {"TERM", "INT"}

Init ==
  /\ grpcEnabled \in BOOLEAN
  /\ main = "settings"
  /\ exit = "no"
  /\ server = "none" /\ waiter = "none"
  /\ call = [c \in Calls |-> "none"]
  /\ sent = 0 /\ raised = {} /\ timers = 0

Runs == exit = "no"

At(pc) == Runs /\ main = pc

GoesTo(pc) == main' = pc /\ UNCHANGED exit

\* The process is over, and with it its threads, its calls and its timers.
Ends(how) ==
  /\ exit' = how
  /\ main' = "gone"
  /\ UNCHANGED <<grpcEnabled, server, waiter, call, sent, raised, timers>>

-----------------------------------------------------------------------------
(* main() and runServer() *)

LoadSettings ==
  /\ At("settings")
  /\ \/ Ends("1")
     \/ GoesTo("arguments") /\ UNCHANGED <<grpcEnabled, server, waiter, call, sent, raised, timers>>

\* The arguments are wrong, or ask for the tables or the server; with the
\* tables nothing is left to do, for whatever happens to them is caught there.
ReadArguments ==
  /\ At("arguments")
  /\ \/ Ends("1")
     \/ Ends("0_tables")
     \/ GoesTo("start") /\ UNCHANGED <<grpcEnabled, server, waiter, call, sent, raised, timers>>

\* GrpcServer::start(): the thread is made when the server is up.
GrpcStarts ==
  /\ server' = "up" /\ waiter' = "started"
  /\ GoesTo("register")
  /\ UNCHANGED <<grpcEnabled, call, sent, raised, timers>>

\* A server that cannot listen is an exception that nobody catches.
StartServer ==
  /\ At("start")
  /\ \/ /\ ~grpcEnabled
        /\ GoesTo("register")
        /\ UNCHANGED <<grpcEnabled, server, waiter, call, sent, raised, timers>>
     \/ grpcEnabled /\ GrpcStarts
     \/ grpcEnabled /\ Ends("abort")

\* Advices, handlers, listener, framework settings (an exception of theirs is
\* caught) and routes; run() then installs the handlers of the signals.
Register ==
  /\ At("register")
  /\ GoesTo("loop")
  /\ UNCHANGED <<grpcEnabled, server, waiter, call, sent, raised, timers>>

-----------------------------------------------------------------------------
(* The signals: their handlers call stop() and go through it step by step. *)

\* A signal that comes before its handler is installed ends the process; of two
\* of a kind that wait, the handler sees one.
SignalComes(s) ==
  /\ Runs /\ sent < MaxSignals
  /\ sent' = sent + 1
  /\ IF main \in {"settings", "arguments", "start", "register"}
     THEN exit' = "killed" /\ main' = "gone" /\ UNCHANGED raised
     ELSE raised' = raised \cup {s} /\ UNCHANGED <<exit, main>>
  /\ UNCHANGED <<grpcEnabled, server, waiter, call, timers>>

\* Mutant: the handler flushes without a stop.
HandlerSkipsStop(s) ==
  /\ At("loop") /\ s \in raised
  /\ raised' = raised \ {s}
  /\ GoesTo("flush")
  /\ UNCHANGED <<grpcEnabled, server, waiter, call, sent, timers>>

HandlerRuns(s) ==
  /\ At("loop") /\ s \in raised
  /\ raised' = raised \ {s}
  /\ GoesTo("stop_shut_down")
  /\ UNCHANGED <<grpcEnabled, server, waiter, call, sent, timers>>

\* Shutdown(): no call is taken any more.
ShutDown(pc, next) ==
  /\ At(pc)
  /\ server' = IF server = "none" THEN "none" ELSE "shut"
  /\ GoesTo(next)
  /\ UNCHANGED <<grpcEnabled, waiter, call, sent, raised, timers>>

\* It has no deadline: it returns when all the calls have ended.
CallsEnded == \A c \in Calls : call[c] # "running"

ShutdownReturns(pc, next) ==
  /\ At(pc)
  /\ server = "none" \/ CallsEnded
  /\ GoesTo(next)
  /\ UNCHANGED <<grpcEnabled, server, waiter, call, sent, raised, timers>>

Joined == waiter \in {"none", "ended"}

Join(pc, next) ==
  /\ At(pc) /\ Joined
  /\ waiter' = "none"
  /\ GoesTo(next)
  /\ UNCHANGED <<grpcEnabled, server, call, sent, raised, timers>>

Reset(pc, next) ==
  /\ At(pc)
  /\ server' = "none"
  /\ GoesTo(next)
  /\ UNCHANGED <<grpcEnabled, waiter, call, sent, raised, timers>>

\* Mutant: the server is reset before the thread is joined.
StopResetsFirst ==
  \/ ShutDown("stop_shut_down", "stop_wait")
  \/ ShutdownReturns("stop_wait", "stop_reset")
  \/ Reset("stop_reset", "stop_join")
  \/ Join("stop_join", "flush")

Stop ==
  \/ ShutDown("stop_shut_down", "stop_wait")
  \/ ShutdownReturns("stop_wait", "stop_join")
  \/ Join("stop_join", "stop_reset")
  \/ Reset("stop_reset", "flush")

\* Mutant: only a handler that has stopped a gRPC server makes the timer.
FlushWithTimerForGrpc ==
  /\ At("flush")
  /\ timers' = timers + (IF grpcEnabled THEN 1 ELSE 0)
  /\ GoesTo("loop")
  /\ UNCHANGED <<grpcEnabled, server, waiter, call, sent, raised>>

\* flushErrorReporter() and runAfter(0.25, quit), and the handler returns.
Flush ==
  /\ At("flush")
  /\ timers' = timers + 1
  /\ GoesTo("loop")
  /\ UNCHANGED <<grpcEnabled, server, waiter, call, sent, raised>>

\* The timer: run() returns, and the destructor of the gRPC server stops it.
Quit ==
  /\ At("loop") /\ timers > 0
  /\ timers' = timers - 1
  /\ GoesTo("destroy_shut_down")
  /\ UNCHANGED <<grpcEnabled, server, waiter, call, sent, raised>>

Destroy ==
  \/ ShutDown("destroy_shut_down", "destroy_wait")
  \/ ShutdownReturns("destroy_wait", "destroy_join")
  \/ Join("destroy_join", "destroy_reset")
  \/ Reset("destroy_reset", "return")

Return == At("return") /\ Ends("0")

Main ==
  \/ LoadSettings \/ ReadArguments \/ StartServer \/ Register
  \/ Stop \/ Flush \/ Quit \/ Destroy \/ Return
  \/ \E s \in Signals : HandlerRuns(s)

-----------------------------------------------------------------------------
(* The thread of server_->Wait(), and the calls. *)

WaitBegins ==
  /\ Runs /\ waiter = "started"
  /\ waiter' = "waiting"
  /\ UNCHANGED <<grpcEnabled, main, exit, server, call, sent, raised, timers>>

\* Wait() returns when the server is shut and its calls have ended.
WaitReturns ==
  /\ Runs /\ waiter = "waiting"
  /\ server = "shut" /\ CallsEnded
  /\ waiter' = "ended"
  /\ UNCHANGED <<grpcEnabled, main, exit, server, call, sent, raised, timers>>

Waiter == WaitBegins \/ WaitReturns

CallBegins(c) ==
  /\ Runs /\ server = "up" /\ call[c] = "none"
  /\ call' = [call EXCEPT ![c] = "running"]
  /\ UNCHANGED <<grpcEnabled, main, exit, server, waiter, sent, raised, timers>>

\* HealthService::Check(): it always serves.
CallEnds(c) ==
  /\ Runs /\ call[c] = "running"
  /\ call' = [call EXCEPT ![c] = "serving"]
  /\ UNCHANGED <<grpcEnabled, main, exit, server, waiter, sent, raised, timers>>

Next ==
  \/ Main \/ Waiter
  \/ \E s \in Signals : SignalComes(s)
  \/ \E c \in Calls : CallBegins(c) \/ CallEnds(c)

\* The threads of the process run, and so do those of the gRPC library.
Fairness ==
  /\ WF_vars(Main) /\ WF_vars(Waiter)
  /\ \A c \in Calls : WF_vars(CallEnds(c))

Spec == Init /\ [][Next]_vars

FairSpec == Spec /\ Fairness

-----------------------------------------------------------------------------
InStop == {"stop_shut_down", "stop_wait", "stop_join", "stop_reset"}

InDestroy == {"destroy_shut_down", "destroy_wait", "destroy_join", "destroy_reset"}

TypeOK ==
  /\ grpcEnabled \in BOOLEAN
  /\ main \in {"settings", "arguments", "start", "register", "loop", "flush", "return", "gone"}
              \cup InStop \cup InDestroy
  /\ exit \in {"no", "0", "0_tables", "1", "abort", "killed"}
  /\ server \in {"none", "up", "shut"}
  /\ waiter \in {"none", "started", "waiting", "ended"}
  /\ call \in [Calls -> {"none", "running", "serving"}]
  /\ sent \in 0..MaxSignals
  /\ raised \subseteq Signals
  /\ timers \in 0..MaxSignals

\* The waiting thread uses server_ without a lock, also when a handler comes
\* before its first instruction: it never finds the pointer reset (GrpcServer.cc:37).
WaiterHasItsServer ==
  Runs /\ waiter \in {"started", "waiting"} => server # "none"

\* An orderly end leaves no call unanswered, and nothing takes calls from the
\* flush on, whatever signals come and however they overlap (GrpcServer.cc:41).
NoCallIsCut ==
  exit = "0" \/ main \in {"flush", "return"} \/ timers > 0 =>
    server = "none" /\ CallsEnded

\* Once a handler has been called the process ends, with the gRPC server up or
\* not, and however often the signal is repeated (main.cc:294-309).
SignalEndsProcess ==
  \A s \in Signals : s \in raised ~> ~Runs
=============================================================================
