---------------------------- MODULE CircuitState ----------------------------
(***************************************************************************)
(* The circuit breaker that the deliveries of one HttpErrorReporter share  *)
(* (struct CircuitState of observability/ErrorReporter.cc).  Each member   *)
(* function runs under the breaker's own mutex, so it is one atomic        *)
(* operator from circuit to circuit here; ErrorReporter.tla calls them.    *)
(*                                                                         *)
(* The deadline openUntil is kept as what allow() can tell about it: the   *)
(* default time point ("unset"), later than now ("future"), or reached     *)
(* ("past").  Time passing is the operator AfterCooldown.                  *)
(***************************************************************************)
EXTENDS Naturals

CONSTANT FailureThreshold  \* OBSERVABILITY_CIRCUIT_FAILURE_THRESHOLD

\* The constructor of HttpErrorReporter rejects a threshold of zero.
ASSUME ThresholdAssumption == FailureThreshold \in Nat \ {0}

Circuit == [ failures      : Nat,
             openUntil     : {"unset", "future", "past"},
             probeInFlight : BOOLEAN ]

ClosedCircuit ==
  [failures |-> 0, openUntil |-> "unset", probeInFlight |-> FALSE]

\* Mutant: the half-open circuit does not look at probeInFlight.
AllowIgnoringProbe(c) == c.openUntil # "future"

\* The value allow() returns.
Allow(c) ==
  /\ c.openUntil # "future"
  /\ c.openUntil = "past" => ~ c.probeInFlight

\* What an allow() that returned true leaves behind.
AfterAllow(c) == [c EXCEPT !.probeInFlight = @ \/ c.openUntil = "past"]

AfterSuccess(c) == ClosedCircuit

\* Mutant: a failed probe reopens the circuit but is still in flight.
FailureKeepingProbe(c) ==
  [ c EXCEPT !.failures = @ + 1,
             !.openUntil = IF c.failures + 1 >= FailureThreshold
                             THEN "future" ELSE @ ]

AfterFailure(c) ==
  LET n == c.failures + 1
  IN  IF n >= FailureThreshold
        THEN [failures |-> n, openUntil |-> "future", probeInFlight |-> FALSE]
        ELSE [c EXCEPT !.failures = n]

\* The steady clock reaches openUntil.
AfterCooldown(c) == [c EXCEPT !.openUntil = "past"]
=============================================================================
