\* Liveness, and what late answers do to the breaker, with a queue that fills
\* up; no symmetry, which is unsound for temporal properties.
CONSTANTS
  Workers = {w1, w2}
  Loop = loop
  MaxEvents = 3
  BatchSize = 2
  MaxQueueSize = 2
  MaxAttempts = 2
  FailureThreshold = 2
  BuildThrows = FALSE
SPECIFICATION FairSpec
INVARIANT
  ProbeFlagOwned
PROPERTIES
  ImplementsEventExport
  QueueDrains
  BatchesSettle
  CircuitRecovers
CHECK_DEADLOCK FALSE
