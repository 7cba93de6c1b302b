\* The queue, the batches, the counters and the breaker, with payloads that may
\* fail to build.
CONSTANTS
  Workers = {w1, w2}
  Loop = loop
  MaxEvents = 4
  BatchSize = 2
  MaxQueueSize = 4
  MaxAttempts = 2
  FailureThreshold = 1
  BuildThrows = TRUE
SPECIFICATION Spec
SYMMETRY Symmetry
INVARIANTS
  NoStrandedEvents
  BatchesBounded
  OneProbeUnlessOvertaken
  ShutdownFlush
  MetricsBalance
CHECK_DEADLOCK FALSE
