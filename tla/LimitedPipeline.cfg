\* Three requests of any kind, one with a header of its own; any of them may be
\* late for the limiter's mutex, so that the deque's newer stamp is in front of
\* the older one.
CONSTANTS
  Threads = {r1, r2, r3}
  Own = {r1}
  Key = {k1}
  Limit = 2
  Window = 2
  MaxDelay = 1
  MaxTime = 3
SPECIFICATION ServerSpec
SYMMETRY Symmetry
INVARIANTS
  WindowBound
  ScrapesAgree
  AdmittedAreTraced
PROPERTY
  RefusalJustified
CHECK_DEADLOCK FALSE
