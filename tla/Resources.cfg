SPECIFICATION Spec
CONSTANTS
  Threads = {t1, t2}
  Ids = {i1}
INVARIANTS WritersComeFirst
PROPERTIES ImplementsRest Answered
CHECK_DEADLOCK FALSE
