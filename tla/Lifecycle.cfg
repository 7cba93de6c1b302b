SPECIFICATION FairSpec
CONSTANTS
  Calls = {c1, c2}
  MaxSignals = 3
INVARIANTS
  WaiterHasItsServer
  NoCallIsCut
PROPERTY
  SignalEndsProcess
CHECK_DEADLOCK FALSE
