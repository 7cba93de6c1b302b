SPECIFICATION RecordsSpec
CONSTANTS
  Clients = {"p1", "p2"}
  Uuid = {"u1", "u2"}
  Long = {"long"}
  Local <- Summer
  Mktime <- Standard
  Session <- Summer
  FromSession <- Real
  Midnights <- MidnightAtOne
  Classes <- MCClasses
  Values <- MCValues
  Calls <- MCCalls
INVARIANTS ValidatedNeverThrows JsonRoundTrips
PROPERTIES UpdatesAsAsked RefusalsExplained InsertsAreAnswered
CHECK_DEADLOCK FALSE
