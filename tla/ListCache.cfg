\* A list and two writes of two pages; then Redis or a replica fails at will.
CONSTANTS
  Readers = {r1}
  Writers = {w1, w2}
  Page = {p1, p2}
  Id = {i1}
  TTL = 2
  MaxDelay = 1
  MaxWrites = 2
SPECIFICATION FairSpec
INVARIANTS
  StalenessBounded
  StaleOnlyByRace
PROPERTY
  EventuallyFresh
CHECK_DEADLOCK FALSE
