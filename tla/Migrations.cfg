\* Three hosts run the scripts of releases with up to three files.
CONSTANTS
  Runners = {h1, h2, h3}
  Files = 3
  MaxRuns = 3
  NoRunner = NoRunner
SPECIFICATION FairSpec
INVARIANTS
  RecordedIffApplied
  MigratedWhenDone
PROPERTIES
  ImplementsSchema
  RunsEnd
CHECK_DEADLOCK FALSE
