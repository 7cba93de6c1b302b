\* Two create-tables and a migration at once; connections fail.
SPECIFICATION Spec
CONSTANTS
  Creators = {c1, c2}
  Migrator = m
  MaxRuns = 4
  MayFail = TRUE
INVARIANTS
  RecordedIsComplete
  CreateTablesCompletes
CHECK_DEADLOCK FALSE
