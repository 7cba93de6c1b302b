CONSTANTS
  Files <- MCFiles
  Environments <- MCEnvironments
  Absent = Absent
  Empty = Empty
  Bad = Bad
  NaN = NaN
  SentryUrl = SentryUrl
  Missing = Missing
  NoConfig = NoConfig
  KeyA = KeyA
  KeyB = KeyB
  Url = Url
  MaxNumber = 15
  MaxSeconds = 6
  Resolution = 3
  MaxOverlays = 2
SPECIFICATION ConfigSpec
INVARIANTS
  ReporterRunsAsConfigured
CHECK_DEADLOCK FALSE
