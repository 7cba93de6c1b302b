\* A walk over four rows, two of them of one time, created and deleted before and during it, from any
\* page of an int of four bits.
CONSTANTS
  Row = {1, 2, 3, 4}
  Created <- Times
  FirstPage = {1, 2, 3, 4, 5, 6, 7}
  MaxPageSize = 3
  MaxInt = 7
SPECIFICATION WalkSpec
INVARIANTS
  QuietWalkIsExact
  SkipsNeedWrites
  RepeatsNeedEarlyRows
CHECK_DEADLOCK FALSE
