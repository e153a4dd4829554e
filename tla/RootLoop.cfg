SPECIFICATION FairSpec
CONSTANTS
  NONE = NONE
  Jobs = {j1, j2}
  Sleepers = {s1}
  Delays = {4}
  Milli = 2
  MaxWait = 2
  MaxBusy = 1
INVARIANTS
  TypeOK
  WakesAreSeenInTime
  NothingIsSleptOver
PROPERTIES
  RootGetsThere
