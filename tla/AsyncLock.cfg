SPECIFICATION Spec
CONSTANTS
  t1 = t1
  t2 = t2
  t3 = t3
  Tasks <- ThreeTasks
  WriteLocked = 4
  Use <- AllButMutex
  MaxWaiters = 3
SYMMETRY TaskSymmetry
INVARIANTS
  TypeOK
  WordCountsGuards
  NobodyForgotten
PROPERTIES
  ImplementsSharedLock
