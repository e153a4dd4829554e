SPECIFICATION FairSpec
CONSTANTS
  p1 = p1
  p2 = p2
  SegSize = 1
  MaxSegs = 2
  GenMod = 3
  Plugins = {p1}
  Client = {"await", "sleep"}
  MaxSpawns = 2
  MaxRemote = 0
  MaxDepth = 3
  MaxTime = 2
  MaxTimers = 2
INVARIANTS
  SleepCovered
PROPERTIES
  SleepersWake
