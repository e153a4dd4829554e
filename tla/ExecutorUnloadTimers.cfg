SPECIFICATION Spec
CONSTANTS
  p1 = p1
  p2 = p2
  SegSize = 1
  MaxSegs = 2
  GenMod = 4
  Plugins = {p1, p2}
  Client = {"await", "sleep", "unload"}
  MaxSpawns = 2
  MaxRemote = 0
  MaxDepth = 4
  MaxTime = 1
  MaxTimers = 2
INVARIANTS
  SleepCovered
