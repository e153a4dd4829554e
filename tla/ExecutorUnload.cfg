SPECIFICATION Spec
CONSTANTS
  p1 = p1
  p2 = p2
  SegSize = 1
  MaxSegs = 2
  GenMod = 3
  Plugins = {p1, p2}
  Client = {"await", "abort", "unload", "sleep"}
  MaxSpawns = 2
  MaxRemote = 0
  MaxDepth = 3
  MaxTime = 1
  MaxTimers = 2
SYMMETRY PluginSymmetry
INVARIANTS
  FreeListExact
  GlueFindsItsData
  NoLostWake
  TimersOwned
PROPERTIES
  UnloadLeavesNothing
