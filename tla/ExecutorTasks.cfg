SPECIFICATION Spec
CONSTANTS
  p1 = p1
  p2 = p2
  SegSize = 1
  MaxSegs = 2
  GenMod = 4
  Plugins = {p1}
  Client = {"await", "abort", "hostWait"}
  MaxSpawns = 3
  MaxRemote = 1
  MaxDepth = 4
  MaxTime = 0
  MaxTimers = 0
INVARIANTS
  TypeOK
  FreeListExact
  ReleasedOnce
  GlueFindsItsData
  StorageMatchesState
  NoLostWake
  ResultHasOwner
  AwaiterNotForgotten
PROPERTIES
  JoinNoneMeansKilled
  ImplementsLifecycle
