SPECIFICATION FairSpec
CONSTANTS
  p1 = p1
  p2 = p2
  SegSize = 1
  MaxSegs = 3
  GenMod = 4
  Plugins = {p1}
  Client = {}
  MaxSpawns = 3
  MaxRemote = 2
  MaxDepth = 3
  MaxTime = 0
  MaxTimers = 0
PROPERTIES
  ReadyQueueServes
