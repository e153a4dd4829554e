SPECIFICATION Spec
CONSTANTS
  Chosen = {"plugins", "guards", "resources", "storage", "reactor", "child", "compiler", "wrap", "ansi"}
  AwaitBoxed = FALSE
  Sockets = {"tcp", "half", "unix", "udp", "pipe", "connect", "listener", "fd"}
  Libs = {l1, l2}
  Loaded = {l1}
  Names = {n1, n2}
  Types = {"t", "u"}
  Plugins = {p1, p2}
  Guarded = {v1, v2}
  Threads = {t1, t2}
  Tasks = {reader, writer, other}
  MaxLoads = 3
  MaxClones = 2
  MaxPuts = 3
  Sources = {"lib.rs", "mod.rs"}
  Envs = {"e", "f"}
  PipeSize = 2
  MaxOutput = 3
  MaxClock = 3
  MaxVersion = 2
  l1 = l1
  l2 = l2
  n1 = n1
  n2 = n2
  p1 = p1
  p2 = p2
  v1 = v1
  v2 = v2
  t1 = t1
  t2 = t2
  reader = reader
  writer = writer
  other = other
  NONE = NONE
INVARIANTS
  TypeOK
  NothingElseDangles
  ValuesEndOnce
  WaitersAreRegistered
  OutputIsComplete
  LoadedIsFresh
  TextIsFaithful
CHECK_DEADLOCK FALSE
