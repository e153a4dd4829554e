SPECIFICATION Spec
CONSTANTS
  Chosen = {"notify"}
  Modes = {"line"}
  Senders = {s1, s2}
  Receivers = {r1, r2}
  Waiters = {w1, w2, w3}
  Users = {u1, u2, u3}
  Members = {m1, m2, m3}
  Blocking = {m3}
  Permits = 2
  Items = 3
  Liked = {1, 3}
  Period = 2
  Delimiters = {2, 4}
  PipeSize = 2
  BufferSize = 3
  ReadSize = 2
  Capacity = 4
  MaxSends = 3
  MaxVersion = 4
  MaxNotifications = 3
  MaxAdded = 1
  MaxClock = 5
  MaxEntries = 2
  MaxOps = 4
  Bytes = 5
  s1 = s1
  s2 = s2
  r1 = r1
  r2 = r2
  w1 = w1
  w2 = w2
  w3 = w3
  u1 = u1
  u2 = u2
  u3 = u3
  m1 = m1
  m2 = m2
  m3 = m3
INVARIANTS
  NotifyReachesAll
CHECK_DEADLOCK FALSE
