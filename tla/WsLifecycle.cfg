SPECIFICATION RunningSpec
CONSTANTS
  c1 = c1
  c2 = c2
  Conns = {c1, c2}
  Heartbeat = Heartbeat
  Cleanup = Cleanup
  NoConn = NoConn
  Slow = {c1}
  Fragile = {c1}
  MaxMissed = 2
INVARIANTS
  TypeOK
  TrackedIffOpen
  ReturnedUntracked
PROPERTIES
  GoneForgotten
  FrozenForgotten
CHECK_DEADLOCK FALSE
