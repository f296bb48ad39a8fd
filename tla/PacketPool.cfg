SPECIFICATION LiveSpec
CONSTANTS
  Packets = {p1, p2}
  p1 = p1
  p2 = p2
  Sessions = {s1, s2}
  s1 = s1
  s2 = s2
  Workers = {w1}
  w1 = w1
  Updater = updater
  NoPacket = noPacket
  Qsize = 1
  MaxWrites = 3
  AsyncMayFail = TRUE
INVARIANTS
  RefCountExact
  PoolExact
  QueuedIntact
CHECK_DEADLOCK FALSE
PROPERTY PacketsReturn
