SPECIFICATION ClientSpec
CONSTANTS
  NBots = 1
  TamperClients = {9}
  BatchSize = 1
  Cycles = 1
  MaxEvents = 3
  Chats = 1
  Sids <- MCSids
  MAX_ROOM_COUNT = 1
  MAX_LIMIT_PERSON = 2
  MaxPackets = 12
  MaxQueue = 2
CHECK_DEADLOCK FALSE
INVARIANTS
  VerdictRight
