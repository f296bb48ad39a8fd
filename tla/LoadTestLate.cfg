SPECIFICATION ClientSpec
CONSTANTS
  NBots = 2
  TamperClients = {}
  BatchSize = 2
  Cycles = 1
  MaxEvents = 3
  Chats = 1
  Sids <- MCSids
  MAX_ROOM_COUNT = 1
  MAX_LIMIT_PERSON = 2
  MaxPackets = 12
  MaxQueue = 2
CHECK_DEADLOCK FALSE
INVARIANTS
  ClientTypeOK
  OnlyEarlyStray
  FinalBalanced
