SPECIFICATION ClientLiveSpec
CONSTANTS
  NBots = 2
  TamperClients = {9}
  BatchSize = 1
  Cycles = 2
  MaxEvents = 2
  Chats = 1
  Sids <- MCSids
  MAX_ROOM_COUNT = 1
  MAX_LIMIT_PERSON = 1
  MaxPackets = 12
  MaxQueue = 1
CHECK_DEADLOCK FALSE
INVARIANTS
  OnlyEarlyStray
  FinalBalanced
PROPERTIES
  ServerEmpties
  RequestsAnswered
