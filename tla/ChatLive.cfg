SPECIFICATION LiveSpec
CONSTANTS
  Sids = {sid1, sid2}
  sid1 = sid1
  sid2 = sid2
  MAX_ROOM_COUNT = 1
  MAX_LIMIT_PERSON = 1
  MaxPackets = 2
  MaxQueue = 2
INVARIANT TypeOK
PROPERTIES
  RequestsAnswered
  StopCompletes
CHECK_DEADLOCK FALSE
