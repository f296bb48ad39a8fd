SPECIFICATION Spec
CONSTANTS
  Sids = {sid1, sid2}
  sid1 = sid1
  sid2 = sid2
  MAX_ROOM_COUNT = 2
  MAX_LIMIT_PERSON = 2
  MaxPackets = 3
  MaxQueue = 2
SYMMETRY Symmetry
INVARIANTS
  InRoomIsMember
  PlayerMapExact
  AnswersMatchRequests
  SendsOnlyToHeard
  StopLosesNoJob
CHECK_DEADLOCK FALSE
