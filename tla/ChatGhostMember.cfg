SPECIFICATION Spec
CONSTANTS
  Sids = {sid1, sid2}
  sid1 = sid1
  sid2 = sid2
  MAX_ROOM_COUNT = 2
  MAX_LIMIT_PERSON = 2
  MaxPackets = 2
  MaxQueue = 2
SYMMETRY Symmetry
INVARIANT NoGhostMembers
CHECK_DEADLOCK FALSE
