SPECIFICATION LiveSpec
CONSTANTS
  maxSize = 6
  Byte <- MCByte
  NoByte = NoByte
  PKT_HEADER_SIZE = 2
  PACKET_BUFFER_SIZE = 6
  MaxLen = 5
  MaxPackets = 3
  MaxSessions = 2
INVARIANTS
  RingIsStream
  ClosedForCause
PROPERTIES
  AllDelivered
  DeliversStream
CHECK_DEADLOCK FALSE
