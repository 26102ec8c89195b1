CONSTANTS
  Conversations <- Alone
  Inputs <- FaultyStreams
  MaxBuffer = 16
  MaxFirstWord = 8
  MaxRequestLine = 12
  MaxTotalHeaders = 24
  MaxBodyMemoryBuffer = 3
  MaxBodySize = 5
  MaxConnections = 2
SPECIFICATION Spec
CHECK_DEADLOCK FALSE
INVARIANTS
  TypeOK
  OffsetsInOrder
  RoomLeft
  StartsFresh
  LimitsKept
