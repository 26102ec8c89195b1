CONSTANTS
  Conversations <- Pairs
  Inputs <- Streams
  MaxBuffer = 20
  MaxFirstWord = 8
  MaxRequestLine = 12
  MaxTotalHeaders = 24
  MaxBodyMemoryBuffer = 5
  MaxBodySize = 5
  MaxConnections = 1
SPECIFICATION FairSpec
CHECK_DEADLOCK FALSE
PROPERTY IsAMessageStream
