CONSTANTS
  Conversations <- ChunkedOnes
  Inputs <- Streams
  MaxBuffer = 32
  MaxFirstWord = 8
  MaxRequestLine = 12
  MaxTotalHeaders = 24
  MaxBodyMemoryBuffer = 5
  MaxBodySize = 5
  MaxConnections = 1
SPECIFICATION Spec
CHECK_DEADLOCK FALSE
INVARIANT OneAnswerPerRequest
