CONSTANTS
  c1 = c1
  c2 = c2
  a1 = a1
  a2 = a2
  Clients = {c1, c2}
  NoClient = NoClient
  Listener = Listener
  NumWorkers = 1
  Apps = {a1}
  NoThread = NoThread
  MaxSegments <- OneSegment
  MaxMessages = 1
  MaxChunks = 1
SYMMETRY Symmetry
SPECIFICATION Spec
CHECK_DEADLOCK FALSE
INVARIANT ResponsesReachRequester
