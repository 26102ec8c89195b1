CONSTANTS
  c1 = c1
  c2 = c2
  a1 = a1
  a2 = a2
  Clients = {c1}
  NoClient = NoClient
  Listener = Listener
  NumWorkers = 1
  Apps = {a1}
  NoThread = NoThread
  MaxSegments <- TwoSegments
  MaxMessages = 1
  MaxChunks = 2
SPECIFICATION FairSpec
CHECK_DEADLOCK FALSE
PROPERTIES
  OutputInOrder
  ConnectionsReclaimed
  OutputDrains
  ThreadsReturn
