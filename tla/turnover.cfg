CONSTANTS
  c1 = c1
  c2 = c2
  a1 = a1
  a2 = a2
  Clients = {c1, c2}
  NoClient = NoClient
  Listener = Listener
  NumWorkers = 2
  Apps = {a1, a2}
  NoThread = NoThread
  MaxSegments <- TwoAndNone
  MaxMessages = 1
  MaxChunks = 1
SYMMETRY AppsAlike
SPECIFICATION Spec
CHECK_DEADLOCK FALSE
INVARIANTS
  TypeOK
  RefAccounting
  FreeListExact
  OneCustodian
  NoDeafClient
  SendPipeline
  NoStrandedOutput
