CONSTANTS
  SizeRange = 65536
  Files <- SmallFiles
  NoFile = NoFile
  Commands = {"connections", "quit"}
  NoCommand = NoCommand
  NumAssemblers = 2
  NumApps = 2
  MaxConnections = 2
  MaxRequests = 3
SPECIFICATION FairSpec
CHECK_DEADLOCK FALSE
INVARIANTS
  TypeOK
  ParametersKept
  
  KeepsAccepting
  ServerOutlivesPool
  OneMoreEach
PROPERTY RequestsTaken
