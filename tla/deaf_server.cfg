CONSTANTS
  SizeRange = 65536
  Files = {}
  NoFile = NoFile
  Commands = {"connections"}
  NoCommand = NoCommand
  NumAssemblers = 1
  NumApps = 1
  MaxConnections = 1
  MaxRequests = 1
SPECIFICATION FairSpec
CHECK_DEADLOCK FALSE
PROPERTY ListeningMeansAccepting
