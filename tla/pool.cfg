CONSTANTS
  m_workers = 3
  MaxRuns = 2
SPECIFICATION FairSpec
CHECK_DEADLOCK FALSE
INVARIANTS
  TypeOK
  OneThreadPerId
  StopWaitsForAll
PROPERTY StopReturns
