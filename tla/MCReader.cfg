SPECIFICATION FairSpec
CONSTANTS
  lnet = lnet
  client = client
  Callers <- MCCallers
  ScrapeTimeout = 3
  SourceTimeout = 2
  WaitDelay = 1
  MaxCalls = 3
  MaxTime = 5
INVARIANTS
  TypeOK
  AtMostOneWorker
  AbandonedOnlyAtDeadline
  ReturnsInTime
PROPERTIES
  EveryRunReturns
  WorkersExit
