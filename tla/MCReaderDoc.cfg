SPECIFICATION Spec
CONSTANTS
  lnet = lnet
  client = client
  Callers <- MCOneCaller
  ScrapeTimeout = 3
  SourceTimeout = 2
  WaitDelay = 1
  MaxCalls = 2
  MaxTime = 6
INVARIANT
  SourceTimeoutIsUpperBound
