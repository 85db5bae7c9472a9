SPECIFICATION Spec
CONSTANTS
  s1 = s1
  s2 = s2
  health = health
  lnet = lnet
  ScrapeSource <- MCScrapeSource
  Recordable <- MCRecordable
  Scrapes <- MCScrapes
  Collectors <- MCCollectors
  Sources <- MCSources
  Strict = FALSE
  Responsive <- MCScrapes
SYMMETRY MCSymmetry
INVARIANTS
  TypeOK
  DurationsComplete
  TotalsExact
  SummariesNeverGoBack
  NoSendAfterReturn
  AnswerComplete
