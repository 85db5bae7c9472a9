SPECIFICATION FairSpec
CONSTANTS
  s1 = s1
  s2 = s2
  health = health
  lnet = lnet
  ScrapeSource <- MCScrapeSource
  Recordable <- MCRecordable
  Scrapes <- MCScrapes
  Collectors <- MCCollectors
  Sources <- MCOneSource
  Strict = TRUE
  Responsive <- MCOneResponsive
PROPERTY
  ImplementsScrapeTotals
  AnsweredDespiteHang
INVARIANT
  AnswerComplete
