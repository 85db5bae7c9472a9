SPECIFICATION Spec
CONSTANTS
  NoPath = ""
  Names <- MCNames
  Configs <- MCConfigs
  Healthy <- MCHealthy
  Contents <- MCContents
  Invalid <- MCInvalid
  MaxEdits = 2
INVARIANTS
  TypeOK
  LabelsAreExact
  ContractKept
  SeriesAreDistinct
  StatsFilesAreWhole
  JoinsMatch
  StateIsCurrent
PROPERTY
  OnlyItsOwnSeriesAreLost
