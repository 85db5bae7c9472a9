SPECIFICATION Spec
CONSTANTS
  NoPath = ""
  Names <- MCNames
  Configs <- MCConfigs
  Healthy <- MCHealthy
  Contents <- MCContents
  Invalid <- MCInvalid
  MaxEdits = 1
INVARIANT
  DuplicatesAreRefused
