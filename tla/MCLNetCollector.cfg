SPECIFICATION Spec
CONSTANTS
  Modes <- MCModes
  LNetParamNames <- MCParamNames
  NetShows <- MCNetShows
  InvalidNIDs = {"garbled"}
INVARIANTS
  TypeOK
  CountedOnce
  CountsByNIDWithLNetCtl
  LabelNamesSource
  VerdictIsPrimary
  OnlyTheModesSources
