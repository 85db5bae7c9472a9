SPECIFICATION Spec
CONSTANTS
  Modes <- MCModes
  LNetParamNames <- MCParamNames
  NetShows <- MCNetShows
  InvalidNIDs = {"garbled"}
INVARIANT
  HungFileLeavesFallback
