SPECIFICATION Spec
CONSTANTS
  fs = fs
  ost = ost
  mdt = mdt
  NoPath = NoPath
  Names <- MCNames
  Layout <- MCLayout
  ParamFiles <- MCParamFiles
  MaxChanges = 1
INVARIANTS
  TypeOK
  DiscoveryFindsFirst
  VerdictFollowsTable
  OneFailureCostsOneSource
