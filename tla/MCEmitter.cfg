SPECIFICATION FairSpec
CONSTANTS
  g1 = g1
  g2 = g2
  g3 = g3
  read_bytes = read_bytes
  write_bytes = write_bytes
  NoOne = NoOne
  Goroutines <- MCGoroutines
  Keys <- MCKeys
  Mappings <- MCMappings
PROPERTY
  EveryEmitReturns
INVARIANTS
  TypeOK
  NoConcurrentMapAccess
  OneDescPerKey
  AllOrNothing
