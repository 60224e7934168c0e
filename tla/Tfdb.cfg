CONSTANTS
  a = a
  b = b
  Values <- MCValues
  None = None
  Stray = Stray
  N = 3
  MaxRetry = 8
SPECIFICATION LiveSpec
INVARIANTS
  TypeOK
  CacheCoherent
  NeverOverwrites
PROPERTIES
  RegisterRefined
  LostOnlyWhenFull
  SetIsBounded
  SetEnds
