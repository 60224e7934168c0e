SPECIFICATION FairSpec
CONSTANTS
  MaxGen = 2
  MaxLen = 2
  MaxBox = 2
  MaxMtu = 0
  Configs <- AllServices
  Refusals = FALSE
  Timeouts = FALSE
  ZeroMac = FALSE
INVARIANTS DiscoveryGoesOn
PROPERTIES WritesOwnHandle WriteCompletes
CHECK_DEADLOCK FALSE
