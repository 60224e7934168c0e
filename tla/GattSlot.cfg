SPECIFICATION Spec
CONSTANTS
  MaxGen = 2
  MaxLen = 2
  MaxBox = 2
  MaxMtu = 1
  Configs <- FixedServices
  Refusals = TRUE
  Timeouts = TRUE
  ZeroMac = FALSE
INVARIANTS TypeOK WriteEventMatches WriteHasRest BusyHasAnswer HandlesFresh ReadyMeansEnabled
PROPERTIES WritesOwnHandle WriteRefines
CHECK_DEADLOCK FALSE
