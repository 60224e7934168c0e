SPECIFICATION FairSpec
CONSTANTS
  MaxGen = 1
  MaxLen = 1
  MaxBox = 2
  MaxMtu = 1
  Configs <- NordicOnly
  Refusals = FALSE
  Timeouts = FALSE
  ZeroMac = FALSE
PROPERTIES WriteCompletes
CHECK_DEADLOCK FALSE
