SPECIFICATION FairSpec
CONSTANTS
  p1 = p1
  p2 = p2
  p3 = p3
  NoPeer = NoPeer
  Peers <- TwoPeers
  MaxConn = 2
  MaxRes = 2
  MaxQueue = 2
  MaxDrops = 2
  Unlists = FALSE
  StayOn <- None
  EndsAll = FALSE
INVARIANTS TerminatedFindsEntry
PROPERTIES WantedConnects
CHECK_DEADLOCK FALSE
