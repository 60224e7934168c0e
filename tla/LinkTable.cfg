SPECIFICATION Spec
CONSTANTS
  p1 = p1
  p2 = p2
  p3 = p3
  NoPeer = NoPeer
  Peers <- TwoPeers
  MaxConn = 2
  MaxRes = 1
  MaxQueue = 3
  MaxDrops = 1
  Unlists = TRUE
  StayOn <- One
  EndsAll = TRUE
INVARIANTS TypeOK TableMatchesLinks EntriesDistinct EntryForLink ScanAlive
CHECK_DEADLOCK FALSE
