CONSTANTS
  Frames <- MCFrames
  CmdMax = 2
  DataMax = 4
  RxMax = 4
  Timeout = 2
  MaxGap = 1
SPECIFICATION LiveSpec
INVARIANTS
  TypeOK
  CommandAnswered
PROPERTIES
  FrameGetsAnswer
