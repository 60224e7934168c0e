CONSTANTS
  x = x
  y = y
  Bytes <- MCBytes
  Size = 4
  FifoSize = 3
  MaxLen = 3
SPECIFICATION LiveSpec
INVARIANTS
  TypeOK
  Awake
  WaitIsServed
PROPERTIES
  LineIsFifo
  BaudWhenDrained
  KeepsSending
  SendReturns
