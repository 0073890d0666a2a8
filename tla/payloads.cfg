SPECIFICATION Spec
CONSTANTS
  Modulus64 = 16
  Modulus32 = 8
  Modulus8 = 4
  Limit = 3
  HeaderSize = 2
  ClientTexts <- Texts
  BusEvents <- Events
  Replies <- Answers
INVARIANTS TypeOK MessageEchoed DeviceKept ObjectsPassThrough TextInsideData NothingStale
