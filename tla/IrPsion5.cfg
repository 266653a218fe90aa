SPECIFICATION FairSpec
CONSTANTS
  Client = {a, b}
  BufLen = 2
  MaxLen = 3
  Room = 2
  NoClient = none
CHECK_DEADLOCK FALSE
INVARIANTS ReceivedIsWhole SentIsReceived
PROPERTIES SenderEnds
