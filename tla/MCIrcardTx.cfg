SPECIFICATION Spec
CONSTANTS
  f1 = f1
  f2 = f2
  None = None
  Frames <- MCFrames
  Size <- MCSize
  MaxFrame = 2
  MaxWindow = 3
  Window = 2
  ShmSize = 6
  Speeds = {115200, 4000000}
  SirMax = 115200
  BogusMax = 0
  QuietSpeedChange = TRUE
INVARIANTS  NoStuckFrame HalfDuplex ListensWhenQuiet InterruptsOn
PROPERTIES FifoSpec
