SPECIFICATION FairSpec
CONSTANTS
  f1 = f1
  f2 = f2
  None = None
  Frames <- MCOneFrame
  Size <- MCOneSize
  MaxFrame = 1
  MaxWindow = 4
  Window = 3
  ShmSize = 4
  Speeds = {115200, 4000000}
  SirMax = 115200
  BogusMax = 1
  QuietSpeedChange = TRUE
PROPERTIES FifoFairSpec DeviceQueueDrains
