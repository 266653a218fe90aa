SPECIFICATION BufSpec
CONSTANTS
  Byte = {0, 1}
  MaxSize = 6
  MaxChunk = 3
INVARIANTS Picture
PROPERTIES IsMessage
