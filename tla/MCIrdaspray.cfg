SPECIFICATION Spec
CONSTANTS
  Devices = {d1, d2}
  Servers = {d1}
  Options <- MCOptions
  frame_size = 2
  Buffers = 1
INVARIANTS FramesConserved  NoCircularWait
PROPERTIES WorkLessens TransferEnds
