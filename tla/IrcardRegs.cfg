SPECIFICATION Spec
CONSTANTS
  Speeds = {9600, 115200, 576000, 1152000, 4000000}
  MaxEvents = 12
INVARIANTS AccessInBank  InterruptsSurvive TransceiverFollowsSpeed
