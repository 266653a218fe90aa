SPECIFICATION KbdFairSpec
CONSTANT MaxPending = 3
CHECK_DEADLOCK FALSE
INVARIANTS KeepsPolling
PROPERTIES GetsToPolling Reconnects
