SPECIFICATION FairSpec
CONSTANTS
  Procs = {p1, p2}
  Ifaces = {i0, m1, m2}
  ModuleIfaces = {m1, m2}
  InitiallyUp = {}
  Unknown = Unknown
  None = None
INVARIANTS TtyRestored  
PROPERTIES CleanupEnds
CHECK_DEADLOCK FALSE
