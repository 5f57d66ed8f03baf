SPECIFICATION FairSpec
CONSTANTS
  p1 = p1
  p2 = p2
  Process = {p1, p2}
  NoProcess = NoProcess
  Modes = {"stop"}
  InitialDirs = {"absent"}
  Libs = {}
  Loadable = {}
  Faults = {"crash", "slow", "exec", "death"}
PROPERTIES
  LastCloseStopsServer
  AttemptFinishes
  CleanupFinishes
CHECK_DEADLOCK FALSE
