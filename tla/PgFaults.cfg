SPECIFICATION Spec
CONSTANTS
  p1 = p1
  p2 = p2
  Process = {p1, p2}
  NoProcess = NoProcess
  Modes = {"none", "stop", "delete"}
  InitialDirs = {"absent", "empty", "foreign", "ready"}
  Libs = {}
  Loadable = {}
  Faults = {"crash", "interrupt", "slow", "exec", "death", "stop", "rm"}
SYMMETRY Symmetry
INVARIANTS
  LastHandleAlone
  RegisteredIsListed
PROPERTIES
  DataRemovedOnlyByLastDelete
  ImplementsSharedCluster
CHECK_DEADLOCK FALSE
