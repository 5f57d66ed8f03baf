SPECIFICATION Spec
CONSTANTS
  p1 = p1
  p2 = p2
  Process = {p1, p2}
  NoProcess = NoProcess
  Modes = {"stop", "delete"}
  InitialDirs = {"absent"}
  Libs = {"good", "bad"}
  Loadable = {"good"}
  Faults = {"exec", "death"}
SYMMETRY Symmetry
INVARIANTS
  ServedIsComplete
  ClassificationHolds
  RequestedLibrariesPersist
  NoOrphanServer
