SPECIFICATION Spec
CONSTANTS
  p1 = p1
  p2 = p2
  Process = {p1, p2}
  NoProcess = NoProcess
  Modes = {"stop"}
  InitialDirs = {"ready"}
  Libs = {}
  Loadable = {}
  Faults = {"exec"}
SYMMETRY Symmetry
PROPERTIES
  SharedServerStaysUp
