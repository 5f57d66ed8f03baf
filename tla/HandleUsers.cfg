SPECIFICATION Spec
CONSTANTS
    Process = {p1, p2}
    First = p1
    User = {u1, u2, u3}
    MaxHandles = 2
SYMMETRY Symmetry
INVARIANTS
      OpenHandleIsServed
PROPERTIES
    LeavingSparesOthers
    LastExitCloses
    OthersKeepTheirServer
CHECK_DEADLOCK FALSE
