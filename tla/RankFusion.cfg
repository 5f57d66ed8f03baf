SPECIFICATION Spec
CONSTANTS
  Doc = {1, 2, 3}
  MaxScore = 2
  Far = 3
  Largest = 5
  Headroom = 1
  MinPool = 1
  None = None
  Option <- MCOption
  Share <- MCShare
INVARIANTS
  FusionIsMonotone
  EnoughHits
  SilentArmDisplacesNobody
CHECK_DEADLOCK FALSE
