SPECIFICATION FairSpec
CONSTANTS
  Version = {1, 2, 3, 4, 5}
  Default = 3
  Scripts <- MCScripts
  None = None
  NotFound = NotFound
INVARIANTS
  AnswerInstalls
  AnswerIsBest
PROPERTIES
  SearchEnds
CHECK_DEADLOCK FALSE
