SPECIFICATION Spec
CONSTANTS
  A = A
  B = B
  pg = pg
  vec = vec
  cron = cron
  Postgres = pg
  Ext = {vec, cron}
  Archived = {vec}
  Configs = {A, B}
  Selects <- MCSelects
  Dir <- MCDir
  Pin <- MCPin
  Goals = {"all", vec}
  Nothing = Nothing
  Broken = Broken
  Careless = FALSE
  ToolsFail = TRUE
INVARIANTS
  MarkedIsReleased
  PrefixMatchesStamp
  VerifiedSourcesOnly
PROPERTIES
  PublishedIsComplete
