SPECIFICATION FairSpec
CONSTANTS
  A = A
  B = B
  pg = pg
  vec = vec
  cron = cron
  Postgres = pg
  Ext = {vec}
  Archived = {vec}
  Configs = {A, B}
  Selects <- MCSelects
  Dir <- MCDir
  Pin <- MCPin
  Goals = {"all", vec}
  Nothing = Nothing
  Broken = Broken
  Careless = FALSE
  ToolsFail = TRUE
INVARIANTS
  RunCanProceed
PROPERTIES
  ReleaseCompletes
  ImplementsRelease
