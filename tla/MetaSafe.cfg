SPECIFICATION Spec
CONSTANTS
  typesafe = typesafe
  vec = vec
  pgmq = pgmq
  tigerfs = tigerfs
  Ext = {typesafe, vec, pgmq}
  SqlOnly = {pgmq}
  Typesafe = typesafe
  Tigerfs = tigerfs
  Supported <- MCSupported
  Standalone = {vec}
  Requests <- MCRequests
  MaxTouched = 1
  Nothing = Nothing
INVARIANTS
  AcceptedWithTigerfs
  MetadataDescribesFiles
PROPERTIES
  ReleaseOffersSelection
  OfferedIsUsable
