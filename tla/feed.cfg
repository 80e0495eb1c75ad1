\* Safety and refinement: two imports, two hash jobs and an ingest hook.
CONSTANTS
  Importers = {i1, i2}
  Hashers = {h1, h2}
  Registrars = {g1}
  Readers = {r1}
  Videos <- MCVideos
  LegacyHash <- MCLegacyHash
  Values = {x, y}
  NoValue = NoValue
  Unset = Unset
  Nobody = Nobody
  NoStmt = NoStmt
  Limit = 1
  MaxFetch = 3
SPECIFICATION Spec
INVARIANTS NoSkippedEvent FeedReplaysHashes
PROPERTIES ImplementsFeedLog
CHECK_DEADLOCK FALSE
