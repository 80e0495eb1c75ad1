\* Liveness: two overlapping imports, which can deadlock, and a hash job.
CONSTANTS
  Importers = {i1, i2}
  Hashers = {h1}
  Registrars = {}
  Readers = {r1}
  Videos <- MCVideos
  LegacyHash <- MCLegacyHash
  Values = {x}
  NoValue = NoValue
  Unset = Unset
  Nobody = Nobody
  NoStmt = NoStmt
  Limit = 2
  MaxFetch = 4
SPECIFICATION FairSpec
PROPERTIES EveryTxEnds ReadersCatchUp
CHECK_DEADLOCK FALSE
