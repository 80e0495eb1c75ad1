\* A run over all videos beside a run over the first, which never decodes.
CONSTANTS
  s1 = s1
  s2 = s2
  Videos <- MCVideos
  Broken <- MCBroken
  Runners = {s1, s2}
  Shard <- MCShard
  PageSize = 1
  Base = 1
  Cap = 2
  MaxInterval = 3
  MaxCount = 2
  MaxFaults = 2
SPECIFICATION FairSpec
INVARIANTS CleanSlate SucceededIsComplete
PROPERTIES RetriesSpaced RunsEnd HashedInTheEnd
CHECK_DEADLOCK FALSE
