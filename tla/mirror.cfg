\* A pipeline beside a mirror job, over a video with a thumbnail, one that can
\* be neither hashed nor copied, and a temporary one.  A reset takes the second
\* one to the mirror jobs, which then fetch it again and again.
CONSTANTS
  Videos = {v1, v2, v3}
  TempVideos = {v3}
  HasThumb = {v1}
  Corrupt = {v2}
  Blocked = {v2}
  PhashJobs = {}
  MirrorRunners = {m1}
  Pipelines = {p1}
  PageSize = 2
  MaxRetries = 2
  MaxFaults = 2
  MaxResets = 1
SPECIFICATION FairSpec
INVARIANTS MirroredIsWhole
PROPERTIES MirroredIsFinal JobsEnd HashedIsMirrored
CHECK_DEADLOCK FALSE
