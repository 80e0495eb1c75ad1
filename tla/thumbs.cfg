\* Two videos, one that never decodes, with one permit at each stage; enough
\* faults for runs that are killed or aborted, strays of theirs and later runs.
CONSTANTS
  Videos = {v1, v2}
  Broken = {v2}
  Downloads = 1
  Decoders = 1
  Uploads = 1
  MaxFaults = 4
SPECIFICATION FairSpec
INVARIANTS AuditMatchesPlan VerifiedStays
PROPERTIES EligibleStaged
CHECK_DEADLOCK FALSE
