\* Three rows: one without keys, one that Postgres refuses, and a good one that
\* spells the id of the second in another way.
CONSTANTS
  N = 3
  KeyOf <- Spelling
  Keyless = {1}
  Bad = {2}
  Expected = {2}
  Boxes = {b1}
  Batch = 2
  MaxConsecutive = 2
  Limits <- Asked
  MaxFaults = 2
SPECIFICATION ImportFairSpec
INVARIANTS SucceededImportsAll AbortsOnlySystemic
PROPERTIES CoverageCloses
