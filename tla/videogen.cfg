\* One request, two deliveries of its callback that overlap, and two
\* brokers to submit it to.
CONSTANTS
  Requests = {r1}
  Calls = {c1, c2}
  Brokers = 2
  Stale = 1
  Retention = 2
SPECIFICATION FairSpec
INVARIANTS ClosedForCause AcknowledgedHasDraft
PROPERTIES StatusIsFinal NothingSpins GeneratedIsDrafted
CHECK_DEADLOCK FALSE
