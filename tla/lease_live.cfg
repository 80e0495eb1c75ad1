\* Liveness: one of two boxes may be lost for good.
CONSTANTS
  Boxes = {b1, b2}
  Nobody = Nobody
  Never = Never
  TTL = 3
  Cadence = 1
  MaxShutdowns = 0
  MaxCrashes = 1
  MaxFaults = 1
  MaxRequests = 0
SPECIFICATION FairSpec
PROPERTIES WorkConverges
CHECK_DEADLOCK FALSE
