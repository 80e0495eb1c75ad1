\* Safety: two boxes that stop, crash, restart and renew late.
CONSTANTS
  Boxes = {b1, b2}
  Nobody = Nobody
  Never = Never
  TTL = 3
  Cadence = 2
  MaxShutdowns = 1
  MaxCrashes = 1
  MaxFaults = 1
  MaxRequests = 1
SPECIFICATION Spec
SYMMETRY BoxSymmetry
INVARIANTS SingleRunner FlagsMatchJobs
PROPERTIES LeaseLostFairly CadenceKept
CHECK_DEADLOCK FALSE
