\* Three requests for one video on one box, one fault, downloads tried twice.
CONSTANTS
    Calls = {r1, r2, r3}
    Boxes = {b1}
    MaxAttempts = 2
    MaxFaults = 1
    Nobody = Nobody
SPECIFICATION Spec
SYMMETRY Symmetry
INVARIANTS AckedStands FinalizeIsRepeatable
PROPERTIES MovedIsKept
CHECK_DEADLOCK FALSE
