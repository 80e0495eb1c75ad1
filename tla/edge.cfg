\* Two calls, two boxes that get new keys one after the other, one fault.
CONSTANTS
    Calls = {1, 2}
    Boxes = {b1, b2}
    Offsets <- MCOffsets
    Window = 1
    MaxTries = 2
    MaxTransit = 2
    MaxSecond = 1
    MaxFaults = 1
    Nobody = Nobody
SPECIFICATION FairSpec
INVARIANTS RefusedForCause AckedSegmentStands LastCallDecides
PROPERTIES CallbackGetsThrough
CHECK_DEADLOCK FALSE
