\* A float with a fraction from a million on, such as latency_cycles = 1234567.5.
CONSTANTS
    Keys <- MCKeys
    Values <- FractionalMillions
    Depth <- MillionsDepth
    MaxMembers = 1
    MaxEdits = 0
SPECIFICATION Spec
INVARIANT ReadersAgree
CHECK_DEADLOCK FALSE
