\* Rotation that keeps two checkpoints, with a critic, over three saves and three processes.
CONSTANTS
    MaxStep = 3
    MaxLaunches = 3
    Keep = 2
    UseCritic = TRUE
    Image = {i1, i2}
    Absent = Absent
    Torn = Torn
    NoTracker = NoTracker
    Truncated = Truncated
SPECIFICATION Spec
INVARIANT TrackedIsWhole
CHECK_DEADLOCK FALSE
