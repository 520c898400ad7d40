\* A process dies while it rewrites the tracker.
CONSTANTS
    MaxStep = 3
    MaxLaunches = 2
    Keep = 2
    UseCritic = TRUE
    Image = {i1, i2}
    Absent = Absent
    Torn = Torn
    NoTracker = NoTracker
    Truncated = Truncated
SPECIFICATION Spec
INVARIANT TrackerReadable
SYMMETRY ImageSymmetry
CHECK_DEADLOCK FALSE
