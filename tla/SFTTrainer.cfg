\* Two epochs of three batches, four processes.
CONSTANTS
    Epochs = 2
    Batches = {b1, b2, b3}
    GradAccum = 2
    SaveInterval = 3
    MaxStep = 11
    MaxLaunches = 4
    Absent = Absent
    Torn = Torn
SPECIFICATION Spec
INVARIANT LostWorkIsBounded
INVARIANT EpochsCovered
INVARIANT PointedIsWhole
INVARIANT ReturnedAllAgree
SYMMETRY BatchSymmetry
CHECK_DEADLOCK FALSE
