\* Two epochs of five batches, with a short accumulation at the end of each.
CONSTANTS
    Epochs = 2
    Batches = 5
    GradAccum = 2
    SaveInterval = 2
    HfInterval = 3
    Budgets = {NoBudget, 2}
    NoBudget = NoBudget
    HfRepo = TRUE
    MaxLaunches = 2
    Absent = Absent
    Torn = Torn
SPECIFICATION Spec
INVARIANT StepLagsBoundedly
INVARIANT EpochsCovered
INVARIANT ReturnedIsUploaded
CHECK_DEADLOCK FALSE
PROPERTY LaunchEnds
