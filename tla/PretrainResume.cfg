\* A process that is resumed within an epoch.
CONSTANTS
    Epochs = 2
    Batches = 3
    GradAccum = 1
    SaveInterval = 2
    HfInterval = 3
    Budgets = {NoBudget}
    NoBudget = NoBudget
    HfRepo = FALSE
    MaxLaunches = 2
    Absent = Absent
    Torn = Torn
SPECIFICATION Spec
INVARIANT EachBatchOnce
CHECK_DEADLOCK FALSE
