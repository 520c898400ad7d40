\* Three processes that crash, resume, rotate and save, without the prompt filter
\* and with it at the end of the first epoch.
CONSTANTS
    p1 = p1
    p2 = p2
    p3 = p3
    p4 = p4
    Prompts <- MCPrompts
    BatchSize = 2
    TotalEpochs = 2
    TotalSteps = 3
    SaveFreq = 2
    CriticWarmup = 2
    EsiMayExpire = TRUE
    FilterEpochs = {0, 1}
    MinKeep = 2
    MaxStep = 6
    MaxLaunches = 3
    Keep = 2
    UseCritic = FALSE
    Absent = Absent
    Torn = Torn
    NoTracker = NoTracker
    Truncated = Truncated
SPECIFICATION Spec
INVARIANT UpdatesMatchSteps
INVARIANT LostWorkIsBounded
INVARIANT ReturnedIsSaved
INVARIANT FilterSurvivesRestart
PROPERTY ImplementsStore
PROPERTY LaunchEnds
CHECK_DEADLOCK FALSE
