\* Rows of one rank; the other algorithms on next to nothing.
CONSTANTS
    Jobs = {"micro"}
    Rows = 4
    MaxLen = 4
    MaxTokenLen = 5
    Candidates = {1}
    Weights = {1}
    MaxTotal = 0
    Legal = {"a", "b", "c"}
    Over <- MCOver
    MaxCandidates = 2
    MaxTreeDepth = 3
    RootBudgets = {0}
    MaxWeight = 2
    Solution <- MCSolution
    InjectAnswer = TRUE
    LineSets = {}
    Labels <- MCLabels
    Scorings <- MCScorings
    BatchSize = 2
    K = 3
    PadTo = 3
    MaxCtx = 5
    PromptLengths = {}
    RolloutDepths = {1, 3}
    Says <- MCSays
    Slots = 3
    States = 0
    MaxAnswers = 6
    MaxPuzzles = 0
    MaxLength = 0
    MaxPuzzleMoves = 2
SPECIFICATION AlgorithmSpec
INVARIANT MicroBatchesFit
CHECK_DEADLOCK FALSE
