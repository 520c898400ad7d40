\* All small inputs of each algorithm.
CONSTANTS
    Jobs = {"micro", "global"}
    Rows = 4
    MaxLen = 4
    MaxTokenLen = 5
    Candidates = {1, 2, 3}
    Weights = {0, 1, 2, 3, 4}
    MaxTotal = 7
    Legal = {"a", "b", "c"}
    Over <- MCOver
    MaxCandidates = 2
    MaxTreeDepth = 3
    RootBudgets = {0, 1, 3, 4}
    MaxWeight = 2
    Solution <- MCSolution
    InjectAnswer = TRUE
    LineSets <- MCLineSets
    Labels <- MCLabels
    Scorings <- MCScorings
    BatchSize = 2
    K = 3
    PadTo = 3
    MaxCtx = 5
    PromptLengths = {3, 4}
    RolloutDepths = {1, 3}
    Says <- MCSays
    Slots = 3
    States = 3
    MaxAnswers = 6
    MaxPuzzles = 2
    MaxLength = 6
    MaxPuzzleMoves = 2
SPECIFICATION AlgorithmSpec
INVARIANT RowsDealtOut
INVARIANT OwnTokensTrained
INVARIANT BudgetsFair
INVARIANT LinesSound
INVARIANT WorkWithinBudget
INVARIANT TreeOfPuzzle
INVARIANT MinimaxIsForced
INVARIANT TextsRetrace
INVARIANT RolloutsOfOwnState
INVARIANT MatchesAreFound
INVARIANT PuzzlesCounted
INVARIANT ContextsFollowBoards
CHECK_DEADLOCK FALSE
