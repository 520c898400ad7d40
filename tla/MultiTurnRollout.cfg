\* Two ranks with batches of three samples: a round's max_tokens comes from
\* another sample, the sort moves them, and the ranks meet in the all_reduce.
CONSTANTS
    MaxEnvCalls = 2
    MaxModelTokens = 3
    MaxCtx = 6
    Blank = Blank
    r1 = r1
    r2 = r2
    Ranks = {r1, r2}
    Size = 3
    PromptLens = {2, 5, 6}
    Queues <- MCQueues
    Batches <- MCBatches
SPECIFICATION Spec
INVARIANT ResponseIsConsistent
INVARIANT BudgetsHold
INVARIANT RoundsBounded
INVARIANT RowsMatchPrompts
PROPERTY ImplementsEpisodes
PROPERTY AllRanksFinish
CHECK_DEADLOCK FALSE
