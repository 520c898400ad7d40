\* Two samples; two calls of the environment; contexts that may overflow.
CONSTANTS
    Modes = {"tts", "nostop"}
    Places = {1, 2}
    PromptLens = {1, 3}
    Queues <- MCQueues
    ThinkingBudget = 3
    RoundMaxTokens = 2
    MaxEnvCalls = 2
    MaxModelTokens = 2
    MaxCtx = 5
    Blank = Blank
SPECIFICATION Spec
INVARIANT ThinkingClosedOnce
INVARIANT PhaseBudgets
INVARIANT FailuresOfModes
PROPERTY PhasesEnd
CHECK_DEADLOCK FALSE
