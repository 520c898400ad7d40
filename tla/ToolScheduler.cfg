\* Two batches over a cache that holds the larger one; three addresses, of which
\* the heap has one at the root and two below; one token for two threads.
CONSTANTS
    c1 = c1
    c2 = c2
    c3 = c3
    Batches <- MCBatches
    Addresses <- MCAddresses
    MaxCache = 2
    PromptMsgs = 1
    MaxMessages = 4
    MaxCalls = 2
    NumWorkers = 2
    RateLimit = 1
SPECIFICATION Spec
INVARIANT TokensConserved
INVARIANT LoadIsEven
PROPERTY EveryBatchEnds
CHECK_DEADLOCK FALSE
