SPECIFICATION FairSpec
CONSTANTS
    r1 = r1
    r2 = r2
    Requests <- MCTwoRequests
    MaxRetries = 1
INVARIANTS
    WithinBudget
    RetriesWhileTransient
    RepliesAreTrue
    EveryReplyCounted
PROPERTY
    EveryRequestAnswered
CHECK_DEADLOCK FALSE
