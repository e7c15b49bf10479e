SPECIFICATION FairSpec
CONSTANTS
    p1 = p1
    Runs = {1, 2}
    Prompts = {p1}
    PromptOf <- MCPromptOf
    Schedulers = {s1, s2}
    Users = {u1}
    MaxAttempts = 2
    BatchSize = 1
    UserBatch = 2
    MaxRequests = 1
    MaxLost = 1
CHECK_DEADLOCK FALSE
INVARIANTS
    CompletedReported
    AttemptsBounded
PROPERTIES
    FailedSettles
