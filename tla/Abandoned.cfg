SPECIFICATION PSpec
CONSTANTS
    Models = {m1}
    Workers = {w1, w2}
    Manuals = {}
    NoModel = NoModel
    MaxAttempts = 2
    Lease = 1
    CallDeadline = 1
    RetryInterval = 1
    MaxTime = 2
    MaxStarts = 9
    Schedulers = {s1}
    NoScheduler = NoScheduler
    LockTTL = 1
    DailyFrom = 0
    DailyUntil = 1
    MaxUpsets = 1
INVARIANTS
    DoneInFull
