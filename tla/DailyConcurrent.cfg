SPECIFICATION Spec
CONSTANTS
    Models = {m1}
    Workers = {w1, w2}
    Manuals = {u1}
    NoModel = NoModel
    MaxAttempts = 2
    Lease = 1
    CallDeadline = 1
    RetryInterval = 1
    MaxTime = 2
    MaxStarts = 3
INVARIANTS
    NoConcurrentCalls
\* The bounds on starts and on the clock end every behaviour.
CHECK_DEADLOCK FALSE
