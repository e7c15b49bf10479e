SPECIFICATION FairCallSpec
CONSTANTS
    MaxRetries = 2
    BaseDelay = 1
    Deadline = 7
    RequestTimeout = 4
    Reserve = 2
    MaxLate = 1
    Codes = {401, 422, 429, 503}
CHECK_DEADLOCK FALSE
INVARIANTS
    FailureIsFair
PROPERTIES
    CallKept
    CallEnds
    RoutesFollowed
