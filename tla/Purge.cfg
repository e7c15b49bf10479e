SPECIFICATION FairSpec
CONSTANTS
    p1 = p1
    p2 = p2
    p3 = p3
    p4 = p4
    t1 = t1
    t2 = t2
    Prompts = {p2, p3}
    Texts <- MCTexts
    TextOf <- MCTextOf
    Requests = {r1}
    MaxActive = 2
    MinActive = 1
    Retention = 1
    LegacyRows <- MCFreshRows
    MaxOps = 2
PROPERTIES
    DailyJobsEnqueued
