SPECIFICATION FairSpec
CONSTANTS
    p1 = p1
    p2 = p2
    p3 = p3
    p4 = p4
    t1 = t1
    t2 = t2
    Prompts = {p1, p2, p3}
    Texts <- MCTexts
    TextOf <- MCTextOf
    Requests = {r1, r2}
    MaxActive = 1
    MinActive = 1
    Retention = 1
    LegacyRows <- MCLegacyRows
    MaxOps = 2
INVARIANTS
    OvershootBounded
PROPERTIES
    DeletedWhole
    OldPromptsLeave
