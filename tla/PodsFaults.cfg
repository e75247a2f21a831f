SPECIFICATION FairSpec
CONSTANTS
    Objs = {a, b}
    Outside = {}
    Unwatchable = {b}
    NodeCounted = {a}
    TimesOut = TRUE
    Interference = TRUE
    MaxRV = 3
    MaxRelists = 1
    MaxCalls = 4
INVARIANTS TypeOK NoOrphanChecker CheckersFollowCache
