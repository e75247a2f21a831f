SPECIFICATION Spec
CONSTANTS
    Objs = {a, b}
    Outside = {}
    Unwatchable = {}
    NodeCounted = {}
    TimesOut = TRUE
    Interference = FALSE
    MaxRV = 1
    MaxRelists = 0
    MaxCalls = 4
PROPERTY GatherSound
