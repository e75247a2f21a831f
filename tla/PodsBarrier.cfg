SPECIFICATION FairSpec
CONSTANTS
    Objs = {a, b}
    Outside = {}
    Unwatchable = {}
    NodeCounted = {}
    TimesOut = TRUE
    Interference = FALSE
    MaxRV = 4
    MaxRelists = 0
    MaxCalls = 2
PROPERTIES GatherSound DeletionsAwaited NoSpuriousSyncTimeout ExecuteReturns
