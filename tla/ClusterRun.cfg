SPECIFICATION MCSpec
CONSTANTS
    Nodes = {n1, n2}
    Scenarios = 1
    MaxRuns = 2
CHECK_DEADLOCK FALSE
INVARIANTS TypeOK CleanExit SetUpRepeatable PreloadedNodes
PROPERTIES SnapshotBeforeDeletion RunEnds
