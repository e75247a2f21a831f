SPECIFICATION Spec
CONSTANTS
    Parts = {"reports"}
    Steps <- ReportedSteps
    Loads <- TuningLoads
    Period = 2
    Burst = 1
    BurstSize = 2
    TimeLimit = 3
    Limit = 2
    MaxTime = 5
    k1 = k1
    Pods = {p1, p2}
    MorePods = {p1, p2, p3}
    Workers = {w1, w2}
INVARIANT SummariesKept
CHECK_DEADLOCK FALSE
