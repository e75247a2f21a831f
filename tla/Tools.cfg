SPECIFICATION Spec
CONSTANTS
    Tools = {"netperf", "perfdash", "slo", "slo pair"}
    Workers = {"w1", "w2"}
    Cases <- NetperfCases
    Sizes = 2
    Iterations = 2
    MaxCrashes = 2
    Jobs = {"a", "b"}
    Configs <- DashConfigs
    BuildsCount = 2
    MaxBuilds = 2
    MaxFetches = 2
INVARIANTS ResultsComplete ServedWhole ObservedOnce QueueIndexed
 
CHECK_DEADLOCK FALSE
