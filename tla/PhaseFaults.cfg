SPECIFICATION FairSpec
CONSTANTS
    Namespaces = {"n1", "n2"}
    Objects = {"pv", "dep", "bad", "sel"}
    MaxReplicas = 1
    Phases <- FaultPhases
    ListUnknown = {"pv", "sel"}
    BadTemplate = {"bad"}
    BadSelector = {"sel"}
    EmptyTemplate <- NoTemplates
    Parallelism = 1
    RetrySteps = 1
    MaxSteps = 2
INVARIANTS NoSilentDivergence
