SPECIFICATION FairSpec
CONSTANTS
    Namespaces = {"n1", "n2"}
    Objects = {"svc", "dep"}
    MaxReplicas = 2
    Phases <- ScalePhases
    ListUnknown = {}
    BadTemplate = {}
    BadSelector = {}
    EmptyTemplate <- OneEmptyTemplate
    Parallelism = 2
    RetrySteps = 2
    MaxSteps = 3
INVARIANTS TypeOK NoSilentDivergence
PROPERTIES CreationOrder DeletionOrder StepEnds ImplementsForkJoin
