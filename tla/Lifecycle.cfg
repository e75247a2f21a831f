SPECIFICATION FairSpec
CONSTANTS
    Tests <- TwoTests
    Prefixes = {"p", "q"}
    MaxNs = 1
    Nodes = {n1, n2}
    PromNodes = {n2}
    Dependencies = {"d1", "d2"}
INVARIANTS TypeOK KillerEndsWithTest NoNodeLeftDown StepsHaveNamespaces DependenciesTornDown NoForgottenNamespace
PROPERTIES NodesRecover TestEnds
