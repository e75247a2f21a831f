SPECIFICATION Spec
CONSTANTS
    Pods = {p1}
    Containers = 1
    Repeats = {"pulled"}
    MaxLives = 1
    MaxExtras = 1
INVARIANT PullTimeExcluded
CHECK_DEADLOCK FALSE
