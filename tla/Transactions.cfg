CONSTANTS
    Threads = {a, b}
    MaxOps = 1
    MaxRequests = 2
    MaxCrashes = 1
SPECIFICATION Spec
CHECK_DEADLOCK FALSE
INVARIANTS
    TypeOK
    SavepointsBalanced
    LoneWritesAreAtomic
    LoneWritesHaveATick
PROPERTIES
    CallsReturn
