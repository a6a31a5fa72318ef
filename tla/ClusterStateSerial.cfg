SPECIFICATION FairSpec
CONSTANTS
    Node = {n1}
    Info = {i1, i2}
    Sample <- MCSample
    Task = {t1}
    NodeTimeout = 1
    StoreFaults = FALSE
    MaxTime = 3
    None = None
INVARIANT FactsWrittenThrough
INVARIANT DeregisterLeavesNothing
PROPERTY SilentNodeReaped
