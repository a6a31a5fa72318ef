SPECIFICATION Spec
CONSTANTS
    Node = {n1}
    Info = {i1, i2}
    Sample <- MCSample
    Task = {t1, t2}
    NodeTimeout = 1
    StoreFaults = TRUE
    MaxTime = 3
    None = None
SYMMETRY MCSymmetry
INVARIANT TypeOK
INVARIANT AliveMeansHeard
INVARIANT UnreachableMeansSilent
INVARIANT PersistedStatusJustified
INVARIANT DegradedMeansBreach
PROPERTY MemoryMovesForward
PROPERTY ImplementsLifecycle
