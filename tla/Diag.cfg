SPECIFICATION DiagSpec
CONSTANTS
    MemInfos <- MCOldMemInfos
    Rows <- MCRows
    MountRows <- MCMountRows
    Versions <- MCVersions
    MaxRows = 2
    Contributed <- MCContributed
    Malformed = Malformed
    Missing = Missing
CHECK_DEADLOCK FALSE
INVARIANT ReportsAreExact
INVARIANT NothingInferredFromNothing
