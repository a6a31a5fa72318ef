SPECIFICATION BenchSpec
CONSTANTS
    Proc = {p1, p2, r1}
    Raw = {r1}
    Options <- MCOptions
    Patterns <- MCPatterns
    PrepChunk = 2
    MaxFaults = 1
    MaxTime = 1
    None = None
CHECK_DEADLOCK FALSE
INVARIANT ScratchRemoved
INVARIANT LoneRunSucceeds
