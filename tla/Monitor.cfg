SPECIFICATION FairSpec
CONSTANTS
    Node = {n1, n2}
    Info = {i1}
    Sample <- MCFullDisk
    None = None
INVARIANT NoStaleSeries
INVARIANT AggregatesAgree
PROPERTY TransitionsAlternate
PROPERTY DegradationLogged
