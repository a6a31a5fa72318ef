SPECIFICATION FairSpec
CONSTANTS
    n1 = n1
    None = None
    Node = {n1}
    Stream = {s1, s2}
    Command = {c1, c2}
    Dest <- MCDest
    Id = {i1}
    IdOf <- MCIdOf
    QueueCap = 1
    OutCap = 1
    MaxFaults = 1
    MaxDeregister = 1
CHECK_DEADLOCK FALSE
INVARIANT RegistryHoldsLiveBridges
INVARIANT RunsInOrderAtMostOnce
PROPERTY ImplementsCommandLog
PROPERTY AcceptedIsRun
PROPERTY AgentsReconnect
