SPECIFICATION Spec
CONSTANTS
    n1 = n1
    None = None
    Node = {n1}
    Stream = {s1, s2, s3}
    Command = {c1, c2}
    Dest <- MCDest
    Id = {i1}
    IdOf <- MCIdOf
    QueueCap = 1
    OutCap = 1
    MaxFaults = 1
    MaxDeregister = 0
CHECK_DEADLOCK FALSE
INVARIANT IsConnectedAccurate
