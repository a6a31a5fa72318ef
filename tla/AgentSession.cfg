SPECIFICATION FairSpec
CONSTANTS
    ReconnectBackoff = 2
    MaxBackoff = 30
    MaxSleeps = 6
    MaxFaults = 4
    MaxTime = 3
CHECK_DEADLOCK FALSE
INVARIANT BackoffIsCappedExponential
INVARIANT EpochMismatchMeansRestart
PROPERTY AgentSettles
