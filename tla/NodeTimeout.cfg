SPECIFICATION Spec
CONSTANTS
    S = 3
    Timeouts <- MCTimeouts
    Metrics <- MCMetrics
    Heartbeats <- MCHeartbeats
    Steps <- MCSteps
    MaxDelay = 1
    Start = 9
    MaxTime = 23
INVARIANT NeverReapedEarly
INVARIANT ReapedInTime
INVARIANT NoFalseAlarm
