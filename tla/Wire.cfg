SPECIFICATION WireSpec
CONSTANTS
    Text = {"", "blank", "x"}
    None = None
    Unit = 2
    Limits <- MCLimits
    NodeInfo <- MCNodeInfo
    Reading <- MCReading
    PbReport <- MCPbReport
INVARIANT FormatIsForced
INVARIANT RunsWhatWasAsked
INVARIANT OutcomeIsTruthful
INVARIANT SampleArrives
INVARIANT VerdictsMatchMachine
