SPECIFICATION FairSpec
CONSTANTS
    Thread = {t1, t2}
    Offsets = {1}
    MaxLen = 2
    MaxInterrupts = 1
    Hole = Hole
INVARIANT ReadIsFaithful
INVARIANT WriteIsComplete
PROPERTY CallsReturn
