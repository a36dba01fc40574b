CONSTANTS
    k1 = k1
    k2 = k2
    r1 = r1
    r2 = r2
    NoKey = NoKey
    Keys <- MCKeys
    Callers <- MCCallers
    Cap = 3
    Base429 = 2
    BaseOther = 1
    DayTicks = 4
    MaxErrors = 3
    MaxUsage = 1
    MaxAttempts = 2
SPECIFICATION FairPoolSpec
PROPERTIES
    ExhaustedKeyReturns
CHECK_DEADLOCK FALSE
