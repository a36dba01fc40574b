CONSTANTS
    a = a
    k1 = k1
    NoKey = NoKey
    Process = unified
    Readers <- MCReaders
    Writers <- MCWriters
    Keys <- MCKeys
    Cost <- MCCost
    Limit = 1
    LastDay = 0
    Cap = 1
    Base429 = 1
    BaseOther = 1
    DayTicks = 1
    MaxErrors = 1
    MaxUsage = 1
    MaxAttempts = 3
    Threshold = 1
    Recovery = 1
    HalfOpenMax = 1
SPECIFICATION ConsumptionSpec
INVARIANTS
    ConsumptionCapped
CHECK_DEADLOCK FALSE
