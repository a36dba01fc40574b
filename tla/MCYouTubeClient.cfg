CONSTANTS
    a = a
    w = w
    k1 = k1
    k2 = k2
    NoKey = NoKey
    Process = unified
    Readers <- MCReaders
    Writers <- MCWriters
    Keys <- MCKeys
    Cost <- MCCost
    Limit = 2
    LastDay = 1
    Cap = 1
    Base429 = 1
    BaseOther = 1
    DayTicks = 1
    MaxErrors = 1
    MaxUsage = 1
    MaxAttempts = 3
    Threshold = 1
    Recovery = 1
    HalfOpenMax = 1
    first = first
    twin = twin
    late = late
    spam = spam
    Waiters <- MCWaiters
    Key <- MCKey
    Nobody = Nobody
SPECIFICATION MCSpec
INVARIANTS
    AnswerIsCharged
    TurnedAwayIsFree
    NothingLeftHeld
    BreakerAgrees
PROPERTIES
    KeepsBudget
    EveryRequestEnds
    EveryCallerIsAnswered
CHECK_DEADLOCK FALSE
