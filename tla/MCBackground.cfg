SPECIFICATION MCSpec
CONSTANTS
    r1 = r1
    r2 = r2
    r3 = r3
    r4 = r4
    api = api
    worker1 = worker1
    Requests <- MCRequests
    Procs <- MCProcs
    ProcOf <- MCProcOf
    Cost <- MCCost
    Limit = 3
    LastDay = 1
    k1 = k1
    k2 = k2
    NoKey = NoKey
    Keys <- MCKeys
    Callers <- MCCallers
    Cap = 3
    Base429 = 2
    BaseOther = 1
    DayTicks = 4
    MaxErrors = 3
    MaxUsage = 1
    MaxAttempts = 2
    loop = loop
    process = process
    admin = admin
    main = main
    second = second
    creator = creator
    n1 = n1
    n2 = n2
    n3 = n3
    known = known
    stranger = stranger
    Loops = {loop}
    Askers = {admin}
    Home <- MCHome
    Channels = {main, second}
    Creator <- MCCreator
    Patience = 1
    MaxFaults = 1
    MaxEdits = 1
    None = None
    Deliveries = {n1, n2, n3}
    Tells <- MCTells
    Owned = {known}
    MaxLapses = 1
    VersionWidth = 32
    MaxRestarts = 2
    MaxLosses = 1
INVARIANTS
    ProcessCap
    ChargedAtMostOnce
    AvailableIsRested
    OverlapIsBounded
    DisabledIsLeftAlone
    AckedIsStored
    UpIsCurrent
PROPERTIES
    NoChargeAfterRelease
    CoolingKeyReturns
    EveryChannelIsChecked
CHECK_DEADLOCK FALSE
