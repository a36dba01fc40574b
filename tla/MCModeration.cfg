SPECIFICATION MCSpec
CONSTANTS
    open = open
    approve = approve
    command = command
    override = override
    deny = deny
    DELETE = DELETE
    BAN = BAN
    Calls <- MCCalls
    Actions <- MCActions
    Removals <- MCRemovals
    Kind <- MCKind
    Via <- MCVia
    Chosen <- MCChosen
    MaxRestarts = 1
    None = None
    Trusts <- MCTrusts
    api = api
    worker = worker
    Monitors <- MCMonitors
    Mode <- MCMode
    Operators <- MCOperators
    Target <- MCTarget
    MaxChanges = 2
    MaxFaults = 1
    Nobody = Nobody
    Alerts <- MCAlerts
    KindOf <- MCKindOf
    Critical <- MCCritical
    Drains <- MCDrains
    DrainMax = 2
    BacklogMax = 2
INVARIANTS
    CarriedOutOnce
    ApprovedIsSetAbout
    PolicyIsMonotone
    NoSecondByTheSame
    LossIsBounded
PROPERTIES
    EveryVerdictEnds
    CriticalIsReported
CHECK_DEADLOCK FALSE
