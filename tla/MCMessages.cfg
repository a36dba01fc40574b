SPECIFICATION MCSpec
CONSTANTS
    worker = worker
    api = api
    r1 = r1
    r2 = r2
    Last = 2
    Procs <- MCProcs
    Listeners <- MCProcs
    Handlers = {worker}
    Readers <- MCReaders
    Home <- MCHome
    QueueMax = 2
    MaxRestarts = 1
    None = None
    Clients = {c1}
    Events = 5
    ReplayMax = 3
    BufferMax = 2
    MaxVisits = 3
    ann = ann
    bob = bob
    add = add
    readd = readd
    edit = edit
    reedit = reedit
    perms = perms
    delete = delete
    use = use
    call = call
    hi = hi
    dc = dc
    discord = discord
    Requests <- MCRequests
    Op <- MCOp
    Name <- MCName
    Text <- MCText
    MinRole <- MCMinRole
    Sender <- MCSender
    Rank <- MCRank
    Builtins = {discord}
    Canonical <- MCCanonical
    Nobody = Nobody
    t1 = t1
    t2 = t2
    Slots = {t1, t2}
    Chatters = {ann}
    Results <- MCResults
    Limit <- MCLimit
    Models = 2
    Lapsing = {ann}
    MaxMessages = 2
    MaxLapses = 1
    trivia = trivia
    word = word
    answer = answer
    again = again
    more = more
    level = level
    Jobs <- MCJobs
    Viewers <- MCViewers
    Kind <- MCKind
    Author <- MCAuthor
    Duration = 1
    Cooldown = 1
    BurstWindow = 3
    BurstMax = 2
    DayLength = 2
    DailyMax = 1
    MaxTime = 3
    NoJob = NoJob
INVARIANTS
    HandledOnce
    FeedHasNoGap
    NoChangeIsLost
    BudgetHolds
    PacedAwards
    MintedOnce
SYMMETRY Alike
PROPERTIES
    DeliversOnce
CHECK_DEADLOCK FALSE
