SPECIFICATION StreamSpec
CONSTANTS
    c1 = c1
    c2 = c2
    c3 = c3
    None = None
    Calls = {c1, c2, c3}
    Sessions = {s1}
    Left = {}
    DatabaseMayFail = FALSE
    Workers = {w1, w2, w3}
    ErrorThreshold = 2
    Scenarios <- MCDashboard
INVARIANTS
    EndedHasNoWorker
CHECK_DEADLOCK FALSE
