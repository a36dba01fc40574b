SPECIFICATION FairStreamSpec
CONSTANTS
    c1 = c1
    c2 = c2
    c3 = c3
    None = None
    Calls = {c1, c2, c3}
    Sessions = {s1, s2, s3}
    Left = {s1}
    DatabaseMayFail = TRUE
    Workers = {w1, w2, w3}
    ErrorThreshold = 2
    Scenarios <- MCScenarios
INVARIANTS
    NoOrphan
    ActiveHasLoop
PROPERTIES
    EndedIsFinal
    StopMeansStopped
    EveryCallReturns
CHECK_DEADLOCK FALSE
