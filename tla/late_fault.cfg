SPECIFICATION Spec
CONSTANTS
    None = None
    Jobs = {j1}
    StopJobs = {s1}
    Proxies = {p1}
    Attempts = 1
    MaxCrashes = 1
    MaxRevokes = 0
    MaxPairs = 9
    MaxKills = 0
    Guarded = TRUE
    KeystoreFails = FALSE
CHECK_DEADLOCK FALSE
INVARIANT ConnectedCarries
