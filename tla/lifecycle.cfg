SPECIFICATION Spec
CONSTANTS
    None = None
    Jobs = {j1, j2}
    StopJobs = {s1}
    Proxies = {p1}
    Attempts = 1
    MaxCrashes = 1
    MaxRevokes = 0
    MaxPairs = 4
    MaxKills = 1
    Guarded = TRUE
    KeystoreFails = FALSE
SYMMETRY Symmetry
CHECK_DEADLOCK FALSE
INVARIANT TypeOK
 
INVARIANT ValidatedOnly
INVARIANT ConfigKnown
INVARIANT BusyOwned
PROPERTY RefinesFailClosed
