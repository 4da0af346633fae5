SPECIFICATION FairSpec
CONSTANTS
    None = None
    Jobs = {j1}
    StopJobs = {s1}
    Proxies = {p1}
    Attempts = 2
    MaxCrashes = 2
    MaxRevokes = 1
    MaxPairs = 9
    MaxKills = 0
    Guarded = TRUE
    KeystoreFails = FALSE
CHECK_DEADLOCK FALSE
INVARIANT DownMeansUnrouted
INVARIANT BridgeWhole
PROPERTY RecoversOrReleases
PROPERTY BusyEnds
