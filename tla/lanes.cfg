SPECIFICATION LanesSpec
CONSTANTS
    MaxStarts = 3
    MaxTaps = 4
    MaxDeaths = 1
    MaxTasks = 2
    MaxLoops = 2
    MaxShares = 2
    MaxHotspotEvents = 6
    MaxRelaunches = 2
    MaxSaves = 2
    MaxEdits = 4
    MaxVaultDeaths = 1
    Keys = {k1, k2}
    Pool = {e1, e2}
    MaxConcurrency = 1
    MaxChecks = 4
    MaxRefreshes = 3
    MaxScreens = 2
INVARIANTS TorOnce OneLoop ShownIsStarted SharesLeaveNothing PrepareCancellable
    RestartShowsSame DeletedForgotten PasswordBelongs SweepHonest
PROPERTIES SpinnersEnd LoopsEnd ShownWins
CHECK_DEADLOCK FALSE
