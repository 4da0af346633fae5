SPECIFICATION FairSpec
CONSTANTS
    MaxStarts = 3
    MaxDeaths = 2
    MaxExits = 1
CHECK_DEADLOCK FALSE
INVARIANT DeathDetectable
INVARIANT StopReleases
PROPERTY DestroyEnds
