SPECIFICATION TorSpec
CONSTANTS
    MaxStarts = 3
    MaxTaps = 5
    MaxDeaths = 0
CHECK_DEADLOCK FALSE
INVARIANT StartedStays
