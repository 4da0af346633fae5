SPECIFICATION FairSpec
CONSTANTS
    q1 = q1
    q2 = q2
    q3 = q3
    k1 = k1
    k2 = k2
    Queries = {q1, q2, q3}
    Keys = {k1, k2}
    Transports = 2
    MaxPermits = 1
    Ttl = 1
    MaxTime = 0
    MaxFlaps = 1
    Scoped = {}
    None = None
    Open = Open
CHECK_DEADLOCK FALSE
PROPERTY Answered
