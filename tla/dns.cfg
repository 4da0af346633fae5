SPECIFICATION Spec
CONSTANTS
    q1 = q1
    q2 = q2
    q3 = q3
    k1 = k1
    k2 = k2
    Queries = {q1, q2, q3}
    Keys = {k1, k2}
    Transports = 2
    MaxPermits = 2
    Ttl = 1
    MaxTime = 1
    MaxFlaps = 1
    Scoped = {q1}
    None = None
    Open = Open
SYMMETRY Symmetry
CHECK_DEADLOCK FALSE
INVARIANT TypeOK
INVARIANT SingleFlight
INVARIANT OwnId
INVARIANT ServedFresh
INVARIANT FullPass
INVARIANT PermitsKept
PROPERTY KeepsGoodEntries
