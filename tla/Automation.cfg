SPECIFICATION FairSpec
CONSTANTS
    Conns = {c1, c2}
    Ids = {i1, i2}
    Panes = {p1}
    Responders = {t1, t2}
    MaxPerClient = 1
    MaxWaiters = 1
    MaxPending = 1
    ResponseCap = 1
    MaxRequests = 2
CHECK_DEADLOCK FALSE
INVARIANTS
    InflightAccounted
PROPERTIES
    FatesKept
    EveryRequestAnswered
