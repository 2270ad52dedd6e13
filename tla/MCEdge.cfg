SPECIFICATION MCSpec
CONSTANTS
    h1 = h1
    t1 = t1
    Hosts = {h1}
    Upstreams = {u1, u2}
    NoUp = NoUp
    Tags = {t1}
    Tag <- MCTag
    Procs = {p1, p2}
    MaxOps = 3
    MaxFaults = 1
    Servers = {n1, n2}
    NoServer = NoServer
    Deps = {d1, d2, d3}
    Callers = {p1, p2}
    Leased = {d1, d2, d3}
    Capacity <- MCCapacity
    MaxSlots = 1
    MaxMissed = 1
    MaxCalls = 3
    MaxLapses = 1
    Fleets <- MCFleets
    Requests <- MCRequests
    PortBase = 30
    PortSpan = 10
INVARIANTS
    DatabaseFirst
    Accounting
    OverrunBounded
    PlacedWell
PROPERTIES
    
    SilentGoesOffline
CHECK_DEADLOCK FALSE
