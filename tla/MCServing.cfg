SPECIFICATION MCSpec
CONSTANTS
    d1 = d1
    d2 = d2
    d3 = d3
    Deps = {d1, d2, d3}
    NoDep = NoDep
    RollbackOf <- MCRollbackOf
    Cancellable = {}
    MaxAttempts = 2
    Slots = 1
    MaxFaults = 1
    Publishers = {p1, p2}
    Handlers = {h1, h2}
    PoolWorkers = {w1}
    QueueSize = 1
    BMaxAttempts = 2
    NoTask = NoTask
    Streams = {s1, s2}
    Topics = {"proxy", "broadcast", "deployment"}
    BufSize = 1
    HMaxCalls = 3
INVARIANTS
    AcceptedBeforeClose
    PingNeverCrashes
PROPERTIES
    ServingKept
    LiveWhenServing
    CloseEnds
CHECK_DEADLOCK FALSE
