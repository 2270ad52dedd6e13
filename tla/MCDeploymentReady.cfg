SPECIFICATION Spec
CONSTANTS
    d1 = d1
    d2 = d2
    d3 = d3
    Deps = {d1}
    NoDep = NoDep
    RollbackOf <- MCRollbackOf
    Cancellable = {}
    MaxAttempts = 1
    Slots = 1
    MaxFaults = 0
INVARIANT
    ReadyWhenBuilt
CHECK_DEADLOCK FALSE
