SPECIFICATION Spec
CONSTANTS
    d1 = d1
    d2 = d2
    d3 = d3
    Deps = {d1, d3}
    NoDep = NoDep
    RollbackOf <- MCRollbackOf
    Cancellable = {d1, d3}
    MaxAttempts = 2
    Slots = 2
    MaxFaults = 1
INVARIANT
    RunsPushedImages

    
CHECK_DEADLOCK FALSE
