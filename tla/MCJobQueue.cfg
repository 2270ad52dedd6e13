SPECIFICATION FairSpec
CONSTANTS
    Jobs = {j1, j2}
    Keys = {k1}
    NoKey = NoKey
    Workers = {w1, w2}
    NoWorker = NoWorker
    Known = {j1}
    MaxAttempts <- MCMaxAttempts
    Concurrency = 1
    BatchSize = 2
    MaxFaults = 1
    MaxStops = 1
INVARIANT
    ExclusiveWithoutFaults
PROPERTIES
    EventuallySettled
    ImplementsLedger
CHECK_DEADLOCK FALSE
