SPECIFICATION MCSpec
CONSTANTS
    NoRow = NoRow
    Billers = {w1, w2}
    Plans = {"pro"}
    Amounts = {1}
    Grants = {2}
    Intervals = {"monthly"}
    MaxBillingDay = 1
    MaxSubs = 1
    MaxInvoices = 1
    MaxCredit = 2
    Meters = {m1}
    Limit = 1
    Unlimited = Unlimited
    Deltas = {1}
    LastDay = 2
    RawRetention = 1
    MaxUsage = 2
    NoteIds = {i1, i2}
    Senders = {w1, w2}
    Channels = {"email", "in_app"}
    MaxAttempts = 2
    NFaults = 1
    BackupIds = {i1, i2, i3}
    BWorkers = {w1, w2}
    BNone = BNone
    SDeps = {1, 2}
    MaxPauses = 2
    BCallers = {w1, w2, c3}
    MaxFailures = 2
    HalfOpenMax = 1
    Capacity = 3
    Rate = 2
    Skew = 1
    MaxSeconds = 6
    MaxSetBack = 4
SYMMETRY MCSymmetry
INVARIANTS
    
    
    DeliveriesTrue
    
    SleepsTrue
    
    
CHECK_DEADLOCK FALSE
