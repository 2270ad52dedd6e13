SPECIFICATION MCSpec
CONSTANTS
    NoRow = NoRow
    Accounts = {u1}
    Sids = {s1, s2}
    ResetIds = {r1}
    Procs = {p1, p2}
    MaxToken = 3
    MaxPassword = 3
    MaxFaults = 1
    People = {a, b}
    Founder = a
    GivenRoles = {"owner", "admin"}
    InvIds = {i1, i2}
    KeyIds = {k1}
    Workers = {w1, w2}
    Secrets <- MCSecrets
SYMMETRY MCSymmetry
INVARIANTS
    SurvivorsExplained
    OwnersGranted
PROPERTIES
    
    OwnerFallsOnlyToRace
CHECK_DEADLOCK FALSE
