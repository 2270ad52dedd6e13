SPECIFICATION MCSpec
CONSTANTS
    NoRow = NoRow
    Orgs = {o1}
    ProjIds = {i1, i2}
    Bases = {"app"}
    Clerks = {c1, c2}
    RepoIds = {j1, j2}
    Urls <- MCUrls
    Deliveries <- MCDeliveries
    Configured = {"github", "gitlab"}
    MaxReceived = 2
    MaxDeploys = 1
    ValueIds = {i1, i2}
    KeyNames = {"k"}
    Scopes = {"production", "preview"}
    Editors = {c1, c2}
    MaxValue = 4
    DomainIds = {j1, j2}
    Sites = {s1}
    Hostnames = {h1, h2}
    Adders = {c1, c2}
    PDeps = {i1, i2}
    PIds = {1, 2, 3}
    Addresses = {u1}
    Branches <- MCBranches
    CustomHosts <- MCCustomHosts
    Visitors = {c1, c2}
    PMaxCalls = 3
    PMaxFaults = 1
    CertHosts = {i1, i2}
    Issuers = {c1, c2}
    IMaxCalls = 3
    IMaxFaults = 1
    VDomains = {w1}
    Checkers = {c1, c2}
    VMaxCalls = 2
    VMaxPasses = 3
    VMaxFaults = 1
SYMMETRY MCSymmetry
INVARIANT
    RetryDeploys
CHECK_DEADLOCK FALSE
