SPECIFICATION MCSpec
CONSTANTS
    Crons = {n1, n2}
    CronJobs <- MCCronJobs
    CHour = 2
    CDay = 4
    MaxMinute = 4
    CMaxFaults = 1
    NoNext = NoNext
    NoCron = NoCron
    Nodes = {a1, a2}
    NoNode = NoNode
    Containers = {k1, k2}
    Apps = {d1}
    Clients = {p1, p2}
    AMaxCalls = 3
    AMaxFaults = 1
    api = api
    agent = agent
    proxy = proxy
    Replicas = {api, agent, proxy}
    NoReplica = NoReplica
    Wanted <- MCWanted
    GMaxFaults = 1
INVARIANTS
    RunFiredOnce
    
PROPERTIES
    DueRunHandled
    MissingNoticed
    EveryReplicaBoots
CHECK_DEADLOCK FALSE
