SPECIFICATION Spec
CONSTANTS
    dc1 = dc1
    dc2 = dc2
    p1 = p1
    p2 = p2
    q1 = q1
    q2 = q2
    web = web
    NoServer = NoServer
    Clusters = {dc1, dc2}
    Primary = dc1
    Servers <- PairServers
    Clients <- PairClients
    Services <- PairServices
    Peered = TRUE
    InitialToken = TRUE
    MaxRuns = 2
    MaxLives = 2
INVARIANTS TypeOK BootComplete
PROPERTY HandoffSpec
CHECK_DEADLOCK FALSE
