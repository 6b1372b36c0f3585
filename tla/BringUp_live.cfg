SPECIFICATION LiveSpec
CONSTANTS
    dc1 = dc1
    dc2 = dc2
    p1 = p1
    p2 = p2
    q1 = q1
    q2 = q2
    web = web
    NoServer = NoServer
    Clusters = {dc1, dc2}
    Primary = dc1
    Servers <- PairServers
    Clients <- Nothing
    Services <- Nothing
    Peered = FALSE
    InitialToken = TRUE
    MaxRuns = 2
    MaxLives = 1
INVARIANT NoPanic
PROPERTIES UpTerminates WorkloadsComeUp
CHECK_DEADLOCK FALSE
