SPECIFICATION LiveSpec
CONSTANTS
    dc1 = dc1
    dc2 = dc2
    p1 = p1
    p2 = p2
    q1 = q1
    q2 = q2
    web = web
    NoServer = NoServer
    Clusters = {dc1}
    Primary = dc1
    Servers <- SoloServers
    Clients <- Nothing1
    Services <- Nothing1
    Peered = FALSE
    InitialToken = FALSE
    MaxRuns = 2
    MaxLives = 2
PROPERTY StaleMasterTokenDropped
CHECK_DEADLOCK FALSE
