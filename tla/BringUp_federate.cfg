SPECIFICATION Spec
CONSTANTS
    dc1 = dc1
    dc2 = dc2
    p1 = p1
    p2 = p2
    q1 = q1
    q2 = q2
    web = web
    NoServer = NoServer
    Clusters = {dc1, dc2}
    Primary = dc1
    Servers <- WideServers
    Clients <- Nothing
    Services <- Nothing
    Peered = FALSE
    InitialToken = FALSE
    MaxRuns = 3
    MaxLives = 1
SYMMETRY WideSymmetry
INVARIANTS PublishedTokensWork InjectedTokensWork WaitsCanEnd
PROPERTY MasterTokenKept
CHECK_DEADLOCK FALSE
