SPECIFICATION LiveSpec
CONSTANTS
    n1 = n1
    n2 = n2
    ping = ping
    pong = pong
    Nodes = {n1, n2}
    Apps = {ping, pong}
    Definitions <- Coming
    LostReplies = FALSE
    MaxCrashes = 1
    MaxFaults = 1
    MaxFlips = 3
    MaxEdits = 1
INVARIANT KnownHealthIsRecorded
PROPERTY CatalogFollowsHealth
