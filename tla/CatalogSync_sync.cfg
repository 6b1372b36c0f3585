SPECIFICATION Spec
CONSTANTS
    n1 = n1
    n2 = n2
    ping = ping
    pong = pong
    Nodes = {n1, n2}
    Apps = {ping, pong}
    Definitions <- Moving
    LostReplies = TRUE
    MaxCrashes = 2
    MaxFaults = 1
    MaxFlips = 1
    MaxEdits = 2
INVARIANTS TypeOK SyncedCatalog
PROPERTY ReconcileSpec
