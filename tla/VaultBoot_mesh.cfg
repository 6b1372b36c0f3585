SPECIFICATION LiveSpec
CONSTANTS
    dc1 = dc1
    dc2 = dc2
    None = None
    Clusters = {dc1, dc2}
    Order <- PrimaryFirst
    Configs <- Uses
    Tokens = {1, 2, 3, 4, 5, 6, 7, 8, 9, 10}
    MaxInterrupts = 2
    MaxEdits = 2
    MaxRestarts = 1
    MaxCommands = 1
INVARIANTS TypeOK RootTokenHasKey BootKnowsVault BootedCAs
PROPERTIES StaysSettled EventuallyUp
