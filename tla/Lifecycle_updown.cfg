SPECIFICATION LiveSpec
CONSTANTS
    flat = flat
    islands = islands
    v1 = v1
    v2 = v2
    d1 = d1
    d2 = d2
    None = None
    Locals = {"envoy", "tool"}
    Configs <- Varied
    MaxInterrupts = 2
    MaxEdits = 2
    MaxCommands = 2
INVARIANTS TypeOK NoOrphans NetworkGuarded ImagesBuilt UpToDate
PROPERTY EventuallyUp
