SPECIFICATION Spec
CONSTANTS
    flat = flat
    islands = islands
    v1 = v1
    v2 = v2
    d1 = d1
    d2 = d2
    None = None
    Locals = {"envoy", "tool"}
    Configs <- Varied
    MaxInterrupts = 0
    MaxEdits = 1
    MaxCommands = 0
PROPERTY NetworkChangesByDown
