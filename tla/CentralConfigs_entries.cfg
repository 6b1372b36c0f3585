SPECIFICATION LiveSpec
CONSTANTS
    Configs <- First
    Edits <- Changes
    None = None
    MaxEdits = 2
    MaxInterrupts = 2
INVARIANTS TypeOK Converged DeletesAccepted
PROPERTIES ReconcileSpec FailsOnlyIfBlocked EventuallyConverged
CHECK_DEADLOCK FALSE
