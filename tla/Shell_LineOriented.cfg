SPECIFICATION Spec
CONSTANTS
    Commands <- MCCommands
    NL = "\n"
    Nul = "0"
    BufLen = 3
    MaxTyped = 5
    Stale <- MCStale
INVARIANTS LineOriented
CHECK_DEADLOCK FALSE
