SPECIFICATION Spec
CONSTANTS
    Commands <- MCCommands
    NL = "\n"
    Nul = "0"
    BufLen = 3
    MaxTyped = 5
    Stale <- MCStale
INVARIANTS TakesTheKeysPassed
CHECK_DEADLOCK FALSE
