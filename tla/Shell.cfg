SPECIFICATION FairSpec
CONSTANTS
    Commands <- MCCommands
    NL = "\n"
    Nul = "0"
    BufLen = 3
    MaxTyped = 5
    Stale <- MCStale
INVARIANTS TypeOK InputsAreTyped
PROPERTIES EndedLineIsAnswered
CHECK_DEADLOCK FALSE
