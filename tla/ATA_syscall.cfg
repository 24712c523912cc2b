SPECIFICATION Spec
CONSTANTS
    Blocks <- MCBlocks
    Data <- MCData
    d1 = d1
    d2 = d2
    junk = junk
    Junk = junk
    PollTicks = 1
    MaxBuses = 4
    Signatures <- MCSignatures
    Faults <- AllFaults
PROPERTIES EveryCallReturns
CHECK_DEADLOCK FALSE
