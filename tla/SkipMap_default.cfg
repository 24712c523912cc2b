SPECIFICATION Spec
CONSTANTS
    Keys <- MCAllKeys
    Values <- MCValues
    v1 = v1
    v2 = v2
    Default = 0
    None = None
    MaxLevel = 2
    MaxNodes = 3
INVARIANTS NoCallStops
