\* insert, remove and compact_logs without a loss of power.
SPECIFICATION Spec
CONSTANTS
    Values = {v1, v2}
    KV = KV
    RM = RM
    LenWord = LenWord
    Zero = Zero
    Empty = Empty
    Torn = Torn
    None = None
    Ok = Ok
    Err = Err
    k1 = k1
    k2 = k2
    Keys <- MCKeys
    BucketOf <- MCBucketOf
    NumBuckets = 2
    BlockChunks = 4
    NumBlocks = 5
    IOFails = FALSE
    Overfill = FALSE
    Calls = {"insert", "remove", "compact_logs"}
    MaxCrashes = 0
CHECK_DEADLOCK FALSE
INVARIANTS
    LogHoldsMap
