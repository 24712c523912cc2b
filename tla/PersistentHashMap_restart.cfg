\* insert and remove before and after one loss of power and build_from_disk.
SPECIFICATION Spec
CONSTANTS
    Values = {v1, v2}
    KV = KV
    RM = RM
    LenWord = LenWord
    Zero = Zero
    Empty = Empty
    Torn = Torn
    None = None
    Ok = Ok
    Err = Err
    k1 = k1
    k2 = k2
    Keys <- MCKeys
    BucketOf <- MCBucketOf
    NumBuckets = 2
    BlockChunks = 4
    NumBlocks = 5
    IOFails = FALSE
    Overfill = FALSE
    Calls = {"insert", "remove"}
    MaxCrashes = 1
CHECK_DEADLOCK FALSE
INVARIANTS
    LogHoldsMap
