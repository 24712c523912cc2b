\* Every call on one key, on a device of four blocks whose reads and writes
\* can fail at any point, with one loss of power and build_from_disk.
SPECIFICATION Spec
CONSTANTS
    KV = KV
    RM = RM
    LenWord = LenWord
    Zero = Zero
    Empty = Empty
    Torn = Torn
    None = None
    Ok = Ok
    Err = Err
    k1 = k1
    k2 = k2
    Keys <- MCOneKey
    BucketOf <- MCBucketOf
    Values = {v1, v2}
    NumBuckets = 2
    BlockChunks = 4
    NumBlocks = 4
    IOFails = TRUE
    Overfill = TRUE
    Calls = {"insert", "remove", "compact_logs"}
    MaxCrashes = 1
SYMMETRY Symmetry
INVARIANTS
    TypeOK
    SnapshotAtStart
PROPERTIES
    LogBeforeApply
CHECK_DEADLOCK FALSE
