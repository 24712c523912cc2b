\* write_kv_persist alone, on a device whose reads and writes can fail: a
\* commit whose record was not written goes on and returns true.
SPECIFICATION PSpec
CONSTANTS
    Txns = {c1, c2}
    Values = {v1}
    None = None
    Unit = Unit
    KV = KV
    RM = RM
    LenWord = LenWord
    Zero = Zero
    Empty = Empty
    Torn = Torn
    Ok = Ok
    Err = Err
    k1 = k1
    k2 = k2
    Keys <- MCKeys
    Stripes <- MCStripes
    Buckets <- MCBuckets
    StripeOf <- MCStripeOf
    BucketOf <- MCBucketOf
    Closures <- MCWritePersist
    Wrappers = {"transact_mut"}
    Methods = {"write"}
    MaxTid = 3
    MaxOps = 2
    BlockChunks = 4
    NumBlocks = 3
    IOFails = TRUE
INVARIANTS
    PersistCommitInstallsWrites
CHECK_DEADLOCK FALSE
