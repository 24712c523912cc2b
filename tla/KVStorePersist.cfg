\* Two threads in transact_mut with the closures of the system calls, on a
\* device of five blocks: three insert records (15 chunks and the block of
\* zeros after them) fit, so that the commits of both threads are in the log
\* together, and a fourth record runs off the end of the device.
SPECIFICATION PSpec
CONSTANTS
    Txns = {c1, c2}
    Values = {v1}
    None = None
    Unit = Unit
    KV = KV
    RM = RM
    LenWord = LenWord
    Zero = Zero
    Empty = Empty
    Torn = Torn
    Ok = Ok
    Err = Err
    k1 = k1
    k2 = k2
    Keys <- MCKeys
    Stripes <- MCStripes
    Buckets <- MCBuckets
    StripeOf <- MCStripeOf
    BucketOf <- MCBucketOf
    Closures <- MCClosures
    Wrappers = {"transact_mut"}
    Methods = {"read", "write", "delete"}
    MaxTid = 3
    MaxOps = 2
    BlockChunks = 4
    NumBlocks = 5
    IOFails = FALSE
SYMMETRY Symmetry
INVARIANTS
    LogHoldsDurable
    ReadsAreCurrent
PROPERTIES
    LogsUnderLock
    AppendOnly
CHECK_DEADLOCK FALSE
