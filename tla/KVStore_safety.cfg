\* Two threads in transact_mut, closures of at most two methods of any kind.
SPECIFICATION KVSpec
CONSTANTS
    Txns = {c1, c2}
    Values = {v1}
    None = None
    Unit = Unit
    k1 = k1
    k2 = k2
    k3 = k3
    Keys <- MCKeys
    Stripes <- MCStripes
    Buckets <- MCBuckets
    StripeOf <- MCStripeOf
    BucketOf <- MCBucketOf
    Wrappers = {"transact_mut"}
    Methods = {"read", "write", "delete"}
    MaxTid = 3
    MaxOps = 2
SYMMETRY Symmetry
INVARIANTS
    KVTypeOK
    OwnedStripesAreLocked
    WriteSetIsLocked
    ReadsAreCurrent
PROPERTIES
    WritesUnderLock
CHECK_DEADLOCK FALSE
