\* delete() that gets Die returns without abort(): the locks stay.
SPECIFICATION KVSpec
CONSTANTS
    Txns = {c1, c2}
    Values = {v1}
    None = None
    Unit = Unit
    k1 = k1
    k2 = k2
    k3 = k3
    Keys <- MCKeys
    Stripes <- MCStripes
    Buckets <- MCBuckets
    StripeOf <- MCStripeOf
    BucketOf <- MCBucketOf
    Wrappers = {"transact_mut"}
    Methods = {"read", "write", "delete"}
    MaxTid = 3
    MaxOps = 2
INVARIANTS
    NoOrphanLocks
CHECK_DEADLOCK FALSE
