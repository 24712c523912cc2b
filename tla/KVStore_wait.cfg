\* The loop after try_lock returned Wait never calls try_lock again.
SPECIFICATION KVFairSpec
CONSTANTS
    Txns = {c1, c2}
    Values = {v1}
    None = None
    Unit = Unit
    k1 = k1
    k2 = k2
    k3 = k3
    Keys <- MCKeys
    Stripes <- MCStripes
    Buckets <- MCBuckets
    StripeOf <- MCStripeOf
    BucketOf <- MCBucketOf
    Wrappers = {"transact_mut"}
    Methods = {"write"}
    MaxTid = 3
    MaxOps = 1
PROPERTIES
    WaitIsRetried
CHECK_DEADLOCK FALSE
