\* transact asserts where transact_mut retries.
SPECIFICATION KVSpec
CONSTANTS
    Txns = {c1, c2}
    Values = {v1}
    None = None
    Unit = Unit
    k1 = k1
    k2 = k2
    k3 = k3
    Keys <- MCKeys
    Stripes <- MCStripes
    Buckets <- MCBuckets
    StripeOf <- MCStripeOf
    BucketOf <- MCBucketOf
    Wrappers = {"transact"}
    Methods = {"read", "write"}
    MaxTid = 2
    MaxOps = 2
INVARIANTS
    TransactNeverPanics
CHECK_DEADLOCK FALSE
