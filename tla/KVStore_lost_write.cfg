\* A key deleted and written again in one transaction is absent after commit.
SPECIFICATION KVSpec
CONSTANTS
    Txns = {c1, c2}
    Values = {v1}
    None = None
    Unit = Unit
    k1 = k1
    k2 = k2
    k3 = k3
    Keys <- MCKeys
    Stripes <- MCStripes
    Buckets <- MCBuckets
    StripeOf <- MCStripeOf
    BucketOf <- MCBucketOf
    Wrappers = {"transact_mut"}
    Methods = {"read", "write", "delete"}
    MaxTid = 3
    MaxOps = 2
INVARIANTS
    CommitInstallsWrites
CHECK_DEADLOCK FALSE
