\* Fair threads on three stripes, closures of three writes: an aborted
\* transaction leaves no lock behind and a commit under way releases all
\* its stripes.
SPECIFICATION KVFairSpec
CONSTANTS
    Txns = {c1, c2}
    Values = {v1}
    None = None
    Unit = Unit
    k1 = k1
    k2 = k2
    k3 = k3
    Keys <- MCKeys
    Stripes <- WideStripes
    Buckets <- WideBuckets
    StripeOf <- WideStripeOf
    BucketOf <- WideBucketOf
    Wrappers = {"transact", "transact_mut"}
    Methods = {"write"}
    MaxTid = 2
    MaxOps = 3
INVARIANTS
    NoOrphanLocks
PROPERTIES
    CommitReleases
CHECK_DEADLOCK FALSE
