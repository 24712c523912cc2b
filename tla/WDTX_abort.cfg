\* abort() called through the trait does not end the transaction.
SPECIFICATION Spec
CONSTANTS
    Txns = {t1, t2}
    Values = {v1}
    None = None
    Unit = Unit
    k1 = k1
    k2 = k2
    Keys <- MCKeys
    Stripes <- MCStripes
    Buckets <- MCBuckets
    StripeOf <- MCStripeOf
    BucketOf <- MCBucketOf
    MaxTid = 2
PROPERTIES
    WritesUnderLock
CHECK_DEADLOCK FALSE
