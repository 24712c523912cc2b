\* Every sequence of insert, update and remove over three keys and two values.
SPECIFICATION Spec
CONSTANTS
    Values = {v1, v2}
    None = None
    k1 = k1
    k2 = k2
    k3 = k3
    Keys <- MCKeys
    Buckets <- MCBuckets
    BucketOf <- MCBucketOf
INVARIANTS
    NoDuplicates
PROPERTIES
    ImplementsAbstract
