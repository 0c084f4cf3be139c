SPECIFICATION Spec
CONSTANTS
    Request = {"p1", "p2", "q1", "e1"}
    Gc = "gc"
    File = {"f", "g"}
    Payload = {"d1", "none"}
    PageSize = 2
    MaxConn = 2
    Zero = Zero
    Bucket = {"logs"}
    BucketOf <- MCBucketOf
    TtlBuckets = {"logs"}
    Call <- CallsExpiry
    BufSize = 2
    MaxFaults = 1
INVARIANTS
    RowsAndBlobs
    PoolAccounting
