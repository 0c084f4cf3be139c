SPECIFICATION FairSpec
CONSTANTS
    Request = {"p1", "p2", "a1", "e1"}
    Gc = "gc"
    File = {"f"}
    Payload = {"d1", "d2", "none"}
    PageSize = 2
    MaxConn = 2
    Zero = Zero
    Bucket = {"logs"}
    BucketOf <- MCBucketOf
    TtlBuckets = {"logs"}
    Call <- CallsLocks
    BufSize = 2
    MaxFaults = 0
PROPERTIES
    EveryRequestEnds
    ExpiredFilesGo
