SPECIFICATION SoloSpec
CONSTANTS
    Request = {"p1", "p2", "a1", "e1"}
    Gc = "gc"
    File = {"f"}
    Payload = {"d1", "d2", "none"}
    PageSize = 2
    MaxConn = 3
    Zero = Zero
    Bucket = {"logs"}
    BucketOf <- MCBucketOf
    TtlBuckets = {"logs"}
    Call <- CallsSolo
    BufSize = 2
    MaxFaults = 1
INVARIANTS
    DownloadAgrees
PROPERTIES
    ImplementsFileStore
