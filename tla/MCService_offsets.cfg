SPECIFICATION SoloSpec
CONSTANTS
    Request = {"p1", "a1", "a2", "a3"}
    Gc = "gc"
    File = {"f"}
    Payload = {"d1", "d2", "none"}
    PageSize = 2
    MaxConn = 2
    Zero = Zero
    Bucket = {"logs"}
    BucketOf <- MCBucketOf
    TtlBuckets = {"logs"}
    Call <- CallsOffsets
    BufSize = 2
    MaxFaults = 1
PROPERTIES
    ImplementsFileStore
