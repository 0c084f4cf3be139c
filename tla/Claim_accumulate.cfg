SPECIFICATION Spec
CONSTANTS
    Request = {"p1", "a1", "a2"}
    Gc = "gc"
    File = {"f"}
    Payload = {"d1", "d2", "d3", "none"}
    PageSize = 2
    MaxConn = 4
    Zero = Zero
    Bucket = {"logs"}
    BucketOf <- MCBucketOf
    TtlBuckets = {}
    Call <- CallsAppends
    BufSize = 2
    MaxFaults = 0
PROPERTIES
    AppendsAccumulate
