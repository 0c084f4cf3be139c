SPECIFICATION SoloSpec
CONSTANTS
    Request = {"p1", "a1"}
    Gc = "gc"
    File = {"f"}
    Payload = {"d1"}
    PageSize = 2
    MaxConn = 3
    Zero = Zero
    Bucket = {"logs"}
    BucketOf <- MCBucketOf
    TtlBuckets = {}
    Call <- CallsResend
    BufSize = 2
    MaxFaults = 0
PROPERTIES
    ResendIsAccepted
