\* Two servers, a bucket with a TTL and perhaps one without, three files.
SPECIFICATION Spec
CONSTANTS
    Server = {s1, s2}
    Bucket = {b1, b2}
    Name = {n1}
    Request = {r1, r2, r3}
    Ttls = {1}
    None = None
    BatchSize = 2
    MaxSkew = 1
    MaxLag = 1
    MaxTime = 2
    MaxFaults = 1
INVARIANT TypeOK
PROPERTIES
    KeptForTtl
    ExpiredRowsGo
