\* An append does not move Last-Modified.
SPECIFICATION Spec
CONSTANTS
    Server = {s1}
    Bucket = {b1}
    Name = {n1}
    Request = {r1}
    Ttls = {1}
    None = None
    BatchSize = 1
    MaxSkew = 0
    MaxLag = 0
    MaxTime = 2
    MaxFaults = 0
INVARIANT LastModifiedIsLastChange
