\* Two requests, two files of which a batch takes one at a time, two faults.
SPECIFICATION Spec
CONSTANTS
    Request = {r1, r2}
    File = {f1, f2}
    BatchSize = 1
    MaxMissed = 2
    MaxFaults = 2
INVARIANTS
    TypeOK
    GracefulStop
    OneLateBatch
PROPERTIES
    ShutdownCompletes
    NoHalfServer
    BacklogDrains
