\* Any caller: methods are cancelled, fail, and the handle is used again.
SPECIFICATION Spec
CONSTANTS
    OldLen = 2
    MaxRead = 2
    MaxCalls = 4
    MaxFaults = 1
INVARIANTS
    TypeOK
    AllOrNothing
    ReadsAreContiguous
    NeverPanics
PROPERTY EveryCallReturns
