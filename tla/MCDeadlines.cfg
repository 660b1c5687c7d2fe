CONSTANTS
    ReadStall = 2
    WriteStall = 2
    MinRate = 1
    MaxBody = 5
    MaxRequests = 2
    MaxBusy = 3
    MaxIdle = 3
    MaxTime = 14
SPECIFICATION Spec
INVARIANTS
    StallIsJustified
    HoldIsBounded
    ResponseGetsItsWindow
CHECK_DEADLOCK FALSE
