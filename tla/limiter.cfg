SPECIFICATION FairSpec
CONSTANTS
    Caller = {c1, c2, c3}
    RequestDelay = 2
    MaxRequestsPerSecond = 2
    Second = 4
    Horizon = 4
INVARIANTS
    TypeOK
    WindowBound
PROPERTIES
    OwnRequestsSpaced
    SomebodyGetsThrough
