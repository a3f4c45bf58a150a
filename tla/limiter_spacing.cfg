SPECIFICATION Spec
CONSTANTS
    Caller = {c1, c2}
    RequestDelay = 2
    MaxRequestsPerSecond = 0
    Second = 4
    Horizon = 4
PROPERTY
    RequestsSpaced
