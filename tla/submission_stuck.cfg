SPECIFICATION Spec
CONSTANTS
    a = a
    b = b
    u = u
    p = p
    q = q
    other = other
    Sub = {s1}
    Link = {a}
    Platform = {p, q}
    PlatformOf <- MCPlatformOf
    Request <- AllPlatforms
    Verdict = {"valid", "locked", "dead", "limited"}
    Goroutines = 1
    BatchLimit = 1
    FaultOps = {"get"}
    MaxFaults = 1
INVARIANT
    FailedPassRestored
