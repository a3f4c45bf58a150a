SPECIFICATION FairSpec
CONSTANTS
    a = a
    b = b
    u = u
    p = p
    q = q
    other = other
    Sub = {s1, s2}
    Link = {a, b}
    Platform = {p, q}
    PlatformOf <- MCPlatformOf
    Request <- SelectP
    Verdict = {"valid", "dead"}
    Goroutines = 1
    BatchLimit = 1
    FaultOps = {}
    MaxFaults = 0
PROPERTIES
    EventuallyChecked
    ImplementsLifecycle
