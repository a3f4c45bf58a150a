SPECIFICATION Spec
CONSTANTS
    a = a
    b = b
    u = u
    p = p
    q = q
    other = other
    Sub = {s1, s2}
    Link = {a, b}
    Platform = {p, q}
    PlatformOf <- MCPlatformOf
    Request <- NoneOrAll
    Verdict = {"valid", "locked", "dead", "limited"}
    Goroutines = 1
    BatchLimit = 1
    FaultOps = {}
    MaxFaults = 0
SYMMETRY SymmetricSubs
INVARIANTS
    TypeOK
    NoLinkVanishes
PROPERTY
    CheckedIsFinal
