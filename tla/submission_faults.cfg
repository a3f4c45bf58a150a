SPECIFICATION Spec
CONSTANTS
    a = a
    b = b
    u = u
    p = p
    q = q
    other = other
    Sub = {s1}
    Link = {a, b, u}
    Platform = {p, q}
    PlatformOf <- MCPlatformOf
    Request <- Every
    Verdict = {"valid", "locked", "dead", "limited"}
    Goroutines = 2
    BatchLimit = 1
    FaultOps = {"lookup", "create", "claim", "get", "save", "upsert", "list", "settle", "panic", "crash"}
    MaxFaults = 2
INVARIANTS
    OnePassAtATime
    NoneAbandoned
    CheckedHasNothingPending
    ListsDisjoint
    OnlySubmittedLinks
    SuccessIsChecked
PROPERTIES
    PendingLeavesWithVerdict
    RefusedIsTaken
    LifecycleUntilFault
    SubmittedLinksStay
