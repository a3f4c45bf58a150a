SPECIFICATION Spec
CONSTANTS
    Platform = {"quark", "uc"}
    Admin = {a1, a2}
    Pass = {p1}
    Submitted <- SomeConfigs
    Raw <- RawValues
    DefaultConcurrency <- Misconfigured
    MaxConcurrency = 5
INVARIANTS
    TypeOK
    InForce
    SemaphoreUsable
    ShownIsUsed
SYMMETRY Admins
