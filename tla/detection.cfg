SPECIFICATION FairSpec
CONSTANTS
    Link = {l1}
    Pass = {p1, p2}
    Shapes <- EveryShape
    Concurrency = 1
    CacheEnabled = TRUE
    PlatformTTL <- TTLs
    InvalidTTL = 1
    DefaultTTL = 1
    DefaultInvalidTTL = 2
    Horizon = 2
INVARIANTS
    TypeOK
    
    ResultsPossible
    DeadWasFound
    HitsDoNotProlong
    AwaitedIsChecked
PROPERTIES
    PassEnds
    ImplementsDetection
