SPECIFICATION FairSpec
CONSTANTS
    n = n
    m = m
    every = every
    daily = daily
    bad = bad
    Zero = Zero
    Loop = Loop
    Name = {n, m}
    Cron = {every, daily}
    Malformed = {bad}
    Task = {t1}
    Created <- OneTask
    Changes <- Postpone
    Requests = {r1}
    Firings = {f1}
    Together = 4
    Entry = {1, 2}
    MaxTime = 2
    MaxFaults = 1
INVARIANTS
    TypeOK
    MapKnowsCron
    ActiveHasItsJob
    StoppedHasNoJob
PROPERTIES
    DeletedStaysDeleted
    DueTaskExpires
    ExpiresOnlyWhenDue
