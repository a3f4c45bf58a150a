SPECIFICATION Spec
CONSTANTS
    n = n
    m = m
    every = every
    daily = daily
    bad = bad
    Zero = Zero
    Loop = Loop
    Name = {n, m}
    Cron = {every, daily}
    Malformed = {bad}
    Task = {t1}
    Created <- OneTask
    Changes <- NoChanges
    Requests = {r1}
    Firings = {f1}
    Together = 3
    Entry = {1, 2, 3}
    MaxTime = 1
    MaxFaults = 0
PROPERTY
    StoppedUntilRequested
