\* Forced reloads over periodical ones, a disk that fails, crashes.
CONSTANTS
    t1 = t1  t2 = t2  t3 = t3
    b1 = b1  b2 = b2  b3 = b3
    o1 = o1  o2 = o2  o3 = o3
    Threads = {t1, t2}
    Reloaders = {t1, t2}
    Bufs = {b1, b2, b3}
    Null = Null  Freed = Freed  Absent = Absent  Torn = Torn
    MaxVersion = 3
    Broken = {2}
    Period = 1
    HasBackup = TRUE
    AutomatedBackups = FALSE
    IgnoreLoadFailures = FALSE
    DiskFaults = TRUE
    Crashes = TRUE
    Objs = {o1, o2, o3}
SPECIFICATION ObjectsSpec
SYMMETRY AnyAddress
INVARIANTS
    Inv
    OneWinner
    BuffersOwned
    PublishedParses
    SettingsOwned
    LockedSettingsLive
