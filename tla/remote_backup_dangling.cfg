\* Two forced reloads at once.
CONSTANTS
    t1 = t1  t2 = t2  t3 = t3
    b1 = b1  b2 = b2  b3 = b3
    Threads = {t1, t2}
    Reloaders = {t1, t2}
    Bufs = {b1, b2, b3}
    Null = Null  Freed = Freed  Absent = Absent  Torn = Torn
    MaxVersion = 1
    Broken = {}
    Period = 0
    HasBackup = TRUE
    AutomatedBackups = TRUE
    IgnoreLoadFailures = TRUE
    DiskFaults = FALSE
    Crashes = FALSE
SPECIFICATION Spec
INVARIANTS BackupFromPublished
