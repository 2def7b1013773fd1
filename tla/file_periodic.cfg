\* Periodical reloads only, automated backups, a disk that works.
CONSTANTS
    t1 = t1  t2 = t2  t3 = t3
    b1 = b1  b2 = b2  b3 = b3
    o1 = o1  o2 = o2  o3 = o3
    Threads = {t1, t2, t3}
    Reloaders = {}
    Bufs = {b1, b2}
    Null = Null  Freed = Freed  Absent = Absent  Torn = Torn
    MaxVersion = 3
    Broken = {2}
    Period = 1
    HasBackup = TRUE
    AutomatedBackups = TRUE
    IgnoreLoadFailures = TRUE
    DiskFaults = FALSE
    Crashes = TRUE
    Objs = {o1, o2}
SPECIFICATION FileSpec
SYMMETRY AnyAddress
INVARIANTS FileAnswers BackupFromPublished BackupCurrent AgreeAtRest
PROPERTIES NoRegress LastGoodKept ImplementsCell
