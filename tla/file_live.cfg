\* The threads run; the location comes back; requests keep arriving, and read.
CONSTANTS
    t1 = t1  t2 = t2  t3 = t3
    b1 = b1  b2 = b2  b3 = b3
    o1 = o1  o2 = o2  o3 = o3
    Threads = {t1, t2}
    Reloaders = {}
    Bufs = {b1, b2}
    Null = Null  Freed = Freed  Absent = Absent  Torn = Torn
    MaxVersion = 2
    Broken = {}
    Period = 1
    HasBackup = TRUE
    AutomatedBackups = TRUE
    IgnoreLoadFailures = TRUE
    DiskFaults = FALSE
    Crashes = FALSE
    Objs = {o1, o2}
SPECIFICATION FileLiveSpec
PROPERTIES CallsReturn EventuallyFresh
