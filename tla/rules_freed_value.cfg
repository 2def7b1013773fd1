\* Periodical reloads only.
CONSTANTS
    t1 = t1  t2 = t2  t3 = t3
    b1 = b1  b2 = b2  b3 = b3
    o1 = o1  o2 = o2  o3 = o3
    Threads = {t1, t2}
    Reloaders = {}
    Bufs = {b1, b2, b3}
    Null = Null  Freed = Freed  Absent = Absent  Torn = Torn
    MaxVersion = 2
    Broken = {}
    Period = 1
    HasBackup = FALSE
    AutomatedBackups = FALSE
    IgnoreLoadFailures = TRUE
    DiskFaults = FALSE
    Crashes = FALSE
    Objs = {o1, o2, o3}
SPECIFICATION RulesSpec
INVARIANTS AnswerFromOneDocument
