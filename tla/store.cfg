CONSTANTS
    t1 = t1  t2 = t2  t3 = t3
    e1 = e1  e2 = e2
    k1 = k1  a = a
    p1 = p1  bad = bad
    v1 = v1  v2 = v2 v3 = v3
    Threads = {t1, t2}
    Engines = {e1, e2}
    MaxEngines = 2
    Null = Null  Freed = Freed
    Keys = {k1}
    Values = {a}
    MaxDepth = 2
    Patterns = {p1, bad}
    InvalidPatterns = {bad}
    Vres = {v1, v2, v3}
SPECIFICATION LiveSpec
INVARIANTS ReadsHold MarkMeansLock RegexpsSound NoCircle
PROPERTIES ImplementsAtomicStore CallsEnd
