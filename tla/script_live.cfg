\* Three workers for one engine, dropped after two cycles.
CONSTANTS
    t1 = t1  t2 = t2  t3 = t3
    e1 = e1
    c1 = c1  bad = bad
    Threads = {t1, t2, t3}
    Engines = {e1}
    Codes = {c1, bad}
    Invalid = {bad}
    Null = Null
    Freed = Freed
    MaxEngines = 1
    MaxCycles = 2
    Width = 2
SPECIFICATION ScriptLiveSpec
PROPERTIES
    EveryCallReturns
