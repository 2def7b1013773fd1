\* Three workers, two engines dropped after two cycles, two codes that compile
\* and one that does not.
CONSTANTS
    t1 = t1  t2 = t2  t3 = t3
    e1 = e1  e2 = e2
    c1 = c1  c2 = c2  bad = bad
    Threads = {t1, t2, t3}
    Engines = {e1, e2}
    Codes = {c1, c2, bad}
    Invalid = {bad}
    Null = Null
    Freed = Freed
    MaxEngines = 2
    MaxCycles = 2
    Width = 3
SPECIFICATION ScriptSpec
SYMMETRY AnyName
INVARIANTS
    EnginesOwned
    PoolBounded
    NoLostWakeup
    WithinCycles
    StatsAddUp
    RightFunction
    FunctionCompiles
PROPERTY ImplementsAllocator
