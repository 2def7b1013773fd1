\* Up to two executions after each .init(); all documents of up to three of some
\* lines, and all objects of up to two of some items; two VCLs that come and go.
CONSTANTS
    a1 = a1  a2 = a2
    Args = {a1, a2}
    Null = Null
    MaxArgs = 2
    MaxValues = 2
    MaxRuns = 2
    k1 = k1  v1 = v1
    Keys = {k1}
    Values = {v1}
    Unset = Unset
    IniDocuments <- MCIniDocuments
    MaxLine = 9
    MaxName = 3
    NameDelimiter <- Colon
    ValueDelimiter <- Semicolon
    JsonDocuments <- MCJsonDocuments
    MaxInt = 7
    JsonDelimiter <- Colon
    MaxItems = 2
    MaxDepth = 3
    RulesDocuments <- MCRulesDocuments
    Bad = "B"
    Environments <- MCEnvironments
    Nameless = Nameless
    DumpPrefixes <- MCPrefixes
    Rooms = {0, 1, 2, 8, 13, 14, 15, 16, 17, 22, 24, 25, 26, 27, 28, 32, 40}
    Letters = {"a", "b"}
    p1 = p1  p2 = p2  s1 = s1  s2 = s2
    Vcls = {p1, p2}
    Scripts = {s1, s2}
    NoClass = NoClass
    MaxClasses = 3
SPECIFICATION PartsSpec
SYMMETRY AnyArg
INVARIANTS
    FirstResultTold
    ArgumentsKept
    SaysWhatItMeans
    LostAtTheBound
    VariablePerScalar
    RulesAsWritten
    ContentsPutBack
    DumpSound
    LocksHaveClass
CHECK_DEADLOCK FALSE
