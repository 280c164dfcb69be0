SPECIFICATION MCSpec
CONSTANTS
    a1 = a1
    a2 = a2
    i1 = i1
    i2 = i2
    i3 = i3
    t1 = t1
    t2 = t2
    u1 = u1
    NoImport = NoImport
    Agents <- TwoAgents
    Imports <- ThreeImports
    TrafoReadings <- TwoTrafo
    UcReadings <- OneUc
    MaxCopies = 2
    MaxBalances = 2
    MaxRetries = 2
    MaxAborts = 1
    Months <- SomeMonths
    Trafos <- SomeTrafos
    Window = 4
SYMMETRY Symmetric
INVARIANTS TypeOK SerialImports HistoryHolds SteadyImports MonthsAreExplained
CHECK_DEADLOCK FALSE
