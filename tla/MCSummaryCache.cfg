SPECIFICATION MCSpec
CONSTANTS
    t1 = t1
    t2 = t2
    p1 = p1
    p2 = p2
    w1 = w1
    Tenants <- TwoTenants
    Requests <- TwoRequests
    Writers <- OneWriter
    Asked <- Keys
    WriteKinds <- AllWrites
    TTL = 2
    MaxAsks = 3
    MaxWrites = 2
    MaxTime = 5
    LoadMayFail = TRUE
    Callers = {1, 2}
    LineSets <- SomeLines
    CacheTTL = 1
    NoEnd = 9
    MaxPublished = 2
    Horizon = 3
SYMMETRY Symmetric
INVARIANTS TypeOK AnswersAreFresh WaitingIsRight AgingAnswers TariffsAreRecent
CHECK_DEADLOCK FALSE
