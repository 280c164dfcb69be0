SPECIFICATION MCSpec
CONSTANTS
    w1 = w1
    w2 = w2
    r1 = r1
    r2 = r2
    r3 = r3
    s1 = s1
    s2 = s2
    u1 = u1
    c1 = c1
    c2 = c2
    C1 = C1
    c3 = c3
    k1 = k1
    k2 = k2
    NoSub = NoSub
    NoRow = NoRow
    Workers <- TwoWorkers
    Rows <- ThreeRows
    Subs <- TwoSubs
    Units <- OneUnit
    Codes <- FourCodes
    SubCodes <- TwoSubCodes
    Fold <- UpperCase
    Kinds <- Network
    MaxTransformers = 2
    MaxFile = 2
    MaxOps = 1
    Transformers <- TwoTrafos
    Meters <- OneMeter
    NoTransformer = 0
    Horizon = 5
    MaxReadings = 2
    MaxTyped = 3
    MaxManual = 0
    UtcRequests <- WithoutOffset
    Moves <- FewMoves
SYMMETRY Symmetric
INVARIANTS RecalculationsReplace
CHECK_DEADLOCK FALSE
