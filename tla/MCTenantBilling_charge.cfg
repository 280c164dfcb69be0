SPECIFICATION MCSpec
CONSTANTS
    w1 = w1
    w2 = w2
    s1 = s1
    s2 = s2
    None = None
    Workers <- TwoWorkers
    Subs <- TwoSubs
    Limits <- SmallLimits
    Price <- SmallPrice
    MinCharge = 0
    MaxOps = 4
    MaxTime = 2
    MaxSeats = 2
    Handlers = {1, 2}
    Tenants = {1, 2}
    Customers = {1, 2}
    Payments = {1}
    MaxBad = 1
    MaxAsked = 3
SYMMETRY Symmetric
PROPERTIES CalmCharges
CHECK_DEADLOCK FALSE
