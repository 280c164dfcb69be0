SPECIFICATION MCSpec
CONSTANTS
    founder = founder
    m1 = m1
    m2 = m2
    w1 = w1
    w2 = w2
    i1 = i1
    i2 = i2
    Nobody = Nobody
    NoInvite = NoInvite
    Founder = founder
    Emails <- ThreeEmails
    Workers <- TwoWorkers
    Invites <- TwoInvites
    MaxUsers = 3
    MaxOps = 6
    TokenLife = 2
    RefreshLife = 3
    MaxTime = 5
    MaxChanges = 2
    Rpm = 5
    Burst = 3
    BucketLife = 36
    MaxClock = 50
SYMMETRY Symmetric
INVARIANTS TypeOK AdmittedOnce SerialOwner GateHolds LimitHolds
PROPERTIES SerialAccess
CHECK_DEADLOCK FALSE
