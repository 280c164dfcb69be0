SPECIFICATION MCSpec
CONSTANTS
    h1 = h1
    h2 = h2
    h3 = h3
    e1 = e1
    NoEvent = NoEvent
    Handlers <- ThreeHandlers
    Events <- OneEvent
    MaxCrashes = 2
    MaxApplied = 2
    Machines = {"m1", "m2"}
    NoMachine = "nobody"
    Tenants = {1, 2}
    Payments = {1, 2, 3}
    tenantOf <- OwnerOf
    MaxRows = 2
    MaxJobFaults = 1
    Conns = {1, 2}
    Requests = {"request", "admin"}
    LockedJobs = {"job"}
    NoTenant = 0
    NoOne = "nobody"
    identity <- Identities
    MaxPoolFaults = 2
    p1 = p1
    p2 = p2
    d1 = d1
    k1 = k1
    k2 = k2
    i1 = i1
    i2 = i2
    RetryJob = RetryJob
    NoId = NoId
    NoKey = NoKey
    Keys <- TwoKeys
    Ids <- TwoIds
    Producers <- TwoProducers
    DeliveryWorkers <- OneDelivery
    QueueSize = 1
    MaxRetries = 2
    MaxCount = 3
    MaxStops = 1
INVARIANTS TypeOK DoneWasApplied ProcessedOnce JobsHold SentIsTrue SerialAlerts
PROPERTIES KeepsLedger EveryEventIsRecorded PromptSending RecordedAlertsSettle
