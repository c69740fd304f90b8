SPECIFICATION Spec
CONSTANTS
    t1 = t1
    r1 = r1
    w1 = w1
    w2 = w2
    k1 = k1
    Messages <- MCMessages
    Workers = {w1, w2}
    InsertWorkers = {k1}
    Tier <- MCTier
    Hot = {}
    Shard <- MCShard
    Housekeeper = w1
    BatchSize = 2
    InsertSize = 2
    ChanCap = 2
    MaxRetry = 2
    Lease = 2
    BackoffStep = 1
    BackoffCap = 2
    Retention = 0
    Lookback = 0
    MaxAge = 0
    MaxFaults = 1
INVARIANTS
    TypeOK
    LeaseIsExclusive
PROPERTIES
    DeadIsFinal
    KeepsPromise
