SPECIFICATION FairSpec
CONSTANTS
    t1 = t1
    r1 = r1
    w1 = w1
    w2 = w2
    k1 = k1
    Messages <- MCMessages
    Workers = {w1}
    InsertWorkers = {k1}
    Tier <- MCTier
    Hot = {t1}
    Shard <- MCShard
    Housekeeper = w1
    BatchSize = 1
    InsertSize = 2
    ChanCap = 2
    MaxRetry = 2
    Lease = 2
    BackoffStep = 1
    BackoffCap = 2
    Retention = 0
    Lookback = 1
    MaxAge = 2
    MaxFaults = 1
PROPERTIES
    RowSettles
