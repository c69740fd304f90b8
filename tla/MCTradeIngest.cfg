SPECIFICATION FairSpec
CONSTANTS
    Times <- Seconds
    SecsPerMinute = 2
    Retention = 1
    PageLimit = 2
    Capacity = 2
    BatchSize = 3
    High = 1
    MaxCount = 3
    LastSecond = 6
    Scenarios <- Days
INVARIANTS
    TypeOK
    NoTradeVanishes
    TwiceOnlyIfRefetched
PROPERTIES
    TradeIsStored
CHECK_DEADLOCK FALSE
