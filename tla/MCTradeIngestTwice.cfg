SPECIFICATION Spec
CONSTANTS
    Times <- Seconds
    SecsPerMinute = 2
    Retention = 1
    PageLimit = 2
    Capacity = 2
    BatchSize = 3
    High = 1
    MaxCount = 3
    LastSecond = 6
    Scenarios <- Reconnect
INVARIANTS
    TradeCountedOnce
CHECK_DEADLOCK FALSE
