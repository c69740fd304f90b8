SPECIFICATION Spec
CONSTANTS
    Paths = {"a"}
    MaxMinutes = 2
    WindowLen = 4
    ReviewAt = {2}
    RetryAt = {}
    MaxStale = 0
    MaxStopouts = 2
    Scenarios <- Days
    MaxPriority = 1
INVARIANTS
    TypeOK
    OpenEntryHasSnapshot
    NoDoubleExposure
    JudgedOnce
    RefreshIsOnItsWay
PROPERTIES
    EntryFollowsStage1
    NoEntryPastStop
CHECK_DEADLOCK FALSE
