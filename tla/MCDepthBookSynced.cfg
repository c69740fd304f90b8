SPECIFICATION Spec
CONSTANTS
    Levels = {1, 2}
    MaxEvents = 3
    MaxUpdates = 3
    LastSecond = 1
    Scenarios <- Days
INVARIANT SyncedBookIsCurrent
