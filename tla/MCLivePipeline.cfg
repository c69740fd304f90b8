SPECIFICATION FairSpec
CONSTANTS
    Last = 4
    Gappy = {3}
    MaxEdits = 1
    Slots = 2
    BatchSize = 2
    CatchupEnabled = TRUE
    EnterLag = 2
    ResumeLag = 1
    TailMinutes = 2
    ReconcileLag = 2
    ComputeWorkers = 1
INVARIANTS
    TypeOK
    QueueOverflowsOnlyBySlip
    RowsAreCurrentOrOwed
PROPERTIES
    CommitFollowsState
    MinuteIsPersistedOrOwed
    OutputReopens
    ComputedJobSettles
CHECK_DEADLOCK FALSE
